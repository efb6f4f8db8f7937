-------------------------- MODULE ScanManagerProofs --------------------------
(***************************************************************************)
(* Proofs about ScanManager, for every list of disjoint blocks.            *)
(***************************************************************************)
EXTENDS ScanManager, SequenceTheorems, TLAPS

\* The numbers block k was given.
Span(k) == index[k] .. index[k] + networks[k].size - 1

(* The inductive invariant.  Numbering: the blocks numbered so far share   *)
(* the numbers up to total among them, and each begins where the one       *)
(* before it ends, which is all the bisection needs.                       *)
Numbering ==
  /\ \A k \in DOMAIN index : Span(k) \subseteq 1..total
  /\ \A k, m \in DOMAIN index : k # m => Span(k) \cap Span(m) = {}
  /\ \A n \in 1..total : \E k \in DOMAIN index : n \in Span(k)
  /\ index # <<>> => /\ index[1] = 1
                     /\ total = index[Len(index)] + networks[Len(index)].size - 1
  /\ \A k \in DOMAIN index : k > 1 => index[k] = index[k - 1] + networks[k - 1].size

\* The search is about one of the numbers, and the cycle has each number
\* either before it, behind it or in the search, with its own address.
CycleOfNumbers ==
  /\ phase = "number" => left = {} /\ handed = {}
  /\ phase # "number" => Len(index) = Len(networks) /\ total > 0
  /\ phase = "search" => i > 0 /\ i \notin left
  /\ phase # "number" => 1..total = left \cup {h[1] : h \in handed}
                                         \cup IF phase = "search" THEN {i} ELSE {}
  /\ \A h \in handed : /\ h[1] \notin left
                       /\ phase = "search" => h[1] # i
                       /\ \E k \in DOMAIN index : /\ h[1] \in Span(k)
                                                  /\ h[2] = networks[k].start + (h[1] - index[k])

IInv == TypeOK /\ Numbering /\ CycleOfNumbers /\ SliceSpansNumber
-----------------------------------------------------------------------------
(* The blocks *)

\* A scope is a list of blocks, and each block has a start and a size.
LEMMA Networks ==
  ASSUME networks \in Scopes
  PROVE  /\ networks \in Seq(Block)
         /\ Len(networks) \in Nat \ {0}
         /\ DOMAIN networks = 1..Len(networks)
         /\ \A k \in 1..Len(networks) : /\ networks[k].start \in Nat
                                        /\ networks[k].size \in Nat \ {0}
<1>1. networks \in Seq(Block) /\ networks # <<>>
  BY ScopesAssumption
<1>2. Len(networks) \in Nat \ {0} /\ DOMAIN networks = 1..Len(networks)
  BY <1>1, EmptySeq, LenProperties
<1>3. \A k \in 1..Len(networks) : networks[k] \in Block
  BY <1>1, ElementOfSeq
<1> QED
  BY <1>1, <1>2, <1>3 DEF Block

\* Different blocks have different addresses.
LEMMA AddressesApart ==
  ASSUME networks \in Scopes, NEW k \in 1..Len(networks), NEW m \in 1..Len(networks),
         NEW a, a \in Extent(networks[k]), a \in Extent(networks[m])
  PROVE  k = m
<1>1. DOMAIN networks = 1..Len(networks)
  BY Networks
<1> QED
  BY <1>1, ScopesAssumption

\* The list of indices has one for each block numbered so far.
LEMMA Indices ==
  ASSUME TypeOK
  PROVE  /\ Len(index) \in Nat
         /\ DOMAIN index = 1..Len(index)
         /\ 1..Len(index) \subseteq 1..Len(networks)
         /\ \A k \in 1..Len(index) : index[k] \in Nat
<1>1. index \in Seq(Nat) /\ Len(index) <= Len(networks) /\ networks \in Scopes
  BY DEF TypeOK
<1>2. Len(index) \in Nat /\ DOMAIN index = 1..Len(index)
  BY <1>1, LenProperties
<1>3. \A k \in 1..Len(index) : index[k] \in Nat
  BY <1>1, ElementOfSeq
<1> QED
  BY <1>1, <1>2, <1>3, Networks

\* The middle of a slice that is not empty lies in it.
LEMMA MiddleInSlice ==
  ASSUME lo \in Nat, hi \in Nat, lo < hi
  PROVE  Middle \in lo .. hi - 1
  BY DEF Middle
-----------------------------------------------------------------------------
(* The invariant *)

LEMMA InitIInv == Init => IInv
<1> SUFFICES ASSUME Init
             PROVE  IInv
  OBVIOUS
<1>1. index = <<>> /\ Len(index) = 0 /\ DOMAIN index = {} /\ index \in Seq(Nat)
  BY EmptySeq DEF Init
<1>2. TypeOK
  BY <1>1, Networks DEF Init, TypeOK
<1>3. Numbering
  BY <1>1 DEF Init, Numbering
<1>4. CycleOfNumbers /\ SliceSpansNumber
  BY <1>1 DEF Init, CycleOfNumbers, SliceSpansNumber
<1> QED
  BY <1>2, <1>3, <1>4 DEF IInv

\* A further block gets the numbers that follow.
LEMMA NumberBlockKeepsIInv == IInv /\ NumberBlock => IInv'
<1> SUFFICES ASSUME IInv, NumberBlock
             PROVE  IInv'
  OBVIOUS
<1>0. TypeOK /\ Numbering /\ CycleOfNumbers
  BY DEF IInv
<1>n. PICK n \in 1..Len(networks) : n = Len(index) + 1
  BY <1>0, Indices, Networks DEF NumberBlock, TypeOK
<1>z. PICK size \in Nat \ {0} : size = networks[n].size
  BY <1>0, Networks DEF TypeOK
<1>1. /\ Len(index) \in Nat
      /\ DOMAIN index = 1..Len(index)
      /\ n \in 1..Len(networks)
      /\ networks' = networks
      /\ networks'[n].size = size
      /\ total \in Nat
      /\ total' = total + size
  BY <1>0, <1>n, <1>z, Indices, Networks DEF TypeOK, NumberBlock
<1>2. /\ index' \in Seq(Nat)
      /\ Len(index') = n
      /\ DOMAIN index' = 1..n
      /\ \A k \in 1..Len(index) : index'[k] = index[k]
      /\ index'[n] = total + 1
  BY <1>0, <1>1, <1>n, LenProperties, AppendProperties DEF TypeOK, NumberBlock, FirstNumber
<1>3. TypeOK'
  <2>1. /\ total' \in Nat
        /\ i' \in 0..total'
        /\ left' = {}
        /\ handed' = {}
    BY <1>0, <1>1 DEF TypeOK, NumberBlock, CycleOfNumbers
  <2>2. Len(index') <= Len(networks')
    BY <1>0, <1>1, <1>2, Networks DEF TypeOK
  <2> QED
    BY <1>0, <1>1, <1>2, <2>1, <2>2 DEF TypeOK, NumberBlock, sliceVars
<1>4. \A k \in 1..Len(index) : Span(k)' = Span(k)
  BY <1>1, <1>2 DEF Span
<1>5. Span(n)' = total + 1 .. total'
  <2>1. Span(n)' = total + 1 .. (total + 1) + size - 1
    BY <1>1, <1>2 DEF Span
  <2>2. (total + 1) + size - 1 = total'
    BY <1>1
  <2> QED
    BY <2>1, <2>2
<1>6. 1..n = 1..Len(index) \cup {n} /\ n \notin 1..Len(index)
  BY <1>1, <1>n
<1>7. \A k \in 1..Len(index) : Span(k) \subseteq 1..total
  BY <1>0, <1>1 DEF Numbering
<1>8. Numbering'
  <2>1. \A k \in DOMAIN index' : Span(k)' \subseteq 1..total'
    BY <1>1, <1>2, <1>4, <1>5, <1>6, <1>7
  <2>2. \A k, m \in DOMAIN index' : k # m => Span(k)' \cap Span(m)' = {}
    <3> SUFFICES ASSUME NEW k \in 1..n, NEW m \in 1..n, k # m
                 PROVE  Span(k)' \cap Span(m)' = {}
      BY <1>2
    <3>1. CASE k \in 1..Len(index) /\ m \in 1..Len(index)
      BY <1>0, <1>1, <1>4, <3>1 DEF Numbering
    <3>2. CASE k = n \/ m = n
      BY <1>1, <1>4, <1>5, <1>6, <1>7, <3>2
    <3> QED
      BY <1>6, <3>1, <3>2
  <2>3. \A x \in 1..total' : \E k \in DOMAIN index' : x \in Span(k)'
    <3> SUFFICES ASSUME NEW x \in 1..total'
                 PROVE  \E k \in 1..n : x \in Span(k)'
      BY <1>2
    <3>1. CASE x \in 1..total
      BY <1>0, <1>1, <1>4, <1>6, <3>1 DEF Numbering
    <3>2. CASE x \notin 1..total
      BY <1>1, <1>5, <1>6, <3>2
    <3> QED
      BY <3>1, <3>2
  <2>4. index'[1] = 1 /\ total' = index'[Len(index')] + networks'[Len(index')].size - 1
    <3>1. total' = index'[n] + networks'[n].size - 1
      BY <1>1, <1>2
    <3>2. CASE index = <<>>
      <4>1. n = 1
        BY <1>n, <3>2, EmptySeq
      <4>2. total = 0
        BY <1>0, <1>1, <3>2, EmptySeq DEF Numbering
      <4> QED
        BY <1>1, <1>2, <3>1, <4>1, <4>2
    <3>3. CASE index # <<>>
      <4>1. 1 \in 1..Len(index)
        BY <1>0, <1>1, <3>3, EmptySeq DEF TypeOK
      <4> QED
        BY <1>0, <1>1, <1>2, <3>1, <3>3, <4>1 DEF Numbering
    <3> QED
      BY <3>2, <3>3
  <2>5. \A k \in DOMAIN index' : k > 1 => index'[k] = index'[k - 1] + networks'[k - 1].size
    <3> SUFFICES ASSUME NEW k \in 1..n, k > 1
                 PROVE  index'[k] = index'[k - 1] + networks[k - 1].size
      BY <1>1, <1>2
    <3>1. k - 1 \in 1..Len(index)
      BY <1>1, <1>n
    <3>2. CASE k \in 1..Len(index)
      BY <1>0, <1>1, <1>2, <3>1, <3>2 DEF Numbering
    <3>3. CASE k = n
      <4>1. k - 1 = Len(index) /\ index # <<>>
        BY <1>1, <1>n, <3>1, <3>3, EmptySeq
      <4>2. index[Len(index)] \in Nat /\ networks[Len(index)].size \in Nat
        BY <1>0, <1>1, <3>1, <4>1, Indices, Networks DEF TypeOK
      <4>3. total = index[Len(index)] + networks[Len(index)].size - 1
        BY <1>0, <4>1 DEF Numbering
      <4> QED
        BY <1>2, <3>1, <3>3, <4>1, <4>2, <4>3
    <3> QED
      BY <1>6, <3>2, <3>3
  <2> QED
    BY <2>1, <2>2, <2>3, <2>4, <2>5 DEF Numbering
<1>9. CycleOfNumbers' /\ SliceSpansNumber'
  BY <1>0 DEF NumberBlock, CycleOfNumbers, SliceSpansNumber
<1> QED
  BY <1>3, <1>8, <1>9 DEF IInv

\* Once all blocks are numbered there is a number, and the numbers end with
\* those of the last block.
LEMMA NumbersEnd ==
  ASSUME TypeOK, Numbering, Len(index) = Len(networks)
  PROVE  /\ total > 0
         /\ index[1] = 1
         /\ total = index[Len(networks)] + networks[Len(networks)].size - 1
<1> DEFINE last == Len(networks)
<1>1. last \in DOMAIN index /\ index # <<>>
  BY Networks, Indices, EmptySeq DEF TypeOK
<1>2. index[last] \in Nat /\ networks[last].size \in Nat \ {0} /\ total \in Nat
  BY <1>1, Networks, Indices DEF TypeOK
<1>3. index[last] \in Span(last)
  BY <1>2 DEF Span
<1>4. index[last] \in 1..total
  BY <1>1, <1>3 DEF Numbering
<1> QED
  BY <1>1, <1>2, <1>4 DEF Numbering

LEMMA StartCycleKeepsIInv == IInv /\ StartCycle => IInv'
<1> SUFFICES ASSUME IInv, StartCycle
             PROVE  IInv'
  OBVIOUS
<1>0. TypeOK /\ Numbering /\ CycleOfNumbers
  BY DEF IInv
<1>1. total > 0
  BY <1>0, NumbersEnd DEF StartCycle
<1>2. TypeOK'
  BY <1>0 DEF TypeOK, StartCycle, Numbers, sliceVars
<1>3. Numbering'
  BY <1>0 DEF Numbering, Span, StartCycle
<1>4. CycleOfNumbers' /\ SliceSpansNumber'
  BY <1>0, <1>1 DEF CycleOfNumbers, SliceSpansNumber, StartCycle, Numbers
<1> QED
  BY <1>2, <1>3, <1>4 DEF IInv

LEMMA GetNextIpKeepsIInv == \A n \in left : IInv /\ GetNextIp(n) => IInv'
<1> SUFFICES ASSUME NEW n \in left, IInv, GetNextIp(n)
             PROVE  IInv'
  OBVIOUS
<1>0. TypeOK /\ Numbering /\ CycleOfNumbers
  BY DEF IInv
<1>1. n \in 1..total /\ total \in Nat /\ Len(index) = Len(networks)
  BY <1>0 DEF TypeOK, CycleOfNumbers, GetNextIp
<1>2. Len(networks) \in Nat \ {0}
  BY <1>0, Networks DEF TypeOK
<1>3. TypeOK'
  BY <1>0, <1>1, <1>2 DEF TypeOK, GetNextIp
<1>4. Numbering'
  BY <1>0 DEF Numbering, Span, GetNextIp
<1>5. CycleOfNumbers'
  BY <1>0, <1>1 DEF CycleOfNumbers, Span, GetNextIp
<1>6. SliceSpansNumber'
  <2>1. lo' = 1 /\ hi' - 1 = Len(networks) /\ lo' < hi'
    BY <1>2 DEF GetNextIp
  <2>2. index[1] <= n
    BY <1>0, <1>1, NumbersEnd
  <2>3. n < index[Len(networks)] + networks[Len(networks)].size
    <3>1. PICK first \in Nat, size \in Nat :
            index[Len(networks)] = first /\ networks[Len(networks)].size = size
      BY <1>0, <1>1, <1>2, Networks, Indices DEF TypeOK
    <3>2. total = first + size - 1
      BY <1>0, <1>1, <3>1, NumbersEnd
    <3> QED
      BY <1>1, <3>1, <3>2
  <2> QED
    BY <2>1, <2>2, <2>3 DEF SliceSpansNumber, GetNextIp
<1> QED
  BY <1>3, <1>4, <1>5, <1>6 DEF IInv

\* In a search the middle of the slice is a block with an index, and so are
\* both its neighbours in the slice.
LEMMA MiddleIsNumbered ==
  ASSUME IInv, Searching
  PROVE  /\ Middle \in lo .. hi - 1
         /\ Middle \in 1..Len(networks)
         /\ index[Middle] \in Nat
         /\ networks[Middle].size \in Nat \ {0}
         /\ Len(index) = Len(networks)
         /\ Len(networks) \in Nat
         /\ i \in Nat /\ lo \in Nat \ {0} /\ hi \in Nat /\ hi - 1 <= Len(networks)
<1>1. TypeOK /\ Len(index) = Len(networks)
  BY DEF IInv, CycleOfNumbers, Searching
<1>2. Len(networks) \in Nat \ {0}
  BY <1>1, Networks DEF TypeOK
<1>3. i \in Nat /\ lo \in Nat \ {0} /\ hi \in Nat /\ hi - 1 <= Len(networks)
  BY <1>1, <1>2 DEF TypeOK
<1>4. Middle \in lo .. hi - 1
  BY <1>3, MiddleInSlice DEF Searching
<1>5. Middle \in 1..Len(networks)
  BY <1>2, <1>3, <1>4
<1> QED
  BY <1>1, <1>2, <1>3, <1>4, <1>5, Networks, Indices DEF TypeOK

\* A number before the middle of the slice lies in its left half, which ends
\* where the middle begins; it is not empty, or the number would be before
\* the slice.
LEMMA SearchLeftKeepsIInv == IInv /\ SearchLeft => IInv'
<1> SUFFICES ASSUME IInv, SearchLeft
             PROVE  IInv'
  OBVIOUS
<1>0. TypeOK /\ Numbering /\ CycleOfNumbers /\ SliceSpansNumber
  BY DEF IInv
<1>s. Searching
  BY DEF SearchLeft
<1>1. PICK m \in 1..Len(networks) : m = Middle
  BY <1>s, MiddleIsNumbered
<1>2. hi' = m /\ i < index[m]
  BY <1>1 DEF SearchLeft, LeftOf, Before
<1>3. TypeOK'
  BY <1>0, <1>2, Networks DEF TypeOK, SearchLeft
<1>4. Numbering' /\ CycleOfNumbers'
  BY <1>0 DEF Numbering, CycleOfNumbers, Span, SearchLeft
<1>5. SliceSpansNumber'
  <2>1. index[lo] <= i
    BY <1>0, <1>s DEF SliceSpansNumber, Searching
  <2>2. m # lo
    BY <1>1, <1>2, <1>s, <2>1, MiddleIsNumbered
  <2>3. lo < m /\ m \in DOMAIN index /\ m > 1
    BY <1>0, <1>1, <1>s, <2>2, MiddleIsNumbered, Indices
  <2>4. index[m] = index[m - 1] + networks[m - 1].size
    BY <1>0, <2>3 DEF Numbering
  <2> QED
    BY <1>2, <2>1, <2>3, <2>4 DEF SliceSpansNumber, SearchLeft
<1> QED
  BY <1>3, <1>4, <1>5 DEF IInv

\* A number behind the middle lies in the right half, which begins where the
\* middle ends.
LEMMA SearchRightKeepsIInv == IInv /\ SearchRight => IInv'
<1> SUFFICES ASSUME IInv, SearchRight
             PROVE  IInv'
  OBVIOUS
<1>0. TypeOK /\ Numbering /\ CycleOfNumbers /\ SliceSpansNumber
  BY DEF IInv
<1>s. Searching
  BY DEF SearchRight
<1>1. PICK m \in 1..Len(networks) : m = Middle
  BY <1>s, MiddleIsNumbered
<1>2. lo' = m + 1 /\ i >= index[m] + networks[m].size
  BY <1>1 DEF SearchRight, RightOf, After
<1>3. TypeOK'
  BY <1>0, <1>2, Networks DEF TypeOK, SearchRight
<1>4. Numbering' /\ CycleOfNumbers'
  BY <1>0 DEF Numbering, CycleOfNumbers, Span, SearchRight
<1>5. SliceSpansNumber'
  <2>1. i < index[hi - 1] + networks[hi - 1].size
    BY <1>0, <1>s DEF SliceSpansNumber, Searching
  <2>2. m # hi - 1
    BY <1>1, <1>2, <1>s, <2>1, MiddleIsNumbered
  <2>3. PICK k \in DOMAIN index : k = m + 1 /\ k > 1 /\ k - 1 = m /\ k < hi
    BY <1>0, <1>1, <1>s, <2>2, MiddleIsNumbered, Indices
  <2>4. index[k] = index[k - 1] + networks[k - 1].size
    BY <1>0, <2>3 DEF Numbering
  <2>5. index[k] <= i
    BY <1>2, <2>3, <2>4
  <2> QED
    BY <1>2, <2>1, <2>3, <2>5 DEF SliceSpansNumber, SearchRight
<1> QED
  BY <1>3, <1>4, <1>5 DEF IInv

\* When neither half has it, the number is one of the middle block's, and the
\* address that comes with it is an address of that block.
LEMMA FoundInMiddle ==
  ASSUME IInv, Found
  PROVE  \E m \in 1..Len(networks) :
            /\ m = Middle
            /\ m \in DOMAIN index
            /\ i \in Span(m)
            /\ i \in 1..total
            /\ AddressIn(m) \in Nat
            /\ AddressIn(m) = networks[m].start + (i - index[m])
            /\ AddressIn(m) \in Extent(networks[m])
<1>1. Searching /\ TypeOK /\ CycleOfNumbers
  BY DEF Found, IInv
<1>2. PICK m \in 1..Len(networks) : m = Middle
  BY <1>1, MiddleIsNumbered
<1>3. PICK first \in Nat, size \in Nat \ {0}, start \in Nat :
        first = index[m] /\ size = networks[m].size /\ start = networks[m].start
  BY <1>1, <1>2, MiddleIsNumbered, Networks DEF TypeOK
<1>4. i \in Nat /\ first <= i /\ i < first + size
  BY <1>1, <1>2, <1>3, MiddleIsNumbered DEF Found, Before, After
<1>5. i \in first .. first + size - 1
  BY <1>4
<1>a. start + (i - first) \in start .. start + size - 1
  BY <1>4
<1>6. i \in Span(m) /\ AddressIn(m) \in Extent(networks[m])
  BY <1>3, <1>5, <1>a DEF Span, AddressIn, Extent
<1>7. i \in 1..total
  BY <1>1 DEF TypeOK, CycleOfNumbers, Searching
<1>8. m \in DOMAIN index
  BY <1>1, <1>2, MiddleIsNumbered, Indices
<1>9. AddressIn(m) \in Nat
  BY <1>3, <1>4 DEF AddressIn
<1> QED
  BY <1>2, <1>6, <1>7, <1>8, <1>9 DEF AddressIn

LEMMA FoundKeepsIInv == IInv /\ Found => IInv'
<1> SUFFICES ASSUME IInv, Found
             PROVE  IInv'
  OBVIOUS
<1>0. TypeOK /\ Numbering /\ CycleOfNumbers /\ phase = "search"
  BY DEF IInv, Found, Searching
<1>1. PICK m \in DOMAIN index :
        /\ m = Middle
        /\ i \in Span(m)
        /\ i \in 1..total
        /\ AddressIn(m) \in Nat
        /\ AddressIn(m) = networks[m].start + (i - index[m])
  BY FoundInMiddle
<1>2. /\ networks' = networks /\ index' = index /\ total' = total
      /\ phase' = "idle" /\ i' = i /\ lo' = lo /\ hi' = hi
  BY DEF Found, sliceVars
<1>3. Numbering' /\ SliceSpansNumber'
  BY <1>0, <1>2 DEF Numbering, Span, SliceSpansNumber
<1>4. CASE left = {}
  <2>1. left' = 1..total /\ handed' = {}
    BY <1>4 DEF Found, Numbers
  <2> QED
    BY <1>0, <1>2, <1>3, <2>1 DEF IInv, TypeOK, CycleOfNumbers
<1>5. CASE left # {}
  <2>1. left' = left /\ handed' = handed \cup {<<i, AddressIn(m)>>}
    BY <1>1, <1>5 DEF Found
  <2>2. TypeOK'
    BY <1>0, <1>1, <1>2, <2>1 DEF TypeOK
  <2>3. {h[1] : h \in handed'} = {h[1] : h \in handed} \cup {i}
    <3>0. PICK x : x = <<i, AddressIn(m)>>
      OBVIOUS
    <3>1. x[1] = i
      BY <3>0
    <3>2. handed' = handed \cup {x}
      BY <2>1, <3>0
    <3>3. {h[1] : h \in handed \cup {x}} = {h[1] : h \in handed} \cup {x[1]}
      OBVIOUS
    <3> QED
      BY <3>1, <3>2, <3>3
  <2>4. 1..total = left' \cup {h[1] : h \in handed'}
    BY <1>0, <2>1, <2>3 DEF CycleOfNumbers
  <2>5. \A h \in handed' : /\ h[1] \notin left
                           /\ \E k \in DOMAIN index :
                                 /\ h[1] \in Span(k)
                                 /\ h[2] = networks[k].start + (h[1] - index[k])
    BY <1>0, <1>1, <2>1 DEF CycleOfNumbers
  <2>6. CycleOfNumbers'
    BY <1>0, <1>2, <2>1, <2>4, <2>5 DEF CycleOfNumbers, Span
  <2> QED
    BY <1>3, <2>2, <2>6 DEF IInv
<1> QED
  BY <1>4, <1>5

LEMMA NextIInv == IInv /\ [Next]_vars => IInv'
<1>1. IInv /\ UNCHANGED vars => IInv'
  <2> SUFFICES ASSUME IInv, UNCHANGED vars
               PROVE  IInv'
    OBVIOUS
  <2> USE DEF IInv, vars, sliceVars
  <2>1. TypeOK'
    BY DEF TypeOK
  <2>2. Numbering'
    BY DEF Numbering, Span
  <2>3. CycleOfNumbers'
    BY DEF CycleOfNumbers, Span
  <2>4. SliceSpansNumber'
    BY DEF SliceSpansNumber
  <2> QED
    BY <2>1, <2>2, <2>3, <2>4
<1> QED
  BY <1>1, NumberBlockKeepsIInv, StartCycleKeepsIInv, GetNextIpKeepsIInv,
     SearchLeftKeepsIInv, SearchRightKeepsIInv, FoundKeepsIInv DEF Next

\* The invariant holds of every reachable state.
THEOREM Invariance == Spec => []IInv
  BY InitIInv, NextIInv, PTL DEF Spec

\* Every variable has its type; the number looked for is one of the scope's.
THEOREM TypeCorrect == Spec => []TypeOK
  BY Invariance, PTL DEF IInv

\* binarysearch is never called with a slice that does not span its number,
\* whatever the blocks: networks[middle] is in the list.
THEOREM BisectionStaysInList == Spec => []SliceSpansNumber
  BY Invariance, PTL DEF IInv
-----------------------------------------------------------------------------
(* The refinement *)

HandedAddresses == {h[2] : h \in handed}

\* Blocks with a number in common are one.
LEMMA SpansApart ==
  ASSUME Numbering, NEW k \in DOMAIN index, NEW m \in DOMAIN index,
         NEW n, n \in Span(k), n \in Span(m)
  PROVE  k = m
  BY DEF Numbering

\* An address has a number, and a number an address.
LEMMA AddressHasNumber ==
  ASSUME TypeOK, Len(index) = Len(networks), Numbering, NEW a \in Addresses
  PROVE  \E k \in DOMAIN index, n \in 1..total :
            n \in Span(k) /\ a = networks[k].start + (n - index[k])
<1>1. PICK k \in 1..Len(networks) : a \in Extent(networks[k])
  BY Networks DEF Addresses, TypeOK
<1>2. k \in DOMAIN index
  BY Indices
<1>3. PICK first \in Nat, size \in Nat \ {0}, start \in Nat :
        first = index[k] /\ size = networks[k].size /\ start = networks[k].start
  BY <1>1, <1>2, Networks, Indices DEF TypeOK
<1> DEFINE n == first + (a - start)
<1>4. a \in start .. start + size - 1
  BY <1>1, <1>3 DEF Extent
<1>5. n \in first .. first + size - 1 /\ a = start + (n - first)
  BY <1>4
<1>6. n \in Span(k)
  BY <1>3, <1>5 DEF Span
<1>7. n \in 1..total
  BY <1>2, <1>6 DEF Numbering
<1> QED
  BY <1>2, <1>3, <1>5, <1>6, <1>7

LEMMA NumberHasAddress ==
  ASSUME TypeOK, Len(index) = Len(networks), Numbering, NEW k \in DOMAIN index,
         NEW n, n \in Span(k)
  PROVE  /\ networks[k].start + (n - index[k]) \in Extent(networks[k])
         /\ networks[k].start + (n - index[k]) \in Addresses
<1>1. k \in 1..Len(networks) /\ k \in DOMAIN networks
  BY Indices, Networks DEF TypeOK
<1>2. PICK first \in Nat, size \in Nat \ {0}, start \in Nat :
        first = index[k] /\ size = networks[k].size /\ start = networks[k].start
  BY <1>1, Networks, Indices DEF TypeOK
<1>3. n \in first .. first + size - 1
  BY <1>2 DEF Span
<1>4. start + (n - first) \in start .. start + size - 1
  BY <1>3
<1>5. networks[k].start + (n - index[k]) \in Extent(networks[k])
  BY <1>2, <1>4 DEF Extent
<1> QED
  BY <1>1, <1>5 DEF Addresses

\* Different numbers have different addresses.
LEMMA NumbersDiffer ==
  ASSUME TypeOK, Len(index) = Len(networks), Numbering,
         NEW k \in DOMAIN index, NEW n, n \in Span(k),
         NEW m \in DOMAIN index, NEW p, p \in Span(m),
         networks[k].start + (n - index[k]) = networks[m].start + (p - index[m])
  PROVE  n = p
<1>1. k \in 1..Len(networks) /\ m \in 1..Len(networks)
  BY Indices
<1>2. k = m
  BY <1>1, NumberHasAddress, AddressesApart DEF TypeOK
<1>3. PICK first \in Nat, size \in Nat \ {0}, start \in Nat :
        first = index[k] /\ size = networks[k].size /\ start = networks[k].start
  BY <1>1, Networks, Indices DEF TypeOK
<1>4. n \in Int /\ p \in Int
  BY <1>2, <1>3 DEF Span
<1> QED
  BY <1>2, <1>3, <1>4

\* What a search finds is an address that was not handed out in this cycle;
\* it is the last one exactly if no number is left.
LEMMA FoundIsHandOut ==
  ASSUME IInv, Found
  PROVE  \E a \in Addresses \ HandedAddresses :
            /\ left = {} => /\ Addresses \ HandedAddresses = {a}
                            /\ HandedAddresses' = {}
            /\ left # {} => /\ Addresses \ HandedAddresses # {a}
                            /\ HandedAddresses' = HandedAddresses \cup {a}
<1>0. /\ TypeOK /\ Numbering /\ CycleOfNumbers /\ phase = "search"
      /\ Len(index) = Len(networks)
  BY DEF IInv, Found, Searching, CycleOfNumbers
<1>1. PICK m \in DOMAIN index :
        /\ m = Middle
        /\ i \in Span(m)
        /\ i \in 1..total
        /\ AddressIn(m) = networks[m].start + (i - index[m])
  BY FoundInMiddle
<1>2. PICK a : a = AddressIn(m)
  OBVIOUS
<1>3. \A h \in handed : \E k \in DOMAIN index :
        /\ h[1] \in Span(k)
        /\ h[2] = networks[k].start + (h[1] - index[k])
        /\ h[1] # i
        /\ h[1] \notin left
  BY <1>0 DEF CycleOfNumbers
<1>4. a \in Addresses \ HandedAddresses
  <2>1. a \in Addresses
    BY <1>0, <1>1, <1>2, NumberHasAddress
  <2>2. ASSUME NEW h \in handed, h[2] = a
        PROVE  FALSE
    BY <1>0, <1>1, <1>2, <1>3, <2>2, NumbersDiffer
  <2> QED
    BY <2>1, <2>2 DEF HandedAddresses
<1>5. 1..total = left \cup {h[1] : h \in handed} \cup {i}
  BY <1>0 DEF CycleOfNumbers
<1>6. ASSUME left = {}
      PROVE  Addresses \ HandedAddresses = {a} /\ HandedAddresses' = {}
  <2>1. HandedAddresses' = {}
    BY <1>6 DEF Found, HandedAddresses
  <2>2. ASSUME NEW b \in Addresses, b # a
        PROVE  b \in HandedAddresses
    <3>1. PICK k \in DOMAIN index, n \in 1..total :
            n \in Span(k) /\ b = networks[k].start + (n - index[k])
      BY <1>0, AddressHasNumber
    <3>2. n # i
      BY <1>0, <1>1, <1>2, <2>2, <3>1, SpansApart
    <3>3. PICK h \in handed : h[1] = n
      BY <1>5, <1>6, <3>2
    <3>4. h[2] = b
      BY <1>0, <1>3, <3>1, <3>3, SpansApart
    <3> QED
      BY <3>4 DEF HandedAddresses
  <2> QED
    BY <1>4, <2>1, <2>2
<1>7. ASSUME left # {}
      PROVE  /\ Addresses \ HandedAddresses # {a}
             /\ HandedAddresses' = HandedAddresses \cup {a}
  <2>1. handed' = handed \cup {<<i, a>>}
    BY <1>1, <1>2, <1>7 DEF Found
  <2>2. PICK n \in left : n \in 1..total /\ n # i
    BY <1>0, <1>7 DEF TypeOK, CycleOfNumbers
  <2>3. PICK k \in DOMAIN index : n \in Span(k)
    BY <1>0, <2>2 DEF Numbering
  <2>4. PICK b \in Addresses : b = networks[k].start + (n - index[k])
    BY <1>0, <2>3, NumberHasAddress
  <2>5. b # a
    BY <1>0, <1>1, <1>2, <2>2, <2>3, <2>4, NumbersDiffer
  <2>6. ASSUME NEW h \in handed, h[2] = b
        PROVE  FALSE
    BY <1>0, <1>3, <2>2, <2>3, <2>4, <2>6, NumbersDiffer
  <2>7. b \in Addresses \ HandedAddresses
    BY <2>4, <2>6 DEF HandedAddresses
  <2>8. HandedAddresses' = HandedAddresses \cup {a}
    <3>0. PICK x : x = <<i, a>>
      OBVIOUS
    <3>1. x[2] = a
      BY <3>0
    <3>2. handed' = handed \cup {x}
      BY <2>1, <3>0
    <3>3. {h[2] : h \in handed \cup {x}} = {h[2] : h \in handed} \cup {x[2]}
      OBVIOUS
    <3> QED
      BY <3>1, <3>2, <3>3 DEF HandedAddresses
  <2> QED
    BY <2>5, <2>7, <2>8
<1> QED
  BY <1>4, <1>6, <1>7

\* The manager hands out every address of its scope exactly once per cycle:
\* finding the block of a number is the step of AddressCycle, and everything
\* else is invisible.
THEOREM Refinement == Spec => HandsOutCycles
<1>1. Init => Cycle!Init
  BY DEF Init, Cycle!Init
<1>2. IInv /\ [Next]_vars => [Cycle!Next]_<<Addresses, Addresses \ {h[2] : h \in handed}>>
  <2> SUFFICES ASSUME IInv, [Next]_vars
               PROVE  \/ Cycle!Next
                      \/ UNCHANGED <<Addresses, Addresses \ {h[2] : h \in handed}>>
    OBVIOUS
  <2>1. Addresses' = Addresses
    BY DEF Addresses, Next, vars, NumberBlock, StartCycle, GetNextIp, SearchLeft,
           SearchRight, Found
  <2>2. CASE Found
    <3>1. PICK a \in Addresses \ HandedAddresses :
            /\ left = {} => /\ Addresses \ HandedAddresses = {a}
                            /\ HandedAddresses' = {}
            /\ left # {} => /\ Addresses \ HandedAddresses # {a}
                            /\ HandedAddresses' = HandedAddresses \cup {a}
      BY <2>2, FoundIsHandOut
    <3>2. Cycle!HandOut(a)
      BY <2>1, <3>1 DEF Cycle!HandOut, HandedAddresses
    <3> QED
      BY <3>1, <3>2 DEF Cycle!Next, HandedAddresses
  <2>3. CASE ~Found
    <3>1. handed' = handed
      BY <2>3 DEF Next, vars, NumberBlock, StartCycle, GetNextIp, SearchLeft, SearchRight
    <3> QED
      BY <2>1, <3>1
  <2> QED
    BY <2>2, <2>3
<1> QED
  BY <1>1, <1>2, Invariance, PTL DEF Spec, HandsOutCycles, Cycle!Spec
=============================================================================
