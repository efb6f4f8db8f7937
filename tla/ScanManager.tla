----------------------------- MODULE ScanManager -----------------------------
(***************************************************************************)
(* IPScanManager: it numbers the addresses of the scope from 1, block by   *)
(* block, asks CyclicPRNG for one number after the other, and finds the    *)
(* block a number falls into by bisecting the list of blocks.  The two     *)
(* loops that add up the sizes and number the blocks are one here.         *)
(***************************************************************************)
EXTENDS Integers, Sequences

CONSTANT Scopes  \* lists of blocks, as iter_cidrs and the sort leave them

Block == [start : Nat, size : Nat \ {0}]
Extent(b) == b.start .. b.start + b.size - 1

\* The blocks of an IPSet do not overlap, and an empty one is refused.
ASSUME ScopesAssumption ==
  \A s \in Scopes : /\ s \in Seq(Block)
                    /\ s # <<>>
                    /\ \A a, b \in DOMAIN s : a # b => Extent(s[a]) \cap Extent(s[b]) = {}

VARIABLES networks,  \* self.networks, without the index of each block
          index,     \* that index, of the blocks numbered so far
          total,     \* the addresses of these
          phase,     \* "number", "idle", "search"
          i,         \* the number get_ip looks for
          lo, hi,    \* the slice binarysearch was called with: lo .. hi - 1
          left,      \* numbers CyclicPRNG has not returned in this cycle
          handed     \* number and address of those returned in it (history)

sliceVars == <<lo, hi>>
vars == <<networks, index, total, phase, i, sliceVars, left, handed>>

Init == /\ networks \in Scopes
        /\ index = <<>>
        /\ total = 0
        /\ phase = "number"
        /\ i = 0
        /\ lo = 1
        /\ hi = 1
        /\ left = {}
        /\ handed = {}
-----------------------------------------------------------------------------
(* initialize_manager *)

\* Mutant: numbers from 0.
FirstNumber_zero == total

FirstNumber == total + 1

NumberBlock == /\ phase = "number"
               /\ Len(index) < Len(networks)
               /\ index' = Append(index, FirstNumber)
               /\ total' = total + networks[Len(index) + 1].size
               /\ UNCHANGED <<networks, phase, i, sliceVars, left, handed>>

\* Mutant: the PRNG starts at 0.
Numbers_zero == 0..total

\* CyclicPRNG(total) returns these in some order, once per cycle.
Numbers == 1..total

StartCycle == /\ phase = "number"
              /\ Len(index) = Len(networks)
              /\ left' = Numbers
              /\ phase' = "idle"
              /\ UNCHANGED <<networks, index, total, i, sliceVars, handed>>
-----------------------------------------------------------------------------
(* get_next_ip and get_ip *)

GetNextIp(n) == /\ phase = "idle"
                /\ n \in left
                /\ left' = left \ {n}
                /\ i' = n
                /\ lo' = 1
                /\ hi' = Len(networks) + 1
                /\ phase' = "search"
                /\ UNCHANGED <<networks, index, total, handed>>

\* int(len(networks) / 2), in the whole list.
Middle == lo + (hi - lo) \div 2

\* Mutants: a comparison is off by one.
Before_equal(m) == i <= index[m]
After_strict(m) == i > index[m] + networks[m].size

Before(m) == i < index[m]
After(m) == i >= index[m] + networks[m].size

\* Mutant: the left half keeps its middle.
LeftOf_middle(m) == m + 1

\* The slices are [:middle] and [middle + 1:].
LeftOf(m) == m
RightOf(m) == m + 1

Searching == phase = "search" /\ lo < hi

SearchLeft == /\ Searching
              /\ Before(Middle)
              /\ hi' = LeftOf(Middle)
              /\ UNCHANGED <<networks, index, total, phase, i, lo, left, handed>>

SearchRight == /\ Searching
               /\ ~Before(Middle)
               /\ After(Middle)
               /\ lo' = RightOf(Middle)
               /\ UNCHANGED <<networks, index, total, phase, i, hi, left, handed>>

AddressIn(m) == networks[m].start + (i - index[m])

\* The address is handed out; after the last one the cycle starts again.
Found == /\ Searching
         /\ ~Before(Middle)
         /\ ~After(Middle)
         /\ IF left = {}
            THEN left' = Numbers /\ handed' = {}
            ELSE left' = left /\ handed' = handed \cup {<<i, AddressIn(Middle)>>}
         /\ phase' = "idle"
         /\ UNCHANGED <<networks, index, total, i, sliceVars>>

Next == \/ NumberBlock
        \/ StartCycle
        \/ \E n \in left : GetNextIp(n)
        \/ SearchLeft
        \/ SearchRight
        \/ Found

Spec == Init /\ [][Next]_vars

\* The calls get_ip makes do not stop half way.
FairSpec == Spec /\ WF_vars(SearchLeft \/ SearchRight \/ Found)
-----------------------------------------------------------------------------
(* Properties *)

TypeOK == /\ networks \in Scopes
          /\ index \in Seq(Nat)
          /\ Len(index) <= Len(networks)
          /\ total \in Nat
          /\ phase \in {"number", "idle", "search"}
          /\ i \in 0..total
          /\ lo \in 1..Len(networks) + 1
          /\ hi \in 1..Len(networks) + 1
          /\ left \subseteq 1..total
          /\ handed \subseteq (1..total) \X Nat

\* The slice a call of binarysearch gets is not empty and spans the number:
\* networks[middle] never raises IndexError.
SliceSpansNumber ==
  phase = "search" => /\ lo < hi
                      /\ index[lo] <= i
                      /\ i < index[hi - 1] + networks[hi - 1].size

\* Bisecting the numbered blocks hands out every address of the scope exactly
\* once per cycle, and nothing else.
Addresses == UNION {Extent(networks[m]) : m \in DOMAIN networks}
Cycle == INSTANCE AddressCycle WITH addrs <- Addresses,
                                    left <- Addresses \ {h[2] : h \in handed}
HandsOutCycles == Cycle!Spec

\* get_ip returns.
SearchEnds == phase = "search" ~> phase = "idle"
=============================================================================
