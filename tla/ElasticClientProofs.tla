------------------------- MODULE ElasticClientProofs -------------------------
(***************************************************************************)
(* Proofs about ElasticClient, for every interval, length of a day and     *)
(* number of restarts.                                                     *)
(***************************************************************************)
EXTENDS ElasticClient, TLAPS

(* The inductive invariant: start-up passes the first index only with a    *)
(* version and with the mapping of that index, which no later step and no  *)
(* restart takes back.                                                     *)
Progress == /\ stage = "history" => versioned /\ "latest" \in mapped
            /\ stage = "info" => ~versioned

IInv == TypeOK /\ Progress /\ ServingIsInitialized
-----------------------------------------------------------------------------
\* The age of an attempt stays below a day.
LEMMA AgeWraps == since \in 0..Day-1 => Aged \in 0..Day-1 /\ 0 \in 0..Day-1
<1> SUFFICES ASSUME since \in 0..Day-1
             PROVE  Aged \in 0..Day-1 /\ 0 \in 0..Day-1
  OBVIOUS
<1>1. Day \in Nat \ {0} /\ since + 1 \in Nat
  BY TimeAssumption
<1>2. \A n \in Nat, d \in Nat \ {0} : n % d \in 0..d-1
  OBVIOUS
<1> QED
  BY <1>1, <1>2 DEF Aged

LEMMA InitIInv == Init => IInv
<1> SUFFICES ASSUME Init
             PROVE  IInv
  OBVIOUS
<1>1. 0 \in 0..Day-1 /\ 0 \in 0..MaxStops
  BY TimeAssumption
<1> QED
  BY <1>1 DEF Init, IInv, TypeOK, Progress, ServingIsInitialized

\* What start-up has reached is only lost when the server stops.
LEMMA StartupKeepsIInv == IInv /\ Startup => IInv'
<1> SUFFICES ASSUME IInv, Startup
             PROVE  IInv'
  OBVIOUS
<1> USE DEF IInv, TypeOK, Progress, ServingIsInitialized, clientVars, Index
<1>1. CASE Start
  BY <1>1, AgeWraps DEF Start, AfterPing
<1>2. CASE ReadVersion
  BY <1>2 DEF ReadVersion
<1>3. CASE CreateIndex
  BY <1>3 DEF CreateIndex
<1>4. CASE PutMapping
  <2>1. CASE stage = "latest"
    BY <1>4, <2>1 DEF PutMapping, KnowsVersion
  <2>2. CASE stage = "history"
    BY <1>4, <2>2 DEF PutMapping, KnowsVersion
  <2> QED
    BY <1>4, <2>1, <2>2 DEF PutMapping
<1>5. CASE InitializeFails
  BY <1>5 DEF InitializeFails
<1> QED
  BY <1>1, <1>2, <1>3, <1>4, <1>5 DEF Startup

LEMMA NextIInv == IInv /\ [Next]_vars => IInv'
<1> SUFFICES ASSUME IInv, [Next]_vars
             PROVE  IInv'
  OBVIOUS
<1> USE DEF IInv, TypeOK, Progress, ServingIsInitialized, clientVars
<1>1. CASE Startup
  BY <1>1, StartupKeepsIInv
<1>2. CASE Query
  BY <1>2 DEF Query
<1>3. CASE RefuseQuery
  BY <1>3 DEF RefuseQuery, SinceRefusal
<1>4. CASE RetryConnection
  BY <1>4, AgeWraps DEF RetryConnection
<1>5. CASE Tick
  BY <1>5, AgeWraps DEF Tick
<1>6. CASE Flip
  BY <1>6 DEF Flip
<1>7. CASE Stop
  BY <1>7, TimeAssumption DEF Stop
<1>8. CASE UNCHANGED vars
  BY <1>8 DEF vars
<1> QED
  BY <1>1, <1>2, <1>3, <1>4, <1>5, <1>6, <1>7, <1>8 DEF Next

\* The invariant holds of every reachable state.
THEOREM Invariance == Spec => []IInv
  BY InitIInv, NextIInv, PTL DEF Spec

\* Every variable has its type: an index has its mapping only if it exists,
\* and the age of an attempt is less than a day.
THEOREM TypeCorrect == Spec => []TypeOK
  BY Invariance, PTL DEF IInv

\* However Elasticsearch comes and goes, during this start-up and earlier
\* ones, a server that answers requests knows the version and has both indices.
THEOREM ServerIsInitialized == Spec => []ServingIsInitialized
  BY Invariance, PTL DEF IInv
=============================================================================
