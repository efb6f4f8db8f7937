--------------------------- MODULE ScanStoreProofs ---------------------------
(***************************************************************************)
(* Proofs about ScanStore, for every set of scans, hosts and faults and    *)
(* any number of documents.                                                *)
(***************************************************************************)
EXTENDS ScanStore, FiniteSetTheorems, TLAPS

\* The documents of a host.
Hist(ip) == {d \in history : d.ip = ip}

\* What LatestIsNewest says of one host.
Newest(ip) == IF Hist(ip) = {} THEN latest[ip] = None ELSE latest[ip] \in LatestOf(Hist(ip))

\* The host the operation is about to give a new latest document.
Pending(ip) == \/ op.kind = "submit" /\ ip = op.doc.ip
               \/ op.kind = "migrate" /\ ip = IpOf[op.scan]

(* The part of the inductive invariant that no fault disturbs: stamps only *)
(* grow, a document is of the host its scan was made of, and a submission  *)
(* indexes in latest what is in history already.                           *)
Stamps == /\ IsFiniteSet(history)
          /\ IsFiniteSet(seenHistory)
          /\ \A d \in history : d.ctime <= ctime /\ d.ip = IpOf[d.scan]
          /\ \A d, e \in history : d.ctime = e.ctime => d = e
          /\ op.kind = "submit" => op.doc \in history /\ op.doc.ctime = ctime

(* The part that holds without faults.  It follows an operation through    *)
(* its requests: what it found is still there when it deletes, and what it *)
(* migrates is the newest document that remains.                           *)
OneDocument == \A d, e \in history : d.scan = e.scan => d = e

LatestFits == \A ip \in Ip : /\ ~Pending(ip) => Newest(ip)
                             /\ latest[ip] # None => latest[ip] \in Hist(ip)

SearchesFit ==
  /\ op.kind \in {"collect", "purge"} => seenHistory = history /\ seenLatest = latest
  /\ op.kind = "collect" => op.next = None /\ SingleHost(op.scan) # {}
  /\ op.kind = "purge" => /\ SingleHost(op.scan) = {} => op.next = None
                          /\ SingleHost(op.scan) # {} =>
                               op.next \in NextOldest(Hist(IpOf[op.scan]))

MigrationFits ==
  op.kind = "migrate" => /\ op.next \in LatestOf(Hist(IpOf[op.scan]))
                         /\ \A d \in history : d.scan # op.scan
                         /\ latest[IpOf[op.scan]] = None
                         /\ Successful(op.deleted)

Outcomes == denied = {} /\ \A s \in gone : \A d \in history : d.scan # s

FaultFree == OneDocument /\ LatestFits /\ SearchesFit /\ MigrationFits /\ Outcomes

IInv == TypeOK /\ Stamps /\ AcceptedScanIsKept /\ (faults = {} => FaultFree)

\* The part of IInv that holds with every fault.
Base == TypeOK /\ Stamps /\ AcceptedScanIsKept
-----------------------------------------------------------------------------
(* The operators *)

\* What the operation in progress carries.
LEMMA OpTypes ==
  ASSUME TypeOK
  PROVE  /\ op.kind \in {"none", "submit", "collect", "purge", "migrate"}
         /\ op.kind = "none" <=> op = NoOp
         /\ op.kind = "submit" => op.doc \in Doc
         /\ op.kind \in {"collect", "purge"} => op.scan \in Scan /\ op.next \in Doc \cup {None}
         /\ op.kind = "migrate" => op.scan \in Scan /\ op.next \in Doc /\ op.deleted \in Nat
  BY DEF TypeOK, NoOp

\* The newest documents of a set are some of it.
LEMMA LatestOfIsSubset ==
  ASSUME NEW docs
  PROVE  LatestOf(docs) \subseteq docs
  BY DEF LatestOf

\* What delete_scan migrates is one of the host's documents, if it is anything.
LEMMA NextOldestIsDoc ==
  ASSUME NEW docs, NEW d \in NextOldest(docs)
  PROVE  d = None \/ d \in docs
  BY DEF NextOldest, LatestOf

\* A deletion removes documents it asked for, and no others.
LEMMA DeleteOnly ==
  ASSUME TypeOK, NEW docs, Delete(docs)
  PROVE  /\ history' \subseteq history
         /\ \A d \in history \ history' : d \in docs
         /\ latest' \in [Ip -> Doc \cup {None}]
         /\ \A ip \in Ip : latest'[ip] \in {latest[ip], None}
  BY DEF TypeOK, Delete, Found

\* The count of deleted documents is a number.
LEMMA DeletedIsNat ==
  ASSUME Stamps, NEW docs
  PROVE  /\ IsFiniteSet(Found(docs).history)
         /\ IsFiniteSet(Found(docs).latest)
         /\ Deleted(docs) \in Nat
<1>1. /\ Found(docs).history = docs \cap seenHistory
      /\ Found(docs).latest \in SUBSET Ip
  BY DEF Found
<1>2. IsFiniteSet(Found(docs).history)
  <2>1. IsFiniteSet(seenHistory) /\ docs \cap seenHistory \subseteq seenHistory
    BY DEF Stamps
  <2> QED
    BY <1>1, <2>1, FS_Subset
<1>3. IsFiniteSet(Found(docs).latest)
  BY <1>1, FS_Subset, StoreAssumption
<1> QED
  BY <1>2, <1>3, FS_CardinalityType DEF Deleted
-----------------------------------------------------------------------------
(* What holds with every fault *)

LEMMA InitBase == Init => Base
<1> SUFFICES ASSUME Init
             PROVE  Base
  OBVIOUS
<1>1. 0 \in 0..MaxDocs /\ IsFiniteSet({})
  BY StoreAssumption, FS_EmptySet
<1>2. op = NoOp /\ op.kind = "none"
  BY DEF Init, NoOp
<1> QED
  BY <1>1, <1>2 DEF Init, Base, TypeOK, Stamps, AcceptedScanIsKept

LEMMA IndexHistoryKeepsBase ==
  ASSUME Base, NEW s \in Scan, IndexHistory(s)
  PROVE  Base'
<1>0. TypeOK /\ Stamps /\ AcceptedScanIsKept
  BY DEF Base
<1>1. ctime \in Nat /\ ctime + 1 \in 1..MaxDocs /\ IpOf[s] \in Ip
  BY <1>0, StoreAssumption DEF TypeOK, IndexHistory
<1>doc. PICK doc : doc = [scan |-> s, ip |-> IpOf[s], ctime |-> ctime + 1]
  OBVIOUS
<1>2. doc \in Doc /\ doc.scan = s /\ doc.ip = IpOf[s] /\ doc.ctime = ctime + 1
  BY <1>1, <1>doc DEF Doc
<1>3. /\ history' = history \cup {doc}
      /\ op' = [kind |-> "submit", doc |-> doc]
      /\ ctime' = ctime + 1
      /\ gone' = gone \ {s}
      /\ UNCHANGED <<faults, latest, seenHistory, seenLatest, denied, kept>>
  BY <1>doc DEF IndexHistory, seenVars
<1>4. TypeOK'
  BY <1>0, <1>1, <1>2, <1>3 DEF TypeOK
<1>5. Stamps'
  <2>1. IsFiniteSet(history') /\ IsFiniteSet(seenHistory')
    BY <1>0, <1>3, FS_AddElement DEF Stamps
  <2>2. \A d \in history : d.ctime \in Nat /\ d.ctime < ctime + 1
    BY <1>0, <1>1 DEF Stamps, TypeOK, Doc
  <2>3. \A d \in history' : d.ctime <= ctime' /\ d.ip = IpOf[d.scan]
    BY <1>0, <1>1, <1>2, <1>3, <2>2 DEF Stamps
  <2>4. \A d, e \in history' : d.ctime = e.ctime => d = e
    BY <1>0, <1>2, <1>3, <2>2 DEF Stamps
  <2>5. op'.doc = doc
    BY <1>3
  <2> QED
    BY <1>2, <1>3, <2>1, <2>3, <2>4, <2>5 DEF Stamps
<1>6. AcceptedScanIsKept'
  BY <1>0, <1>3 DEF AcceptedScanIsKept
<1> QED
  BY <1>4, <1>5, <1>6 DEF Base

\* A deletion of documents of scans that are no longer kept leaves the rest.
LEMMA DeleteKeepsBase ==
  ASSUME Base, NEW docs, Delete(docs), kept' \subseteq kept,
         \A s \in kept' : \A d \in docs \cap history : d.scan # s,
         UNCHANGED <<seenHistory, ctime>>, op'.kind # "submit"
  PROVE  Stamps' /\ AcceptedScanIsKept'
<1>0. TypeOK /\ Stamps /\ AcceptedScanIsKept
  BY DEF Base
<1>1. history' \in SUBSET history /\ \A d \in history \ history' : d \in docs
  BY <1>0, DeleteOnly
<1>2. IsFiniteSet(history')
  BY <1>0, <1>1, FS_Subset DEF Stamps
<1>3. Stamps'
  BY <1>0, <1>1, <1>2 DEF Stamps
<1>4. AcceptedScanIsKept'
  BY <1>0, <1>1 DEF AcceptedScanIsKept
<1> QED
  BY <1>3, <1>4

LEMMA PurgeScanKeepsBase ==
  ASSUME Base, PurgeScan
  PROVE  Base'
<1>0. TypeOK /\ Stamps /\ AcceptedScanIsKept
  BY DEF Base
<1> DEFINE docs == DocsOf(op.scan)
<1>1. op.scan \in Scan /\ op.next \in Doc \cup {None} /\ Deleted(docs) \in Nat
  BY <1>0, OpTypes, DeletedIsNat DEF PurgeScan
<1>2. /\ op' \in {NoOp} \cup [kind : {"migrate"}, scan : Scan, next : Doc, deleted : Nat]
      /\ op'.kind # "submit"
      /\ denied' \subseteq Scan
      /\ gone' \subseteq Scan
  <2>1. CASE Conflicts(docs)
    BY <1>0, <2>1 DEF PurgeScan, TypeOK, NoOp
  <2>2. CASE ~Conflicts(docs) /\ Migrates
    <3>1. op' = [kind |-> "migrate", scan |-> op.scan, next |-> op.next,
                 deleted |-> Deleted(docs)]
      BY <2>2 DEF PurgeScan
    <3>2. op.next \in Doc
      BY <1>1, <2>2 DEF Migrates
    <3> QED
      BY <1>0, <1>1, <2>2, <3>1, <3>2 DEF PurgeScan, TypeOK
  <2>3. CASE ~Conflicts(docs) /\ ~Migrates
    BY <1>0, <1>1, <2>3 DEF PurgeScan, Answer, TypeOK, NoOp
  <2> QED
    BY <2>1, <2>2, <2>3
<1>3. Delete(docs) /\ kept' = kept \ {op.scan} /\ UNCHANGED <<faults, seenHistory, seenLatest, ctime>>
  BY DEF PurgeScan, seenVars
<1>4. \A d \in docs : d.scan = op.scan
  BY DEF DocsOf
<1> HIDE DEF docs
<1>5. Stamps' /\ AcceptedScanIsKept'
  BY <1>2, <1>3, <1>4, DeleteKeepsBase
<1>6. history' \subseteq history /\ latest' \in [Ip -> Doc \cup {None}]
  BY <1>0, <1>3, DeleteOnly
<1>7. TypeOK'
  BY <1>0, <1>2, <1>3, <1>6 DEF TypeOK
<1> QED
  BY <1>5, <1>7 DEF Base

LEMMA DeleteHostKeepsBase ==
  ASSUME Base, NEW ip \in Ip, DeleteHost(ip)
  PROVE  Base'
<1>0. TypeOK /\ Stamps /\ AcceptedScanIsKept
  BY DEF Base
<1> DEFINE docs == DocsOfHost(ip)
<1>1. /\ Delete(docs)
      /\ kept' = {s \in kept : IpOf[s] # ip}
      /\ op = NoOp
      /\ UNCHANGED <<faults, seenHistory, seenLatest, ctime, op, denied, gone>>
  BY DEF DeleteHost, seenVars, Ready
<1>2. \A d \in docs \cap history : IpOf[d.scan] = ip
  BY <1>0 DEF DocsOfHost, Stamps
<1> HIDE DEF docs
<1>3. op'.kind # "submit"
  BY <1>1 DEF NoOp
<1>4. Stamps' /\ AcceptedScanIsKept'
  BY <1>1, <1>2, <1>3, DeleteKeepsBase
<1>5. history' \subseteq history /\ latest' \in [Ip -> Doc \cup {None}]
  BY <1>0, <1>1, DeleteOnly
<1>6. TypeOK'
  BY <1>0, <1>1, <1>5 DEF TypeOK
<1> QED
  BY <1>4, <1>6 DEF Base

LEMMA NextBase == Base /\ [Next]_vars => Base'
<1> SUFFICES ASSUME Base, [Next]_vars
             PROVE  Base'
  OBVIOUS
<1>0. TypeOK /\ Stamps /\ AcceptedScanIsKept
  BY DEF Base
<1> USE DEF indexVars, seenVars
<1>1. ASSUME NEW s \in Scan, IndexHistory(s)
      PROVE  Base'
  BY <1>1, IndexHistoryKeepsBase
<1>2. CASE IndexLatest
  <2>1. op.doc \in Doc /\ op.doc \in history /\ op.doc.ip \in Ip /\ op.doc.scan \in Scan
    BY <1>0, <1>2, OpTypes DEF IndexLatest, Stamps, Doc
  <2>2. op' = NoOp /\ op'.kind # "submit"
    BY <1>2 DEF IndexLatest, NoOp
  <2>3. TypeOK'
    BY <1>0, <1>2, <2>1, <2>2 DEF IndexLatest, TypeOK
  <2>4. Stamps'
    BY <1>0, <1>2, <2>2 DEF IndexLatest, Stamps
  <2>5. AcceptedScanIsKept'
    BY <1>0, <1>2, <2>1 DEF IndexLatest, AcceptedScanIsKept
  <2> QED
    BY <2>3, <2>4, <2>5 DEF Base
<1>3. ASSUME NEW s \in Scan, SearchLatest(s)
      PROVE  Base'
  <2>1. op' \in [kind : {"collect", "purge"}, scan : Scan, next : Doc \cup {None}]
    BY <1>3 DEF SearchLatest
  <2> QED
    BY <1>0, <1>3, <2>1 DEF SearchLatest, Base, TypeOK, Stamps, AcceptedScanIsKept
<1>4. CASE SearchHistory
  <2>1. PICK d \in NextOldest(Collection(IpOf[op.scan])) :
          op' = [op EXCEPT !.kind = "purge", !.next = d]
    BY <1>4 DEF SearchHistory
  <2>2. d \in Doc \cup {None}
    BY <1>0, NextOldestIsDoc DEF Collection, TypeOK
  <2>3. op \in [kind : {"collect", "purge"}, scan : Scan, next : Doc \cup {None}]
    BY <1>0, <1>4 DEF SearchHistory, TypeOK, NoOp
  <2>4. /\ op' \in [kind : {"collect", "purge"}, scan : Scan, next : Doc \cup {None}]
        /\ op'.kind = "purge"
    BY <2>1, <2>2, <2>3
  <2> QED
    BY <1>0, <1>4, <2>4 DEF SearchHistory, Base, TypeOK, Stamps, AcceptedScanIsKept
<1>5. CASE PurgeScan
  BY <1>5, PurgeScanKeepsBase
<1>6. CASE Migrate
  <2>1. op.next \in Doc /\ op.scan \in Scan /\ IpOf[op.scan] \in Ip
    BY <1>0, <1>6, OpTypes, StoreAssumption DEF Migrate
  <2>2. op' = NoOp /\ op'.kind # "submit"
    BY <1>6 DEF Migrate, Answer, NoOp
  <2>3. TypeOK'
    BY <1>0, <1>6, <2>1, <2>2 DEF Migrate, Answer, TypeOK
  <2> QED
    BY <1>0, <1>6, <2>2, <2>3 DEF Migrate, Base, Stamps, AcceptedScanIsKept
<1>7. ASSUME NEW ip \in Ip, DeleteHost(ip)
      PROVE  Base'
  BY <1>7, DeleteHostKeepsBase
<1>8. CASE RefreshHistory
  BY <1>0, <1>8 DEF RefreshHistory, Base, TypeOK, Stamps, AcceptedScanIsKept
<1>9. CASE RefreshLatest
  BY <1>0, <1>9 DEF RefreshLatest, Base, TypeOK, Stamps, AcceptedScanIsKept
<1>10. CASE RequestFails
  BY <1>0, <1>10 DEF RequestFails, Base, TypeOK, Stamps, AcceptedScanIsKept, NoOp
<1>11. CASE UNCHANGED vars
  BY <1>0, <1>11 DEF vars, Base, TypeOK, Stamps, AcceptedScanIsKept
<1> QED
  BY <1>1, <1>2, <1>3, <1>4, <1>5, <1>6, <1>7, <1>8, <1>9, <1>10, <1>11 DEF Next

LEMMA BaseHolds == Spec => []Base
  BY InitBase, NextBase, PTL DEF Spec

\* Every variable has its type, whatever fails.
THEOREM TypeCorrect == Spec => []TypeOK
  BY BaseHolds, PTL DEF Base

\* A result the agent was told is received stays in history until its scan or
\* its host is deleted: with every fault, retry and delay.
THEOREM AcceptedScanStays == Spec => []AcceptedScanIsKept
  BY BaseHolds, PTL DEF Base
-----------------------------------------------------------------------------
(* What holds without faults *)

\* Of a set of stamped documents at most one is the newest.
LEMMA NewestIsUnique ==
  ASSUME Stamps, TypeOK, NEW docs \in SUBSET history, NEW d \in LatestOf(docs)
  PROVE  LatestOf(docs) = {d}
<1>1. \A e \in docs : e \in history /\ e.ctime \in Nat
  BY DEF TypeOK, Doc
<1>2. d \in docs /\ \A e \in docs : e.ctime <= d.ctime
  BY DEF LatestOf
<1>3. ASSUME NEW e \in LatestOf(docs)
      PROVE  e = d
  <2>1. e \in docs /\ d.ctime <= e.ctime
    BY <1>2, <1>3 DEF LatestOf
  <2>2. d.ctime = e.ctime
    BY <1>1, <1>2, <2>1
  <2> QED
    BY <1>1, <1>2, <2>1, <2>2 DEF Stamps
<1> QED
  BY <1>3

\* The newest document of a set is still the newest of what a deletion leaves.
LEMMA NewestOfFewer ==
  ASSUME NEW docs, NEW fewer \in SUBSET docs, NEW d \in LatestOf(docs), d \in fewer
  PROVE  d \in LatestOf(fewer)
  BY DEF LatestOf

\* A deletion that sees the indices as they are meets no conflict and deletes
\* all it asked for.
LEMMA DeleteWhenSeen ==
  ASSUME TypeOK, seenHistory = history, seenLatest = latest, NEW docs \in SUBSET Doc
  PROVE  /\ ~Conflicts(docs)
         /\ Found(docs).history = docs \cap history
         /\ Found(docs).latest = {ip \in Ip : latest[ip] \in docs}
         /\ Delete(docs) => /\ history' = history \ docs
                            /\ latest' = [ip \in Ip |-> IF latest[ip] \in docs THEN None
                                                        ELSE latest[ip]]
<1>1. /\ Found(docs).history = docs \cap history
      /\ Found(docs).latest = {ip \in Ip : latest[ip] \in docs}
  BY DEF Found
<1>2. ~Conflicts(docs)
  BY <1>1 DEF Conflicts
<1>3. Delete(docs) => history' = history \ docs
  BY <1>1 DEF Delete
<1>4. Delete(docs) => latest' = [ip \in Ip |-> IF latest[ip] \in docs THEN None ELSE latest[ip]]
  BY <1>1 DEF Delete
<1> QED
  BY <1>1, <1>2, <1>3, <1>4

\* No operation has begun, or it is not between the two writes of a host.
LEMMA NotPending ==
  ASSUME op.kind \notin {"submit", "migrate"}, NEW ip
  PROVE  ~Pending(ip)
  BY DEF Pending

LEMMA InitFaultFree == Init => FaultFree
<1> SUFFICES ASSUME Init
             PROVE  FaultFree
  OBVIOUS
<1>1. op.kind = "none" /\ \A ip \in Ip : latest[ip] = None /\ Hist(ip) = {}
  BY DEF Init, NoOp, Hist
<1> QED
  BY <1>1 DEF Init, FaultFree, OneDocument, LatestFits, SearchesFit, MigrationFits,
              Outcomes, Newest

LEMMA IndexHistoryFaultFree ==
  ASSUME Base, faults = {}, FaultFree, NEW s \in Scan, IndexHistory(s)
  PROVE  FaultFree'
<1>0. TypeOK /\ Stamps
  BY DEF Base
<1>1. PICK doc : doc = [scan |-> s, ip |-> IpOf[s], ctime |-> ctime + 1]
  OBVIOUS
<1>2. doc.scan = s /\ doc.ip = IpOf[s]
  BY <1>1
<1>3. /\ history' = history \cup {doc}
      /\ op' = [kind |-> "submit", doc |-> doc]
      /\ gone' = gone \ {s}
      /\ op = NoOp
      /\ \A d \in history : d.scan # s
      /\ UNCHANGED <<faults, latest, seenHistory, seenLatest, denied, kept>>
  BY <1>1 DEF IndexHistory, seenVars, Ready
<1>4. op.kind = "none" /\ op'.kind = "submit" /\ op'.doc = doc
  BY <1>3 DEF NoOp
<1>5. OneDocument'
  BY <1>2, <1>3 DEF FaultFree, OneDocument
<1>6. ASSUME NEW ip \in Ip
      PROVE  /\ ~Pending(ip)' => Newest(ip)'
             /\ latest'[ip] # None => latest'[ip] \in Hist(ip)'
  <2>1. Newest(ip) /\ (latest[ip] # None => latest[ip] \in Hist(ip))
    BY <1>4, NotPending DEF FaultFree, LatestFits
  <2>2. Hist(ip) \subseteq Hist(ip)' /\ (ip # doc.ip => Hist(ip)' = Hist(ip))
    BY <1>3 DEF Hist
  <2>3. ~Pending(ip)' => ip # doc.ip
    BY <1>4 DEF Pending
  <2> QED
    BY <1>3, <2>1, <2>2, <2>3 DEF Newest
<1>7. LatestFits'
  BY <1>6 DEF LatestFits
<1>8. SearchesFit' /\ MigrationFits'
  BY <1>4 DEF SearchesFit, MigrationFits
<1>9. Outcomes'
  BY <1>2, <1>3 DEF FaultFree, Outcomes
<1> QED
  BY <1>5, <1>7, <1>8, <1>9 DEF FaultFree

LEMMA IndexLatestFaultFree ==
  ASSUME Base, faults = {}, FaultFree, IndexLatest
  PROVE  FaultFree'
<1>0. TypeOK /\ Stamps
  BY DEF Base
<1>1. PICK doc : doc = op.doc
  OBVIOUS
<1>2. /\ op.kind = "submit"
      /\ doc \in history
      /\ doc.ctime = ctime
      /\ doc.ip \in Ip
  BY <1>0, <1>1, OpTypes DEF IndexLatest, Stamps, Doc
<1>3. /\ latest' = [latest EXCEPT ![doc.ip] = doc]
      /\ op' = NoOp
      /\ UNCHANGED <<faults, history, seenHistory, seenLatest, ctime, denied, gone>>
  BY <1>1 DEF IndexLatest, seenVars
<1>4. op'.kind = "none"
  BY <1>3 DEF NoOp
<1>5. OneDocument' /\ Outcomes'
  BY <1>3 DEF FaultFree, OneDocument, Outcomes
<1>6. ASSUME NEW ip \in Ip
      PROVE  /\ Newest(ip)'
             /\ latest'[ip] # None => latest'[ip] \in Hist(ip)'
  <2>1. Hist(ip)' = Hist(ip)
    BY <1>3 DEF Hist
  <2>2. CASE ip = doc.ip
    <3>1. latest'[ip] = doc /\ doc \in Hist(ip)
      BY <1>0, <1>2, <1>3, <2>2 DEF TypeOK, Hist
    <3>2. \A e \in Hist(ip) : e.ctime <= doc.ctime
      BY <1>0, <1>2 DEF Stamps, Hist
    <3> QED
      BY <2>1, <3>1, <3>2 DEF Newest, LatestOf
  <2>3. CASE ip # doc.ip
    <3>1. latest'[ip] = latest[ip]
      BY <1>0, <1>3, <2>3 DEF TypeOK
    <3>2. ~Pending(ip)
      BY <1>1, <1>2, <2>3 DEF Pending
    <3> QED
      BY <2>1, <3>1, <3>2 DEF FaultFree, LatestFits, Newest
  <2> QED
    BY <2>2, <2>3
<1>7. LatestFits'
  BY <1>6 DEF LatestFits
<1>8. SearchesFit' /\ MigrationFits'
  BY <1>4 DEF SearchesFit, MigrationFits
<1> QED
  BY <1>5, <1>7, <1>8 DEF FaultFree

\* The search of history leaves what it was made for and what it found.
LEMMA SearchHistoryLeaves ==
  ASSUME TypeOK, SearchHistory
  PROVE  \E d \in NextOldest(Collection(IpOf[op.scan])) :
           op' = [kind |-> "purge", scan |-> op.scan, next |-> d]
<1>1. PICK d \in NextOldest(Collection(IpOf[op.scan])) :
        op' = [op EXCEPT !.kind = "purge", !.next = d]
  BY DEF SearchHistory
<1>2. op \in [kind : {"collect", "purge"}, scan : Scan, next : Doc \cup {None}]
  BY DEF SearchHistory, TypeOK, NoOp
<1>3. PICK k \in {"collect", "purge"}, s \in Scan, n \in Doc \cup {None} :
        op = [kind |-> k, scan |-> s, next |-> n]
  BY <1>2
<1>4. op' = [kind |-> "purge", scan |-> s, next |-> d] /\ op.scan = s
  BY <1>1, <1>3
<1> QED
  BY <1>1, <1>4

LEMMA SearchFaultFree ==
  ASSUME Base, faults = {}, FaultFree,
         SearchHistory \/ \E s \in Scan : SearchLatest(s)
  PROVE  FaultFree'
<1>0. TypeOK
  BY DEF Base
<1>1. UNCHANGED <<faults, history, latest, seenHistory, seenLatest, denied, gone>>
  BY DEF SearchHistory, SearchLatest, indexVars, seenVars
<1>2. /\ op.kind \notin {"submit", "migrate"}
      /\ op'.kind \in {"collect", "purge"}
  <2>1. CASE \E s \in Scan : SearchLatest(s)
    BY <2>1 DEF SearchLatest, Ready, NoOp
  <2>2. CASE SearchHistory
    <3>1. PICK d : op' = [kind |-> "purge", scan |-> op.scan, next |-> d]
      BY <1>0, <2>2, SearchHistoryLeaves
    <3> QED
      BY <2>2, <3>1 DEF SearchHistory
  <2> QED
    BY <2>1, <2>2
<1>3. OneDocument' /\ Outcomes'
  BY <1>1 DEF FaultFree, OneDocument, Outcomes
<1>4. LatestFits'
  <2>1. \A ip \in Ip : Newest(ip) /\ (latest[ip] # None => latest[ip] \in Hist(ip))
    BY <1>2, NotPending DEF FaultFree, LatestFits
  <2>2. \A ip \in Ip : Newest(ip)' /\ (latest'[ip] # None => latest'[ip] \in Hist(ip)')
    BY <1>1, <2>1 DEF Newest, Hist
  <2> QED
    BY <2>2 DEF LatestFits
<1>5. SearchesFit'
  <2>1. CASE \E s \in Scan : SearchLatest(s)
    <3>1. PICK s \in Scan : SearchLatest(s)
      BY <2>1
    <3>2. /\ seenHistory = history /\ seenLatest = latest
          /\ op' = [kind |-> IF SingleHost(s) = {} THEN "purge" ELSE "collect",
                    scan |-> s, next |-> None]
      BY <3>1 DEF SearchLatest, Ready
    <3>3. /\ op'.next = None /\ op'.scan = s
          /\ op'.kind = "purge" <=> SingleHost(s) = {}
      BY <3>2
    <3>4. SingleHost(op.scan)' = SingleHost(s)
      BY <1>1, <3>3 DEF SingleHost
    <3> QED
      BY <1>1, <1>2, <3>2, <3>3, <3>4 DEF SearchesFit
  <2>2. CASE SearchHistory
    <3>1. PICK d \in NextOldest(Collection(IpOf[op.scan])) :
            op' = [kind |-> "purge", scan |-> op.scan, next |-> d]
      BY <1>0, <2>2, SearchHistoryLeaves
    <3>3. op'.kind = "purge" /\ op'.scan = op.scan /\ op'.next = d
      BY <3>1
    <3>4. seenHistory = history /\ seenLatest = latest /\ SingleHost(op.scan) # {}
      BY <2>2 DEF SearchHistory, FaultFree, SearchesFit
    <3>5. SingleHost(op.scan)' = SingleHost(op.scan)
      BY <1>1, <3>3 DEF SingleHost
    <3>6. Hist(IpOf[op.scan])' = Collection(IpOf[op.scan])
      BY <1>1, <3>3, <3>4 DEF Hist, Collection
    <3> QED
      BY <1>1, <3>1, <3>3, <3>4, <3>5, <3>6 DEF SearchesFit, NextOldest, LatestOf
  <2> QED
    BY <2>1, <2>2
<1>6. MigrationFits'
  BY <1>2 DEF MigrationFits
<1> QED
  BY <1>3, <1>4, <1>5, <1>6 DEF FaultFree

LEMMA MigrateFaultFree ==
  ASSUME Base, faults = {}, FaultFree, Migrate
  PROVE  FaultFree'
<1>0. TypeOK /\ Stamps
  BY DEF Base
<1>1. PICK host \in Ip : host = IpOf[op.scan]
  BY <1>0, OpTypes, StoreAssumption DEF Migrate
<1>2. PICK next : next = op.next
  OBVIOUS
<1>3. /\ op.kind = "migrate"
      /\ latest' = [latest EXCEPT ![host] = next]
      /\ op' = NoOp
      /\ gone' = gone \cup {op.scan}
      /\ denied' = {}
      /\ UNCHANGED <<faults, history, seenHistory, seenLatest>>
  <2>1. Successful(op.deleted) /\ denied = {}
    BY DEF Migrate, FaultFree, MigrationFits, Outcomes
  <2> QED
    BY <1>1, <1>2, <2>1 DEF Migrate, Answer, seenVars
<1>4. op'.kind = "none"
  BY <1>3 DEF NoOp
<1>5. next \in LatestOf(Hist(host)) /\ \A d \in history : d.scan # op.scan
  BY <1>1, <1>2, <1>3 DEF FaultFree, MigrationFits
<1>6. OneDocument' /\ Outcomes'
  BY <1>3, <1>5 DEF FaultFree, OneDocument, Outcomes
<1>7. ASSUME NEW ip \in Ip
      PROVE  /\ Newest(ip)'
             /\ latest'[ip] # None => latest'[ip] \in Hist(ip)'
  <2>1. Hist(ip)' = Hist(ip)
    BY <1>3 DEF Hist
  <2>2. CASE ip = host
    <3>1. latest'[ip] = next /\ next \in LatestOf(Hist(ip)) /\ next \in Hist(ip)
      BY <1>0, <1>3, <1>5, <2>2, LatestOfIsSubset DEF TypeOK
    <3> QED
      BY <2>1, <3>1 DEF Newest, LatestOf
  <2>3. CASE ip # host
    <3>1. latest'[ip] = latest[ip]
      BY <1>0, <1>3, <2>3 DEF TypeOK
    <3>2. ~Pending(ip)
      BY <1>1, <1>3, <2>3 DEF Pending
    <3> QED
      BY <2>1, <3>1, <3>2 DEF FaultFree, LatestFits, Newest, LatestOf
  <2> QED
    BY <2>2, <2>3
<1>8. LatestFits'
  BY <1>7 DEF LatestFits
<1>9. SearchesFit' /\ MigrationFits'
  BY <1>4 DEF SearchesFit, MigrationFits
<1> QED
  BY <1>6, <1>8, <1>9 DEF FaultFree

LEMMA DeleteHostFaultFree ==
  ASSUME Base, faults = {}, FaultFree, NEW host \in Ip, DeleteHost(host)
  PROVE  FaultFree'
<1>0. TypeOK /\ Stamps
  BY DEF Base
<1>1. /\ op = NoOp
      /\ seenHistory = history /\ seenLatest = latest
      /\ Delete(DocsOfHost(host))
      /\ UNCHANGED <<faults, seenHistory, seenLatest, op, denied, gone>>
  BY DEF DeleteHost, Ready, seenVars
<1>2. DocsOfHost(host) \in SUBSET Doc
  BY DEF DocsOfHost
<1>3. /\ history' = history \ DocsOfHost(host)
      /\ latest' = [ip \in Ip |-> IF latest[ip] \in DocsOfHost(host) THEN None ELSE latest[ip]]
  BY <1>0, <1>1, <1>2, DeleteWhenSeen
<1>4. op.kind = "none" /\ op'.kind = "none"
  BY <1>1 DEF NoOp
<1>5. OneDocument' /\ Outcomes'
  BY <1>1, <1>3 DEF FaultFree, OneDocument, Outcomes
<1>6. ASSUME NEW ip \in Ip
      PROVE  /\ Newest(ip)'
             /\ latest'[ip] # None => latest'[ip] \in Hist(ip)'
  <2>1. Newest(ip) /\ (latest[ip] # None => latest[ip] \in Hist(ip))
    BY <1>4, NotPending DEF FaultFree, LatestFits
  <2>2. CASE ip = host
    <3>1. Hist(ip)' = {}
      BY <1>0, <1>3, <2>2 DEF Hist, DocsOfHost, TypeOK
    <3>2. latest[ip] # None => latest[ip] \in DocsOfHost(host)
      BY <1>0, <2>1, <2>2 DEF Hist, DocsOfHost, TypeOK
    <3>3. latest'[ip] = None
      BY <1>3, <3>2
    <3> QED
      BY <3>1, <3>3 DEF Newest
  <2>3. CASE ip # host
    <3>1. Hist(ip)' = Hist(ip)
      BY <1>3, <2>3 DEF Hist, DocsOfHost
    <3>2. latest[ip] \notin DocsOfHost(host)
      BY <2>1, <2>3, NoneIsNoDoc DEF Hist, DocsOfHost
    <3>3. latest'[ip] = latest[ip]
      BY <1>3, <3>2
    <3> QED
      BY <2>1, <3>1, <3>3 DEF Newest, LatestOf
  <2> QED
    BY <2>2, <2>3
<1>7. LatestFits'
  BY <1>6 DEF LatestFits
<1>8. SearchesFit' /\ MigrationFits'
  BY <1>4 DEF SearchesFit, MigrationFits
<1> QED
  BY <1>5, <1>7, <1>8 DEF FaultFree

\* Without faults an index is refreshed only when no deletion is under way.
LEMMA RefreshFaultFree ==
  ASSUME Base, faults = {}, FaultFree, RefreshHistory \/ RefreshLatest
  PROVE  FaultFree'
<1>1. UNCHANGED <<faults, history, latest, op, denied, gone>>
  BY DEF RefreshHistory, RefreshLatest, indexVars
<1>2. op.kind \notin {"collect", "purge"}
  BY DEF RefreshHistory, RefreshLatest, FaultFree, SearchesFit
<1>3. OneDocument' /\ Outcomes'
  BY <1>1 DEF FaultFree, OneDocument, Outcomes
<1>4. \A ip \in Ip : /\ Pending(ip)' <=> Pending(ip)
                     /\ Newest(ip)' <=> Newest(ip)
                     /\ Hist(ip)' = Hist(ip)
  BY <1>1 DEF Pending, Newest, Hist
<1>5. LatestFits'
  BY <1>1, <1>4 DEF FaultFree, LatestFits
<1>6. SearchesFit'
  BY <1>1, <1>2 DEF SearchesFit
<1>7. MigrationFits'
  BY <1>1 DEF FaultFree, MigrationFits, Hist
<1> QED
  BY <1>3, <1>5, <1>6, <1>7 DEF FaultFree

LEMMA StutterFaultFree ==
  ASSUME FaultFree, UNCHANGED vars
  PROVE  FaultFree'
  BY DEF vars, indexVars, seenVars, FaultFree, OneDocument, LatestFits, SearchesFit, MigrationFits,
         Outcomes, Pending, Newest, Hist, SingleHost

\* What a scan's deletion finds without faults: the scan has one document at
\* most, its host is the only one it can be the latest result of, and what it
\* deletes is what delete_scan takes for a success.
LEMMA PurgeFinds ==
  ASSUME Base, FaultFree, NEW s \in Scan, seenHistory = history, seenLatest = latest
  PROVE  /\ \A d \in DocsOf(s) \cap history : d.ip = IpOf[s]
         /\ SingleHost(s) \subseteq {IpOf[s]}
         /\ SingleHost(s) = {ip \in Ip : latest[ip] \in DocsOf(s)}
         /\ SingleHost(s) # {} => /\ latest[IpOf[s]] \in DocsOf(s) \cap history
                                  /\ Deleted(DocsOf(s)) = 2
         /\ Deleted(DocsOf(s)) > 0 => Successful(Deleted(DocsOf(s)))
<1>0. TypeOK /\ Stamps
  BY DEF Base
<1> DEFINE docs == DocsOf(s)
<1>1. \A d \in docs \cap history : d.scan = s /\ d.ip = IpOf[s]
  BY <1>0 DEF DocsOf, Stamps
<1>2. SingleHost(s) = {ip \in Ip : latest[ip] \in docs}
  BY <1>0, NoneIsNoDoc DEF SingleHost, DocsOf, TypeOK
<1>3. ASSUME NEW ip \in SingleHost(s)
      PROVE  ip = IpOf[s] /\ latest[ip] \in docs \cap history
  <2>1. ip \in Ip /\ latest[ip] \in docs /\ latest[ip] # None
    BY <1>2, <1>3, NoneIsNoDoc DEF DocsOf
  <2>2. latest[ip] \in history /\ latest[ip].ip = ip
    BY <2>1 DEF FaultFree, LatestFits, Hist
  <2> QED
    BY <1>1, <2>1, <2>2
<1>4. /\ Found(docs).history = docs \cap history
      /\ Found(docs).latest = SingleHost(s)
  <2>1. docs \in SUBSET Doc
    BY DEF DocsOf
  <2> QED
    BY <1>0, <1>2, <2>1, DeleteWhenSeen
<1>5. PICK h : h = Cardinality(Found(docs).history)
  OBVIOUS
<1>6. PICK l : l = Cardinality(Found(docs).latest)
  OBVIOUS
<1>7. h \in {0, 1} /\ (docs \cap history # {} => h = 1)
  <2>1. CASE docs \cap history = {}
    BY <1>4, <1>5, <2>1, FS_EmptySet
  <2>2. CASE docs \cap history # {}
    <3>1. PICK d \in docs \cap history : TRUE
      BY <2>2
    <3>2. docs \cap history = {d}
      BY <1>1 DEF FaultFree, OneDocument
    <3> QED
      BY <1>4, <1>5, <3>2, FS_Singleton
  <2> QED
    BY <2>1, <2>2
<1>8. l \in {0, 1} /\ (SingleHost(s) # {} => l = 1)
  <2>1. SingleHost(s) = {} \/ SingleHost(s) = {IpOf[s]}
    BY <1>3
  <2> QED
    BY <1>4, <1>6, <2>1, FS_EmptySet, FS_Singleton
<1>9. Deleted(docs) = h + l
  BY <1>5, <1>6 DEF Deleted
<1>10. SingleHost(s) # {} => latest[IpOf[s]] \in docs \cap history
  BY <1>3
<1>11. SingleHost(s) # {} => Deleted(docs) = 2
  BY <1>7, <1>8, <1>9, <1>10
<1>12. Deleted(docs) > 0 => Successful(Deleted(docs))
  BY <1>7, <1>8, <1>9 DEF Successful
<1> QED
  BY <1>1, <1>2, <1>3, <1>10, <1>11, <1>12

\* Without faults the host of a deleted scan shows what it showed, or, if that
\* was the scan's result, the newest that remains (or nothing).
LEMMA PurgeScanFaultFree ==
  ASSUME Base, faults = {}, FaultFree, PurgeScan
  PROVE  FaultFree'
<1>0. TypeOK /\ Stamps
  BY DEF Base
<1>1. PICK s \in Scan : s = op.scan
  BY <1>0, OpTypes DEF PurgeScan
<1>2. PICK host \in Ip : host = IpOf[s]
  BY StoreAssumption
<1>3. PICK next : next = op.next
  OBVIOUS
<1>4. PICK docs \in SUBSET Doc : docs = DocsOf(s)
  BY DEF DocsOf
<1>5. /\ op.kind = "purge"
      /\ seenHistory = history /\ seenLatest = latest
      /\ SingleHost(s) = {} => next = None
      /\ SingleHost(s) # {} => next \in NextOldest(Hist(host))
  BY <1>1, <1>2, <1>3 DEF PurgeScan, FaultFree, SearchesFit
<1>6. /\ \A d \in docs \cap history : d.ip = host
      /\ SingleHost(s) \subseteq {host}
      /\ SingleHost(s) = {ip \in Ip : latest[ip] \in docs}
      /\ SingleHost(s) # {} => latest[host] \in docs \cap history /\ Deleted(docs) = 2
      /\ Deleted(docs) > 0 => Successful(Deleted(docs))
  BY <1>2, <1>4, <1>5, PurgeFinds
<1>7. /\ ~Conflicts(docs)
      /\ history' = history \ docs
      /\ latest' = [ip \in Ip |-> IF latest[ip] \in docs THEN None ELSE latest[ip]]
  BY <1>0, <1>1, <1>4, <1>5, DeleteWhenSeen DEF PurgeScan
<1>8. UNCHANGED <<faults, seenHistory, seenLatest>>
  BY DEF PurgeScan, seenVars
<1>9. \A d \in history : d \in docs <=> d.scan = s
  BY <1>0, <1>4 DEF DocsOf, TypeOK
<1>10. OneDocument'
  BY <1>7 DEF FaultFree, OneDocument
<1>11. \A ip \in Ip : Newest(ip) /\ (latest[ip] # None => latest[ip] \in Hist(ip))
  BY <1>5, NotPending DEF FaultFree, LatestFits
<1>12. ASSUME NEW ip \in Ip, ip # host
       PROVE  Newest(ip)' /\ (latest'[ip] # None => latest'[ip] \in Hist(ip)')
  <2>1. Hist(ip)' = Hist(ip)
    BY <1>6, <1>7, <1>12 DEF Hist
  <2>2. latest'[ip] = latest[ip]
    BY <1>6, <1>7, <1>12
  <2> QED
    BY <1>11, <2>1, <2>2 DEF Newest, LatestOf
<1>13. Hist(host)' = Hist(host) \ docs
  BY <1>7 DEF Hist
<1>14. CASE SingleHost(s) = {}
  <2>1. latest'[host] = latest[host] /\ latest[host] \notin docs
    BY <1>6, <1>7, <1>14
  <2>2. Newest(host)' /\ (latest'[host] # None => latest'[host] \in Hist(host)')
    <3>1. CASE Hist(host) = {}
      BY <1>11, <1>13, <2>1, <3>1 DEF Newest
    <3>2. CASE Hist(host) # {}
      <4>1. latest[host] \in LatestOf(Hist(host))
        BY <1>11, <3>2 DEF Newest
      <4>2. latest[host] \in Hist(host) \ docs
        BY <2>1, <4>1, LatestOfIsSubset
      <4>3. latest[host] \in LatestOf(Hist(host) \ docs)
        BY <4>1, <4>2, NewestOfFewer
      <4> QED
        BY <1>13, <2>1, <4>2, <4>3 DEF Newest, LatestOf
    <3> QED
      BY <3>1, <3>2
  <2>3. LatestFits'
    BY <1>12, <2>2 DEF LatestFits
  <2>4. Answer(s, Deleted(docs))
    BY <1>1, <1>3, <1>4, <1>5, <1>7, <1>14 DEF PurgeScan, Migrates
  <2>5. op'.kind = "none" /\ denied' = denied /\ gone' = gone \cup {s}
    BY <1>6, <2>4 DEF Answer, NoOp
  <2>6. SearchesFit' /\ MigrationFits'
    BY <2>5 DEF SearchesFit, MigrationFits
  <2>7. Outcomes'
    BY <1>7, <1>9, <2>5 DEF FaultFree, Outcomes
  <2> QED
    BY <1>10, <2>3, <2>6, <2>7 DEF FaultFree
<1>15. CASE SingleHost(s) # {}
  <2>1. PICK d : d = latest[host]
    OBVIOUS
  <2>2. /\ d \in docs \cap history
        /\ d.ip = host
        /\ latest'[host] = None
        /\ d \in Hist(host)
    BY <1>6, <1>7, <1>15, <2>1 DEF Hist
  <2>3. docs \cap history = {d}
    BY <1>9, <2>2 DEF FaultFree, OneDocument
  <2>4. Hist(host)' = Hist(host) \ {d}
    BY <1>13, <2>3 DEF Hist
  <2>5. LatestOf(Hist(host)) = {d}
    <3>1. d \in LatestOf(Hist(host))
      BY <1>11, <2>1, <2>2 DEF Newest
    <3>2. Hist(host) \in SUBSET history
      BY DEF Hist
    <3> QED
      BY <1>0, <3>1, <3>2, NewestIsUnique
  <2>6. IsFiniteSet(Hist(host)) /\ Cardinality(Hist(host)) \in Nat
    <3>1. Hist(host) \subseteq history /\ IsFiniteSet(history)
      BY <1>0 DEF Hist, Stamps
    <3> QED
      BY <3>1, FS_Subset, FS_CardinalityType
  <2>7. CASE Cardinality(Hist(host)) > 1
    <3>1. next \in LatestOf(Hist(host) \ {d})
      BY <1>5, <1>15, <2>5, <2>7 DEF NextOldest
    <3>2. next \in Doc /\ next # None
      BY <1>0, <3>1, NoneIsNoDoc, LatestOfIsSubset DEF Hist, TypeOK
    <3>3. op' = [kind |-> "migrate", scan |-> s, next |-> next, deleted |-> 2]
      BY <1>1, <1>3, <1>4, <1>6, <1>7, <1>15, <3>2 DEF PurgeScan, Migrates
    <3>4. /\ op'.kind = "migrate" /\ op'.scan = s /\ op'.next = next /\ op'.deleted = 2
          /\ UNCHANGED <<denied, gone>>
      BY <1>1, <1>3, <1>4, <1>7, <3>2, <3>3 DEF PurgeScan, Migrates
    <3>5. Pending(host)'
      BY <1>2, <3>4 DEF Pending
    <3>6. LatestFits'
      BY <1>12, <2>2, <3>5 DEF LatestFits
    <3>7. SearchesFit'
      BY <3>4 DEF SearchesFit
    <3>8. MigrationFits'
      <4>1. Hist(IpOf[op.scan])' = Hist(host) \ {d}
        BY <1>2, <2>4, <3>4 DEF Hist
      <4>2. next \in LatestOf(Hist(IpOf[op.scan]))'
        BY <3>1, <4>1 DEF LatestOf
      <4>3. \A e \in history' : e.scan # op'.scan
        BY <1>7, <1>9, <3>4
      <4>4. Successful(op.deleted)'
        BY <3>4 DEF Successful
      <4>5. latest'[IpOf[op'.scan]] = None
        BY <1>2, <2>2, <3>4
      <4> QED
        BY <3>4, <4>2, <4>3, <4>4, <4>5 DEF MigrationFits
    <3>9. Outcomes'
      BY <1>7, <3>4 DEF FaultFree, Outcomes
    <3> QED
      BY <1>10, <3>6, <3>7, <3>8, <3>9 DEF FaultFree
  <2>8. CASE Cardinality(Hist(host)) <= 1
    <3>1. Hist(host)' = {}
      <4>1. IsFiniteSet(Hist(host) \ {d}) /\ Cardinality(Hist(host) \ {d}) = Cardinality(Hist(host)) - 1
        BY <2>2, <2>6, FS_RemoveElement
      <4>2. Cardinality(Hist(host) \ {d}) \in Nat
        BY <4>1, FS_CardinalityType
      <4>3. Cardinality(Hist(host) \ {d}) = 0
        BY <2>6, <2>8, <4>1, <4>2
      <4> QED
        BY <2>4, <4>1, <4>3, FS_EmptySet
    <3>2. next = None
      BY <1>5, <1>15, <2>6, <2>8 DEF NextOldest
    <3>3. Newest(host)' /\ latest'[host] = None
      BY <2>2, <3>1 DEF Newest
    <3>4. LatestFits'
      BY <1>12, <3>3 DEF LatestFits
    <3>5. Answer(s, Deleted(docs))
      BY <1>1, <1>3, <1>4, <1>7, <3>2 DEF PurgeScan, Migrates
    <3>6. op'.kind = "none" /\ denied' = denied /\ gone' = gone \cup {s}
      BY <1>6, <3>5 DEF Answer, NoOp
    <3>7. SearchesFit' /\ MigrationFits'
      BY <3>6 DEF SearchesFit, MigrationFits
    <3>8. Outcomes'
      BY <1>7, <1>9, <3>6 DEF FaultFree, Outcomes
    <3> QED
      BY <1>10, <3>4, <3>7, <3>8 DEF FaultFree
  <2> QED
    BY <2>6, <2>7, <2>8
<1> QED
  BY <1>14, <1>15

LEMMA InitInv == Init => IInv
  BY InitBase, InitFaultFree DEF IInv, Base

LEMMA NextInv == IInv /\ [Next]_vars => IInv'
<1> SUFFICES ASSUME IInv, [Next]_vars
             PROVE  IInv'
  OBVIOUS
<1>1. Base /\ Base'
  BY NextBase DEF IInv, Base
<1>2. faults' = faults
  BY DEF Next, IndexHistory, IndexLatest, SearchLatest, SearchHistory, PurgeScan, Migrate,
         DeleteHost, RefreshHistory, RefreshLatest, RequestFails, vars
<1>3. ASSUME faults' = {}
      PROVE  FaultFree'
  <2>0. faults = {} /\ FaultFree
    BY <1>2, <1>3 DEF IInv
  <2>1. ASSUME NEW s \in Scan, IndexHistory(s)
        PROVE  FaultFree'
    BY <1>1, <2>0, <2>1, IndexHistoryFaultFree
  <2>2. CASE IndexLatest
    BY <1>1, <2>0, <2>2, IndexLatestFaultFree
  <2>3. CASE SearchHistory \/ \E s \in Scan : SearchLatest(s)
    BY <1>1, <2>0, <2>3, SearchFaultFree
  <2>4. CASE PurgeScan
    BY <1>1, <2>0, <2>4, PurgeScanFaultFree
  <2>5. CASE Migrate
    BY <1>1, <2>0, <2>5, MigrateFaultFree
  <2>6. ASSUME NEW ip \in Ip, DeleteHost(ip)
        PROVE  FaultFree'
    BY <1>1, <2>0, <2>6, DeleteHostFaultFree
  <2>7. CASE RefreshHistory \/ RefreshLatest
    BY <1>1, <2>0, <2>7, RefreshFaultFree
  <2>8. CASE RequestFails
    BY <2>0, <2>8 DEF RequestFails
  <2>9. CASE UNCHANGED vars
    BY <2>0, <2>9, StutterFaultFree
  <2> QED
    BY <2>1, <2>2, <2>3, <2>4, <2>5, <2>6, <2>7, <2>8, <2>9 DEF Next
<1> QED
  BY <1>1, <1>3 DEF IInv, Base

\* The invariant holds of every reachable state: its first part whatever fails,
\* the whole of it when nothing does.
THEOREM Invariance == Spec => []IInv
  BY InitInv, NextInv, PTL DEF Spec
-----------------------------------------------------------------------------
(* The properties *)

\* Without faults the latest index shows the newest document of each host.
THEOREM LatestShowsNewest == Spec => []LatestIsNewest
<1>1. IInv => LatestIsNewest
  <2> SUFFICES ASSUME IInv, faults = {}, op = NoOp, NEW ip \in Ip
               PROVE  IF {d \in history : d.ip = ip} = {}
                      THEN latest[ip] = None
                      ELSE latest[ip] \in LatestOf({d \in history : d.ip = ip})
    BY DEF LatestIsNewest
  <2>1. ~Pending(ip)
    BY NotPending DEF NoOp
  <2> QED
    BY <2>1 DEF IInv, FaultFree, LatestFits, Newest, Hist
<1> QED
  BY <1>1, Invariance, PTL

\* Without faults nothing shows a deleted scan until it is submitted again.
THEOREM DeletedScanStaysGone == Spec => []DeletedScanIsGone
<1>1. IInv => DeletedScanIsGone
  <2> SUFFICES ASSUME IInv, faults = {}, NEW s \in gone
               PROVE  /\ \A d \in history : d.scan # s
                      /\ \A ip \in Ip : latest[ip] # None => latest[ip].scan # s
    BY DEF DeletedScanIsGone
  <2>1. \A d \in history : d.scan # s
    BY DEF IInv, FaultFree, Outcomes
  <2>2. \A ip \in Ip : latest[ip] # None => latest[ip] \in history
    BY DEF IInv, FaultFree, LatestFits, Hist
  <2> QED
    BY <2>1, <2>2
<1> QED
  BY <1>1, Invariance, PTL

\* Without faults no administrator is told that a deleted scan was not.
THEOREM DeletionReported == Spec => []DeletionIsReported
<1>1. IInv => DeletionIsReported
  BY DEF IInv, FaultFree, Outcomes, DeletionIsReported
<1> QED
  BY <1>1, Invariance, PTL
=============================================================================
