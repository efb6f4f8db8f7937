------------------------------ MODULE ScanStore ------------------------------
(***************************************************************************)
(* The scan results natlas-server keeps in Elasticsearch: an index with    *)
(* every result ever submitted (history) and one with a result per host    *)
(* (latest).  Each operation of ElasticInterface is several requests to    *)
(* Elasticsearch, one step each.  The server handles one HTTP request at a *)
(* time, so operations do not overlap, but one may fail between two of its *)
(* requests, and Elasticsearch makes documents searchable on its own       *)
(* schedule: searches, and the search half of delete_by_query, see the     *)
(* indices as they were at their last refresh.                             *)
(***************************************************************************)
EXTENDS Integers, FiniteSets

CONSTANTS Scan,     \* scan ids
          Ip,       \* hosts
          IpOf,     \* the host a scan was made of
          MaxDocs,  \* bound on the documents ever written
          FaultSets,  \* what may go wrong together, sets of "elastic" (a
                      \* request fails), "retry" (the agent misses the reply
                      \* and submits again), "lag" (an operation may start
                      \* before the indices are refreshed)
          None

ASSUME StoreAssumption == /\ IpOf \in [Scan -> Ip]
                          /\ MaxDocs \in Nat
                          /\ IsFiniteSet(Scan)
                          /\ IsFiniteSet(Ip)

Doc == [scan : Scan, ip : Ip, ctime : 1..MaxDocs]

ASSUME NoneIsNoDoc == None \notin Doc

VARIABLES faults,       \* what may go wrong in this behaviour
          history,      \* documents of the history index
          latest,       \* host -> its document in the latest index
          seenHistory,  \* history as of its last refresh
          seenLatest,   \* latest as of its last refresh
          ctime,        \* stamp of the last document
          op,           \* the operation the server is in
          denied,       \* scans the page failed to delete although the
                        \* indices no longer hold them (history)
          kept,         \* scans accepted with 200, not deleted since
          gone          \* scans delete_scan returned for, not submitted since

indexVars == <<history, latest>>
seenVars == <<seenHistory, seenLatest>>
vars == <<faults, history, latest, seenHistory, seenLatest, ctime, op, denied, kept, gone>>

NoOp == [kind |-> "none"]

Init == /\ faults \in FaultSets
        /\ history = {}
        /\ latest = [ip \in Ip |-> None]
        /\ seenHistory = {}
        /\ seenLatest = latest
        /\ ctime = 0
        /\ op = NoOp
        /\ denied = {}
        /\ kept = {}
        /\ gone = {}

\* A handler may begin: the server is free and, unless refreshes lag, what
\* was written before can be found.
Ready == /\ op = NoOp
         /\ "lag" \in faults \/ (seenHistory = history /\ seenLatest = latest)

LatestOf(docs) == {d \in docs : \A e \in docs : e.ctime <= d.ctime}
-----------------------------------------------------------------------------
(* new_result *)

\* A submission of scan s: its document is stamped and indexed in history.
IndexHistory(s) ==
  /\ Ready
  /\ ctime < MaxDocs
  /\ "retry" \in faults \/ \A d \in history : d.scan # s
  /\ "retry" \in faults \/ s \notin gone
  /\ LET doc == [scan |-> s, ip |-> IpOf[s], ctime |-> ctime + 1]
     IN /\ history' = history \cup {doc}
        /\ op' = [kind |-> "submit", doc |-> doc]
  /\ ctime' = ctime + 1
  /\ gone' = gone \ {s}
  /\ UNCHANGED <<faults, latest, seenVars, denied, kept>>

IndexLatest ==
  /\ op.kind = "submit"
  /\ latest' = [latest EXCEPT ![op.doc.ip] = op.doc]
  /\ kept' = kept \cup {op.doc.scan}
  /\ op' = NoOp
  /\ UNCHANGED <<faults, history, seenVars, ctime, denied, gone>>
-----------------------------------------------------------------------------
(* delete_scan *)

\* What a search of the latest index for a scan, and of history for a host, hits.
SingleHost(s) == {ip \in Ip : seenLatest[ip] # None /\ seenLatest[ip].scan = s}
Collection(ip) == {d \in seenHistory : d.ip = ip}

\* Is it the result of a host in the latest index?
SearchLatest(s) ==
  /\ Ready
  /\ op' = [kind |-> IF SingleHost(s) = {} THEN "purge" ELSE "collect",
            scan |-> s, next |-> None]
  /\ UNCHANGED <<faults, indexVars, seenVars, ctime, denied, kept, gone>>

\* Mutant: takes the newest document instead of the one after it.
NextOldest_newest(docs) == IF Cardinality(docs) > 1 THEN LatestOf(docs) ELSE {None}

\* twoscans[1] if the host has more than one document, else nothing.
NextOldest(docs) == IF Cardinality(docs) > 1
                    THEN LatestOf(docs \ LatestOf(docs))
                    ELSE {None}

SearchHistory ==
  /\ op.kind = "collect"
  /\ \E d \in NextOldest(Collection(IpOf[op.scan])) :
       op' = [op EXCEPT !.kind = "purge", !.next = d]
  /\ UNCHANGED <<faults, indexVars, seenVars, ctime, denied, kept, gone>>

\* delete_by_query on both indices: what the search found and is still there
\* unchanged is deleted; a document that changed since is a version conflict.
Found(docs) == [history |-> docs \cap seenHistory,
                latest |-> {ip \in Ip : seenLatest[ip] \in docs}]
Conflicts(docs) == \/ Found(docs).history \cap history # Found(docs).history
                   \/ \E ip \in Found(docs).latest : latest[ip] # seenLatest[ip]
Delete(docs) ==
  /\ history' = history \ Found(docs).history
  /\ latest' = [ip \in Ip |-> IF ip \in Found(docs).latest /\ latest[ip] = seenLatest[ip]
                              THEN None ELSE latest[ip]]
Deleted(docs) == Cardinality(Found(docs).history) + Cardinality(Found(docs).latest)

\* Mutant: selects by host, not by scan id.
DocsOf_host(s) == {d \in Doc : d.ip = IpOf[s]}

DocsOf(s) == {d \in Doc : d.scan = s}

\* Mutant: the condition is missing.
Migrates_always == TRUE

Migrates == op.next # None

\* Mutant: a scan has one document.
Successful_one(deleted) == deleted = 1

\* One document in history, and one in latest if it is a host's newest.
Successful(deleted) == deleted \in {1, 2}

\* delete_scan returns, and the page tells from the number of documents
\* deleted whether the scan was.
Answer(s, deleted) ==
  /\ gone' = gone \cup {s}
  /\ denied' = IF deleted > 0 /\ ~Successful(deleted) THEN denied \cup {s} ELSE denied
  /\ op' = NoOp

PurgeScan ==
  /\ op.kind = "purge"
  /\ Delete(DocsOf(op.scan))
  /\ kept' = kept \ {op.scan}
  /\ IF Conflicts(DocsOf(op.scan))
     THEN op' = NoOp /\ UNCHANGED <<denied, gone>>
     ELSE IF Migrates
     THEN /\ op' = [kind |-> "migrate", scan |-> op.scan, next |-> op.next,
                    deleted |-> Deleted(DocsOf(op.scan))]
          /\ UNCHANGED <<denied, gone>>
     ELSE Answer(op.scan, Deleted(DocsOf(op.scan)))
  /\ UNCHANGED <<faults, seenVars, ctime>>

\* The next oldest result becomes the host's latest.
Migrate ==
  /\ op.kind = "migrate"
  /\ latest' = [latest EXCEPT ![IpOf[op.scan]] = op.next]
  /\ Answer(op.scan, op.deleted)
  /\ UNCHANGED <<faults, history, seenVars, ctime, kept>>
-----------------------------------------------------------------------------
\* delete_host
DocsOfHost(ip) == {d \in Doc : d.ip = ip}

DeleteHost(ip) ==
  /\ Ready
  /\ Delete(DocsOfHost(ip))
  /\ kept' = {s \in kept : IpOf[s] # ip}
  /\ UNCHANGED <<faults, seenVars, ctime, op, denied, gone>>
-----------------------------------------------------------------------------
(* Elasticsearch *)

RefreshHistory == /\ seenHistory # history
                  /\ seenHistory' = history
                  /\ UNCHANGED <<faults, indexVars, seenLatest, ctime, op, denied, kept, gone>>

RefreshLatest == /\ seenLatest # latest
                 /\ seenLatest' = latest
                 /\ UNCHANGED <<faults, indexVars, seenHistory, ctime, op, denied, kept, gone>>

\* A request fails, or the worker is killed: the handler ends where it is.
RequestFails == /\ "elastic" \in faults
                /\ op # NoOp
                /\ op' = NoOp
                /\ UNCHANGED <<faults, indexVars, seenVars, ctime, denied, kept, gone>>

Next == \/ \E s \in Scan : IndexHistory(s) \/ SearchLatest(s)
        \/ IndexLatest
        \/ SearchHistory
        \/ PurgeScan
        \/ Migrate
        \/ \E ip \in Ip : DeleteHost(ip)
        \/ RefreshHistory
        \/ RefreshLatest
        \/ RequestFails

Spec == Init /\ [][Next]_vars
-----------------------------------------------------------------------------
(* Properties *)

TypeOK ==
  /\ faults \in FaultSets
  /\ history \subseteq Doc
  /\ seenHistory \subseteq Doc
  /\ latest \in [Ip -> Doc \cup {None}]
  /\ seenLatest \in [Ip -> Doc \cup {None}]
  /\ ctime \in 0..MaxDocs
  /\ op \in {NoOp} \cup [kind : {"submit"}, doc : Doc]
                   \cup [kind : {"collect", "purge"}, scan : Scan, next : Doc \cup {None}]
                   \cup [kind : {"migrate"}, scan : Scan, next : Doc, deleted : Nat]
  /\ denied \subseteq Scan
  /\ kept \subseteq Scan
  /\ gone \subseteq Scan

\* Without faults the latest index shows, between operations, the most
\* recent document of each host, and nothing for a host without documents,
\* through any sequence of submissions and deletions.
LatestIsNewest ==
  faults = {} /\ op = NoOp => \A ip \in Ip :
    LET docs == {d \in history : d.ip = ip}
    IN IF docs = {} THEN latest[ip] = None ELSE latest[ip] \in LatestOf(docs)

\* Without faults a scan delete_scan returned for is in neither index until
\* it is submitted again: the migration does not bring it back.
DeletedScanIsGone ==
  faults = {} => \A s \in gone : /\ \A d \in history : d.scan # s
                                 /\ \A ip \in Ip : latest[ip] # None => latest[ip].scan # s

\* A result the agent was told is received stays in history until its scan
\* or host is deleted, whatever fails.
AcceptedScanIsKept == \A s \in kept : \E d \in history : d.scan = s

\* Without faults the page never tells an administrator that a scan could not
\* be deleted when it was: a scan has as many documents as the page expects.
\* (Submitted twice, it has one more.)
DeletionIsReported == faults = {} => denied = {}
=============================================================================
