-------------------------- MODULE RescanQueueProofs --------------------------
(***************************************************************************)
(* Proofs about RescanQueue, for every value of its constants.             *)
(***************************************************************************)
EXTENDS RescanQueue, FiniteSetTheorems, TLAPS

LEMMA PendingIsTask == ASSUME NEW table PROVE getPendingTasks(table) \subseteq Task
BY DEF getPendingTasks, Rows

LEMMA DispatchedIsTask == ASSUME NEW table PROVE getDispatchedTasks(table) \subseteq Task
BY DEF getDispatchedTasks, Rows

\* A query lists exactly the rows it selects, as a list of rows.
LEMMA ListingFacts ==
  ASSUME NEW S, S \subseteq Task, NEW s \in Listings(S)
  PROVE  s \in Seq(Task) /\ Range(s) = S
<1>1. Range(s) = S
  BY DEF Listings
<1>2. Cardinality(S) \in Nat
  BY ConstantsAssumption, FS_Subset, FS_CardinalityType
<1>3. s \in [1..Cardinality(S) -> Task]
  BY DEF Listings
<1> QED
  BY <1>1, <1>2, <1>3

\* The elements of two lists put together.
LEMMA ConcatRange ==
  ASSUME NEW p \in Seq(Task), NEW d \in Seq(Task)
  PROVE  Range(p \o d) = Range(p) \cup Range(d)
<1>1. ASSUME NEW x \in Range(p \o d) PROVE x \in Range(p) \cup Range(d)
  <2>1. PICK i \in 1..(Len(p) + Len(d)) : x = (p \o d)[i]
    BY <1>1 DEF Range
  <2>2. CASE i <= Len(p)
    BY <2>1, <2>2 DEF Range
  <2>3. CASE i > Len(p)
    <3>1. i - Len(p) \in 1..Len(d) /\ x = d[i - Len(p)]
      BY <2>1, <2>3
    <3> QED
      BY <3>1 DEF Range
  <2> QED
    BY <2>1, <2>2, <2>3
<1>2. ASSUME NEW x \in Range(p) PROVE x \in Range(p \o d)
  <2>1. PICK i \in 1..Len(p) : x = p[i]
    BY <1>2 DEF Range
  <2>2. i \in 1..Len(p \o d) /\ (p \o d)[i] = x
    BY <2>1
  <2> QED
    BY <2>2 DEF Range
<1>3. ASSUME NEW x \in Range(d) PROVE x \in Range(p \o d)
  <2>1. PICK i \in 1..Len(d) : x = d[i]
    BY <1>3 DEF Range
  <2>2. Len(p) + i \in 1..Len(p \o d) /\ (p \o d)[Len(p) + i] = x
    BY <2>1
  <2> QED
    BY <2>2 DEF Range
<1> QED
  BY <1>1, <1>2, <1>3

\* The lists rescan_host works on, whether it read them again or not.
LEMMA SeenLists ==
  ASSUME TypeOK, NEW p \in PendingSeen, NEW d \in DispatchedSeen
  PROVE  /\ p \in Seq(Task)
         /\ d \in Seq(Task)
         /\ Range(p \o d) = Range(p) \cup Range(d)
         /\ Range(p) \subseteq Task
         /\ Range(d) \subseteq Task
<1>1. p \in Seq(Task)
  BY PendingIsTask, ListingFacts DEF TypeOK, PendingSeen
<1>2. d \in Seq(Task)
  BY DispatchedIsTask, ListingFacts DEF TypeOK, DispatchedSeen
<1>3. Range(p) \subseteq Task /\ Range(d) \subseteq Task
  BY <1>1, <1>2 DEF Range
<1> QED
  BY <1>1, <1>2, <1>3, ConcatRange

\* Reading both lists again gives lists of rows.
LEMMA ReloadedLists ==
  ASSUME ReloadBoth
  PROVE  /\ pendCache' \in Seq(Task) /\ Range(pendCache') = getPendingTasks(task')
         /\ dispCache' \in Seq(Task) /\ Range(dispCache') = getDispatchedTasks(task')
         /\ expired' = {}
BY PendingIsTask, DispatchedIsTask, ListingFacts DEF ReloadBoth, ReloadDispatched

\* The row a dictionary entry stands for is a listed row with that target.
LEMMA LastForListed ==
  ASSUME NEW list \in Seq(Task), NEW ip, NEW t \in LastFor(list, ip)
  PROVE  t \in Range(list) /\ t \in Task /\ task[t].target = ip
BY DEF LastFor, Range

\* The list getwork takes its rescan from.
LEMMA SeenRescans ==
  ASSUME TypeOK, NEW rescans \in RescansSeen \ {<<>>}
  PROVE  /\ rescans \in Seq(Task)
         /\ rescans[1] \in Task
         /\ rescans[1] \in Range(rescans)
         /\ Range(rescans) \subseteq Task
<1>1. rescans \in Seq(Task)
  BY PendingIsTask, ListingFacts DEF TypeOK, RescansSeen
<1>2. 1 \in DOMAIN rescans
  BY <1>1
<1> QED
  BY <1>1, <1>2 DEF Range

\* A row mark_scan_completed stops at is in the dispatched list.
LEMMA HitsListed ==
  ASSUME TypeOK, NEW ip, NEW t \in Hits(ip)
  PROVE  t \in Range(dispCache) /\ t \in Task /\ dispCache # <<>>
         /\ (t \notin expired => task[t].target = ip)
BY DEF Hits, Range, TypeOK
-----------------------------------------------------------------------------
(* The inductive invariant *)

\* A row that was never inserted has all its columns empty.
UnusedRows == \A t \in Task : task[t].target = None => task[t] = Unused

\* OneOpenRequestPerTarget is not inductive alone: rescan_host decides on the
\* cached lists, so it needs them to be exact, and they are exact because every
\* handler that writes a row reads the list that the row leaves or joins.
IInv == TypeOK /\ CachesExact /\ OneOpenRequestPerTarget /\ UnusedRows

LEMMA InitIInv == Init => IInv
<1> SUFFICES ASSUME Init PROVE IInv
  OBVIOUS
<1>1. TypeOK
  BY ConstantsAssumption DEF Init, TypeOK, Row, Unused, Work
<1>2. CachesExact /\ UnusedRows
  BY DEF Init, CachesExact, UnusedRows
<1>3. OneOpenRequestPerTarget
  BY DEF Init, OneOpenRequestPerTarget, OpenTasks, getPendingTasks,
         getDispatchedTasks, Rows, Unused
<1> QED
  BY <1>1, <1>2, <1>3 DEF IInv

\* The rows rescan_host sees are the open ones.
LEMMA SeenRowsAreOpen ==
  ASSUME IInv, NEW p \in PendingSeen, NEW d \in DispatchedSeen
  PROVE  Range(p) = getPendingTasks(task) /\ Range(d) = getDispatchedTasks(task)
<1>1. CASE Reloads
  BY <1>1 DEF PendingSeen, DispatchedSeen, Listings
<1>2. CASE ~Reloads
  BY <1>2 DEF PendingSeen, DispatchedSeen, Reloads, IInv, CachesExact
<1> QED
  BY <1>1, <1>2

\* The rows getwork chooses from are the waiting ones.
LEMMA SeenRescansArePending ==
  ASSUME IInv, NEW rescans \in RescansSeen \ {<<>>}
  PROVE  Range(rescans) = getPendingTasks(task)
<1>1. CASE pendCache = <<>>
  BY <1>1 DEF RescansSeen, Listings
<1>2. CASE pendCache # <<>>
  BY <1>2 DEF RescansSeen, IInv, CachesExact
<1> QED
  BY <1>1, <1>2

\* Handlers that write no row keep the invariant if the lists they leave are
\* empty or exact.
LEMMA TableKept ==
  ASSUME IInv, task' = task, TypeOK', CachesExact' PROVE IInv'
BY DEF IInv, OneOpenRequestPerTarget, OpenTasks, getPendingTasks,
       getDispatchedTasks, Rows, UnusedRows

\* Handlers that write a row and read both lists again.
LEMMA TableWritten ==
  ASSUME TypeOK, ReloadBoth, task' \in [Task -> Row],
         refreshed' \subseteq Task, assigned' \in [ScanId -> Task \cup {None}],
         work' \in [Agent -> Work],
         UNCHANGED <<stored, posts, now>>
  PROVE  TypeOK' /\ CachesExact'
BY ReloadedLists DEF TypeOK, CachesExact

LEMMA RequestRescanStep ==
  ASSUME IInv, NEW ip \in Ip, RequestRescan(ip) PROVE IInv'
<1>1. PICK p \in PendingSeen, d \in DispatchedSeen, t \in Task \ Rows(task) :
        /\ \A u \in Range(p) \cup Range(d) : task[u].target # ip
        /\ \/ task' = [task EXCEPT ![t] = NewRescan(ip)] /\ ReloadBoth
           \/ RollBackSeen(p, d)
  BY DEF RequestRescan
<1>2. UNCHANGED <<refreshed, assigned, stored, work, posts, now>>
  BY DEF RequestRescan, agentVars
<1>3. TypeOK
  BY DEF IInv
<1>4. CASE RollBackSeen(p, d)
  <2>1. TypeOK'
    BY <1>2, <1>3, <1>4, SeenLists DEF TypeOK, RollBackSeen
  <2>2. CachesExact'
    BY <1>4, SeenRowsAreOpen DEF CachesExact, RollBackSeen
  <2> QED
    BY <1>4, <2>1, <2>2, TableKept DEF RollBackSeen
<1>5. CASE task' = [task EXCEPT ![t] = NewRescan(ip)] /\ ReloadBoth
  <2>1. NewRescan(ip) \in Row /\ NewRescan(ip).target = ip
        /\ ~NewRescan(ip).complete /\ ~NewRescan(ip).dispatched
    BY DEF NewRescan, Unused, Row
  <2>2. task' \in [Task -> Row]
    BY <1>3, <1>5, <2>1 DEF TypeOK
  <2>3. TypeOK' /\ CachesExact'
    BY <1>2, <1>3, <1>5, <2>2, TableWritten DEF TypeOK
  <2>4. OpenTasks(task') \subseteq OpenTasks(task) \cup {t}
    BY <1>3, <1>5 DEF TypeOK, OpenTasks, getPendingTasks, getDispatchedTasks, Rows
  <2>5. \A u \in OpenTasks(task) : task[u].target # ip
    BY <1>1, SeenRowsAreOpen DEF OpenTasks
  <2>6. t \notin OpenTasks(task)
    BY DEF OpenTasks, getPendingTasks, getDispatchedTasks
  <2>7. \A u \in OpenTasks(task) : task'[u] = task[u]
    BY <1>3, <1>5, <2>6, PendingIsTask, DispatchedIsTask DEF TypeOK, OpenTasks
  <2>8. task'[t].target = ip
    BY <1>3, <1>5, <2>1 DEF TypeOK
  <2>9. OneOpenRequestPerTarget'
    BY <2>4, <2>5, <2>7, <2>8 DEF IInv, OneOpenRequestPerTarget
  <2>10. UnusedRows'
    BY <1>3, <1>5, <2>1, ConstantsAssumption DEF IInv, UnusedRows, TypeOK
  <2> QED
    BY <2>3, <2>9, <2>10 DEF IInv
<1> QED
  BY <1>1, <1>4, <1>5

LEMMA ReportOutstandingStep ==
  ASSUME IInv, NEW ip \in Ip, ReportOutstanding(ip) PROVE IInv'
<1>1. PICK p \in PendingSeen, d \in DispatchedSeen : KeepSeen(p, d)
  BY DEF ReportOutstanding
<1>2. UNCHANGED <<task, refreshed, assigned, stored, work, posts, now>>
  BY DEF ReportOutstanding, agentVars
<1>3. TypeOK'
  BY <1>1, <1>2, SeenLists DEF IInv, TypeOK, KeepSeen
<1>4. CachesExact'
  BY <1>1, <1>2, SeenRowsAreOpen DEF CachesExact, KeepSeen
<1> QED
  BY <1>2, <1>3, <1>4, TableKept

\* A handler that neither opens a row nor changes a target.
LEMMA NoRowOpened ==
  ASSUME IInv, OpenTasks(task') \subseteq OpenTasks(task),
         \A u \in Task : task'[u].target = task[u].target
  PROVE  OneOpenRequestPerTarget'
BY PendingIsTask, DispatchedIsTask DEF IInv, OneOpenRequestPerTarget, OpenTasks

LEMMA RefreshStaleStep ==
  ASSUME IInv, NEW ip \in Ip, RefreshStale(ip) PROVE IInv'
<1>1. PICK p \in PendingSeen, d \in DispatchedSeen : \E t \in LastFor(p \o d, ip) :
        /\ \/ /\ task' = IF Reloads
                         THEN [task EXCEPT ![t].dispatched = FALSE]
                         ELSE task
              /\ ReloadBoth
              /\ refreshed' = refreshed \cup {t}
           \/ Reloads /\ RollBackSeen(p, d) /\ UNCHANGED refreshed
  BY DEF RefreshStale
<1>2. TypeOK /\ p \in Seq(Task) /\ d \in Seq(Task) /\ p \o d \in Seq(Task)
  BY SeenLists DEF IInv
<1>3. PICK t \in LastFor(p \o d, ip) :
        \/ /\ task' = IF Reloads
                      THEN [task EXCEPT ![t].dispatched = FALSE]
                      ELSE task
           /\ ReloadBoth
           /\ refreshed' = refreshed \cup {t}
        \/ RollBackSeen(p, d) /\ UNCHANGED refreshed
  BY <1>1
<1>4. UNCHANGED <<assigned, stored, work, posts, now>>
  BY DEF RefreshStale, agentVars
<1>5. t \in Task /\ t \in OpenTasks(task)
  BY <1>2, LastForListed, SeenLists, SeenRowsAreOpen DEF OpenTasks
<1>6. CASE RollBackSeen(p, d) /\ UNCHANGED refreshed
  <2>1. TypeOK'
    BY <1>2, <1>4, <1>6, SeenLists DEF TypeOK, RollBackSeen
  <2>2. CachesExact'
    BY <1>6, SeenRowsAreOpen DEF CachesExact, RollBackSeen
  <2> QED
    BY <1>6, <2>1, <2>2, TableKept DEF RollBackSeen
<1>7. CASE task' = task /\ ReloadBoth /\ refreshed' = refreshed \cup {t}
  <2>1. TypeOK' /\ CachesExact'
    BY <1>2, <1>4, <1>5, <1>7, TableWritten DEF TypeOK
  <2> QED
    BY <1>7, <2>1, TableKept
<1>8. CASE /\ task' = [task EXCEPT ![t].dispatched = FALSE]
           /\ ReloadBoth
           /\ refreshed' = refreshed \cup {t}
  <2>1. task' \in [Task -> Row]
    BY <1>2, <1>5, <1>8 DEF TypeOK, Row
  <2>2. TypeOK' /\ CachesExact'
    BY <1>2, <1>4, <1>5, <1>8, <2>1, TableWritten DEF TypeOK
  <2>3. OpenTasks(task') \subseteq OpenTasks(task)
    BY <1>2, <1>5, <1>8 DEF TypeOK, OpenTasks, getPendingTasks, getDispatchedTasks, Rows
  <2>4. \A u \in Task : task'[u].target = task[u].target
    BY <1>2, <1>5, <1>8 DEF TypeOK
  <2>5. UnusedRows'
    BY <1>2, <1>5, <1>8 DEF IInv, UnusedRows, TypeOK, OpenTasks, Rows,
                            getPendingTasks, getDispatchedTasks
  <2> QED
    BY <2>2, <2>3, <2>4, <2>5, NoRowOpened DEF IInv
<1> QED
  BY <1>3, <1>6, <1>7, <1>8

LEMMA AutoWorkStep ==
  ASSUME IInv, NEW a \in Agent, GetAutoWork(a) \/ FinishAutoWork(a) PROVE IInv'
<1>1. TypeOK'
  BY DEF IInv, TypeOK, GetAutoWork, FinishAutoWork, serverVars, Work
<1>2. CachesExact' /\ task' = task
  BY DEF IInv, CachesExact, GetAutoWork, FinishAutoWork, serverVars
<1> QED
  BY <1>1, <1>2, TableKept

LEMMA GetRescanStep ==
  ASSUME IInv, NEW a \in Agent, GetRescan(a) PROVE IInv'
<1>1. PICK rescans \in RescansSeen \ {<<>>} :
        /\ \E s \in ScanId :
             /\ assigned' = [assigned EXCEPT ![s] = rescans[1]]
             /\ \/ work' = [work EXCEPT ![a] =
                     [phase |-> "scan", scan |-> s, ip |-> task[rescans[1]].target]]
                \/ work' = work
        /\ MarkDispatched(rescans[1])
  BY DEF GetRescan
<1> DEFINE t == rescans[1]
<1>2. PICK s \in ScanId :
        /\ assigned' = [assigned EXCEPT ![s] = t]
        /\ \/ work' = [work EXCEPT ![a] =
                [phase |-> "scan", scan |-> s, ip |-> task[t].target]]
           \/ work' = work
  BY <1>1
<1>3. TypeOK /\ UNCHANGED <<stored, posts, now>>
  BY DEF IInv, GetRescan
<1>4. t \in Task /\ t \in getPendingTasks(task)
  BY <1>1, <1>3, SeenRescans, SeenRescansArePending
<1>5. task[t].target \in Ip
  BY <1>3, <1>4 DEF TypeOK, Row, getPendingTasks, Rows
<1> HIDE DEF t
<1>6. MarkDispatched(t)
  BY <1>1 DEF t
<1>7. task' = [task EXCEPT ![t].dispatched = TRUE, ![t].date = now] /\ ReloadBoth
  BY <1>6 DEF MarkDispatched
<1>8. task' \in [Task -> Row]
  BY <1>3, <1>4, <1>7 DEF TypeOK, Row
<1>9. work' \in [Agent -> Work]
  BY <1>2, <1>3, <1>5 DEF TypeOK, Work
<1>10. TypeOK' /\ CachesExact'
  <2>1. refreshed' \subseteq Task /\ assigned' \in [ScanId -> Task \cup {None}]
    BY <1>2, <1>3, <1>4, <1>6 DEF TypeOK, MarkDispatched
  <2> QED
    BY <1>3, <1>7, <1>8, <1>9, <2>1, TableWritten
<1>11. OpenTasks(task') \subseteq OpenTasks(task)
  BY <1>3, <1>4, <1>7 DEF TypeOK, OpenTasks, getPendingTasks, getDispatchedTasks, Rows
<1>12. \A u \in Task : task'[u].target = task[u].target
  BY <1>3, <1>4, <1>7 DEF TypeOK
<1>13. UnusedRows'
  BY <1>3, <1>4, <1>7 DEF IInv, UnusedRows, TypeOK, getPendingTasks, Rows
<1> QED
  BY <1>10, <1>11, <1>12, <1>13, NoRowOpened DEF IInv

LEMMA GetRescanFailsStep ==
  ASSUME IInv, NEW a \in Agent, GetRescanFails(a) PROVE IInv'
<1>1. PICK rescans \in RescansSeen \ {<<>>} :
        /\ pendCache' = rescans
        /\ \/ expired' = expired
           \/ expired' = expired \cup
                IF pendCache = <<>> THEN Range(rescans) ELSE {rescans[1]}
  BY DEF GetRescanFails
<1>2. UNCHANGED <<task, dispCache, refreshed, assigned, stored, work, posts, now>>
  BY DEF GetRescanFails, agentVars
<1>3. TypeOK'
  BY <1>1, <1>2, SeenRescans DEF IInv, TypeOK
<1>4. CachesExact'
  BY <1>1, <1>2, SeenRescansArePending DEF IInv, CachesExact
<1> QED
  BY <1>2, <1>3, <1>4, TableKept

LEMMA FinishScanStep ==
  ASSUME IInv, NEW a \in Agent, FinishScan(a) PROVE IInv'
<1>1. PICK r \in Result :
        LET post == [phase |-> "submit", agent |-> a, scan |-> work[a].scan,
                     ip |-> work[a].ip, result |-> r, attempt |-> 1]
        IN /\ work' = [work EXCEPT ![a] = post]
           /\ posts' = posts \cup {post}
  BY DEF FinishScan
<1>2. work[a].scan \in ScanId /\ work[a].ip \in Ip
  BY DEF IInv, TypeOK, Work, Post, FinishScan
<1>3. [phase |-> "submit", agent |-> a, scan |-> work[a].scan,
       ip |-> work[a].ip, result |-> r, attempt |-> 1] \in Post
  BY <1>2, ConstantsAssumption DEF Post
<1>4. UNCHANGED <<task, pendCache, dispCache, expired, refreshed, assigned, stored, now>>
  BY DEF FinishScan, serverVars
<1>5. TypeOK' /\ CachesExact'
  BY <1>1, <1>3, <1>4 DEF IInv, TypeOK, CachesExact, Work
<1> QED
  BY <1>4, <1>5, TableKept

\* A retry is a submission of one attempt more, and never exceeds max_retries.
LEMMA RetryType ==
  ASSUME TypeOK, NEW post \in Post, NEW inbox, inbox \subseteq Post, Retry(post, inbox)
  PROVE  work' \in [Agent -> Work] /\ posts' \subseteq Post
<1> DEFINE again == [post EXCEPT !.attempt = @ + 1]
<1>1. CASE post.attempt < MaxRetries
  <2>1. again \in Post
    BY <1>1, ConstantsAssumption DEF Post
  <2>2. work' = [work EXCEPT ![post.agent] = again] /\ posts' = inbox \cup {again}
    BY <1>1 DEF Retry
  <2> QED
    BY <2>1, <2>2 DEF TypeOK, Work
<1>2. CASE ~(post.attempt < MaxRetries)
  BY <1>2 DEF Retry, TypeOK, Work
<1> QED
  BY <1>1, <1>2

LEMMA ReplyType ==
  ASSUME TypeOK, NEW post \in posts, NEW ok \in BOOLEAN, Reply(post, ok)
  PROVE  work' \in [Agent -> Work] /\ posts' \subseteq Post
<1>1. post \in Post /\ posts \subseteq Post
  BY DEF TypeOK
<1>2. CASE work[post.agent] = post /\ ~ok
  BY <1>1, <1>2, RetryType DEF Reply
<1>3. CASE work[post.agent] = post /\ ok
  BY <1>1, <1>3 DEF Reply, TypeOK, Work
<1>4. CASE work[post.agent] # post
  BY <1>1, <1>4 DEF Reply, TypeOK
<1> QED
  BY <1>2, <1>3, <1>4

LEMMA AgentFaultStep ==
  ASSUME IInv, NEW a \in Agent, TimeOut(a) \/ AgentCrash(a) PROVE IInv'
<1>1. UNCHANGED <<task, pendCache, dispCache, expired, refreshed, assigned, stored, now>>
  BY DEF TimeOut, AgentCrash, serverVars
<1>2. work' \in [Agent -> Work] /\ posts' \subseteq Post
  <2>1. CASE TimeOut(a)
    <3>1. work[a] \in Post
      BY <2>1 DEF IInv, TypeOK, Work, TimeOut
    <3> QED
      BY <2>1, <3>1, RetryType DEF IInv, TypeOK, TimeOut
  <2>2. CASE AgentCrash(a)
    BY <2>2 DEF IInv, TypeOK, AgentCrash, Work
  <2> QED
    BY <2>1, <2>2
<1>3. TypeOK' /\ CachesExact'
  BY <1>1, <1>2 DEF IInv, TypeOK, CachesExact
<1> QED
  BY <1>1, <1>3, TableKept

LEMMA StoreResultType ==
  ASSUME TypeOK, NEW post \in posts, StoreResult(post) \/ StoreFails(post)
  PROVE  stored' \subseteq ScanId /\ work' \in [Agent -> Work] /\ posts' \subseteq Post
<1>1. post.scan \in ScanId
  BY DEF TypeOK, Post
<1>2. stored' \subseteq ScanId
  BY <1>1 DEF StoreResult, StoreFails, TypeOK
<1>3. Reply(post, TRUE) \/ Reply(post, FALSE)
  BY DEF StoreResult, StoreFails
<1> QED
  BY <1>2, <1>3, ReplyType

LEMMA SubmitUnmatchedStep ==
  ASSUME IInv, NEW post \in posts, SubmitUnmatched(post) PROVE IInv'
<1>1. UNCHANGED <<task, pendCache, dispCache, expired, refreshed, assigned, now>>
  BY DEF SubmitUnmatched, serverVars
<1>2. stored' \subseteq ScanId /\ work' \in [Agent -> Work] /\ posts' \subseteq Post
  BY StoreResultType DEF IInv, SubmitUnmatched
<1>3. TypeOK' /\ CachesExact'
  BY <1>1, <1>2 DEF IInv, TypeOK, CachesExact
<1> QED
  BY <1>1, <1>3, TableKept

LEMMA SubmitCompletesStep ==
  ASSUME IInv, NEW post \in posts, SubmitCompletes(post) PROVE IInv'
<1>1. PICK t \in Hits(post.ip) \ expired :
        CompleteTask(t, post.scan) /\ refreshed' = refreshed \ {t}
  BY DEF SubmitCompletes
<1>2. ReloadDispatched /\ UNCHANGED <<pendCache, assigned, now>>
  BY DEF SubmitCompletes
<1>3. TypeOK
  BY DEF IInv
<1>4. stored' \subseteq ScanId /\ work' \in [Agent -> Work] /\ posts' \subseteq Post
  BY <1>3, StoreResultType DEF SubmitCompletes
<1>5. t \in Task /\ t \in getDispatchedTasks(task)
  BY <1>3, HitsListed DEF IInv, CachesExact
<1>6. post.scan \in ScanId
  BY <1>3 DEF TypeOK, Post
<1>7. task' = [task EXCEPT ![t].complete = TRUE, ![t].scan = post.scan]
  BY <1>1 DEF CompleteTask
<1>8. task' \in [Task -> Row]
  BY <1>3, <1>5, <1>6, <1>7 DEF TypeOK, Row
<1>9. dispCache' \in Seq(Task) /\ Range(dispCache') = getDispatchedTasks(task')
  BY <1>2, DispatchedIsTask, ListingFacts DEF ReloadDispatched
<1>10. TypeOK'
  <2>1. expired' \subseteq expired \cup Range(dispCache')
    BY DEF SubmitCompletes
  <2>2. getDispatchedTasks(task') \subseteq Task
    BY DispatchedIsTask
  <2>3. expired' \subseteq Task
    BY <1>3, <1>9, <2>1, <2>2 DEF TypeOK
  <2> QED
    BY <1>1, <1>2, <1>3, <1>4, <1>8, <1>9, <2>3 DEF TypeOK
<1>11. getPendingTasks(task') = getPendingTasks(task)
  BY <1>3, <1>5, <1>7 DEF TypeOK, getPendingTasks, getDispatchedTasks, Rows
<1>12. CachesExact'
  BY <1>2, <1>9, <1>11 DEF IInv, CachesExact
<1>13. OpenTasks(task') \subseteq OpenTasks(task)
  BY <1>3, <1>5, <1>7 DEF TypeOK, OpenTasks, getPendingTasks, getDispatchedTasks, Rows
<1>14. \A u \in Task : task'[u].target = task[u].target
  BY <1>3, <1>5, <1>7 DEF TypeOK
<1>15. UnusedRows'
  BY <1>3, <1>5, <1>7 DEF IInv, UnusedRows, TypeOK, getDispatchedTasks, Rows
<1> QED
  BY <1>10, <1>12, <1>13, <1>14, <1>15, NoRowOpened DEF IInv

LEMMA SubmitRefusedStep ==
  ASSUME IInv, NEW post \in posts, SubmitConflict(post) \/ SubmitDetached(post)
  PROVE  IInv'
<1>1. Reply(post, FALSE)
  BY DEF SubmitConflict, SubmitDetached
<1>2. work' \in [Agent -> Work] /\ posts' \subseteq Post
  BY <1>1, ReplyType DEF IInv
<1>3. UNCHANGED <<task, pendCache, dispCache, refreshed, assigned, stored, now>>
  BY DEF SubmitConflict, SubmitDetached, serverVars
<1>4. expired' \subseteq Task
  BY HitsListed DEF IInv, TypeOK, SubmitConflict, SubmitDetached, serverVars
<1>5. TypeOK' /\ CachesExact'
  BY <1>2, <1>3, <1>4 DEF IInv, TypeOK, CachesExact
<1> QED
  BY <1>3, <1>5, TableKept

LEMMA ServerRestartStep == ASSUME IInv, ServerRestart PROVE IInv'
<1>1. UNCHANGED <<task, refreshed, assigned, stored, work, posts, now>>
  BY DEF ServerRestart, agentVars
<1>2. TypeOK' /\ CachesExact'
  BY <1>1 DEF IInv, TypeOK, CachesExact, ServerRestart
<1> QED
  BY <1>1, <1>2, TableKept

LEMMA TickStep == ASSUME IInv, Tick PROVE IInv'
<1>1. UNCHANGED <<task, pendCache, dispCache, expired, refreshed, assigned, stored,
                  work, posts>>
  BY DEF Tick, serverVars, agentVars
<1>2. now' \in 0..MaxTime
  BY ConstantsAssumption DEF IInv, TypeOK, Tick
<1>3. TypeOK' /\ CachesExact'
  BY <1>1, <1>2 DEF IInv, TypeOK, CachesExact
<1> QED
  BY <1>1, <1>3, TableKept

LEMMA StutterStep == ASSUME IInv, UNCHANGED vars PROVE IInv'
<1>1. TypeOK' /\ CachesExact'
  BY DEF IInv, TypeOK, CachesExact, vars
<1> QED
  BY <1>1, TableKept DEF vars

LEMMA NextIInv == IInv /\ [Next]_vars => IInv'
<1> SUFFICES ASSUME IInv, [Next]_vars PROVE IInv'
  OBVIOUS
<1>1. ASSUME NEW ip \in Ip,
             RequestRescan(ip) \/ ReportOutstanding(ip) \/ RefreshStale(ip)
      PROVE  IInv'
  BY <1>1, RequestRescanStep, ReportOutstandingStep, RefreshStaleStep
<1>2. ASSUME NEW a \in Agent,
             \/ GetAutoWork(a) \/ FinishAutoWork(a) \/ GetRescan(a) \/ GetRescanFails(a)
             \/ FinishScan(a) \/ TimeOut(a) \/ AgentCrash(a)
      PROVE  IInv'
  BY <1>2, AutoWorkStep, GetRescanStep, GetRescanFailsStep, FinishScanStep, AgentFaultStep
<1>3. ASSUME NEW post \in posts, Submit(post) PROVE IInv'
  BY <1>3, SubmitUnmatchedStep, SubmitCompletesStep, SubmitRefusedStep DEF Submit
<1> QED
  BY <1>1, <1>2, <1>3, ServerRestartStep, TickStep, StutterStep DEF Next

\* The inductive invariant holds in every reachable state.
THEOREM Invariance == Spec => []IInv
BY InitIInv, NextIInv, PTL DEF Spec

\* The variables have their types.
THEOREM TypeCorrect == Spec => []TypeOK
<1>1. IInv => TypeOK
  BY DEF IInv
<1> QED
  BY <1>1, Invariance, PTL

\* The lists ScopeManager caches are empty or exact, through restarts, failed
\* commits, lost replies and retries.
THEOREM CachesAreExact == Spec => []CachesExact
<1>1. IInv => CachesExact
  BY DEF IInv
<1> QED
  BY <1>1, Invariance, PTL

\* A target never has two open rescan requests.
THEOREM OneOpenRequest == Spec => []OneOpenRequestPerTarget
<1>1. IInv => OneOpenRequestPerTarget
  BY DEF IInv
<1> QED
  BY <1>1, Invariance, PTL
-----------------------------------------------------------------------------
(* RescanQueue implements RescanLifecycle *)

LEMMA StageFacts ==
  ASSUME NEW table \in [Task -> Row], NEW t \in Task
  PROVE  /\ Stage(table[t]) = "absent" <=> t \notin Rows(table)
         /\ Stage(table[t]) = "pending" <=> t \in getPendingTasks(table)
         /\ Stage(table[t]) = "dispatched" <=> t \in getDispatchedTasks(table)
BY DEF Stage, Rows, getPendingTasks, getDispatchedTasks, Row

LEMMA InitRefines == Init => Lifecycle!Init
BY DEF Init, Lifecycle!Init, Stage, Unused

\* How the abstract variables see the update of one row.
LEMMA RowUpdate ==
  ASSUME TypeOK, NEW t \in Task, NEW row \in Row, task' = [task EXCEPT ![t] = row]
  PROVE  /\ [u \in Task |-> Stage(task'[u])] =
              [[u \in Task |-> Stage(task[u])] EXCEPT ![t] = Stage(row)]
         /\ [u \in Task |-> task'[u].target] =
              [[u \in Task |-> task[u].target] EXCEPT ![t] = row.target]
         /\ [u \in Task |-> task'[u].scan] =
              [[u \in Task |-> task[u].scan] EXCEPT ![t] = row.scan]
BY DEF TypeOK

\* A handler that writes no row is a stuttering step.
LEMMA TableKeptStutters == ASSUME task' = task PROVE UNCHANGED Lifecycle!lifeVars
BY DEF Lifecycle!lifeVars

LEMMA RequestRefines ==
  ASSUME IInv, NEW ip \in Ip, RequestRescan(ip)
  PROVE  [Lifecycle!Next]_Lifecycle!lifeVars
<1>1. PICK p \in PendingSeen, d \in DispatchedSeen, t \in Task \ Rows(task) :
        /\ \A u \in Range(p) \cup Range(d) : task[u].target # ip
        /\ task' = [task EXCEPT ![t] = NewRescan(ip)] \/ task' = task
  BY DEF RequestRescan, RollBackSeen
<1>2. TypeOK /\ task \in [Task -> Row]
  BY DEF IInv, TypeOK
<1>3. CASE task' = [task EXCEPT ![t] = NewRescan(ip)]
  <2>1. NewRescan(ip) \in Row /\ NewRescan(ip).target = ip /\ NewRescan(ip).scan = None
    BY DEF NewRescan, Unused, Row
  <2>2. Stage(NewRescan(ip)) = "pending"
    BY ConstantsAssumption DEF NewRescan, Unused, Stage
  <2>3. Stage(task[t]) = "absent"
    BY <1>2, StageFacts
  <2>4. \A u \in Task : Stage(task[u]) \in {"pending", "dispatched"} => task[u].target # ip
    BY <1>1, <1>2, StageFacts, SeenRowsAreOpen
  <2>5. task[t].scan = None
    BY DEF IInv, UnusedRows, Rows, Unused
  <2>6. [u \in Task |-> task'[u].scan] = [u \in Task |-> task[u].scan]
    BY <1>2, <1>3, <2>1, <2>5
  <2>7. Lifecycle!Request(t, ip)
    BY <1>2, <1>3, <2>1, <2>2, <2>3, <2>4, <2>6, RowUpdate
    DEF Lifecycle!Request, Lifecycle!Open
  <2> QED
    BY <2>7 DEF Lifecycle!Next
<1> QED
  BY <1>1, <1>3, TableKeptStutters

LEMMA RefreshRefines ==
  ASSUME IInv, NEW ip \in Ip, RefreshStale(ip)
  PROVE  [Lifecycle!Next]_Lifecycle!lifeVars
<1>1. PICK p \in PendingSeen, d \in DispatchedSeen : \E t \in LastFor(p \o d, ip) :
        /\ Stale(t)
        /\ task' = [task EXCEPT ![t].dispatched = FALSE] \/ task' = task
  BY DEF RefreshStale, RollBackSeen
<1>2. TypeOK /\ task \in [Task -> Row] /\ p \o d \in Seq(Task)
  BY SeenLists DEF IInv, TypeOK
<1>3. PICK t \in LastFor(p \o d, ip) :
        /\ Stale(t)
        /\ task' = [task EXCEPT ![t].dispatched = FALSE] \/ task' = task
  BY <1>1
<1>4. t \in Task /\ t \in OpenTasks(task) /\ task[t].dispatched
  <2>1. t \in Task /\ t \in OpenTasks(task)
    BY <1>2, LastForListed, SeenLists, SeenRowsAreOpen DEF OpenTasks
  <2>2. task[t].dispatched
    BY <1>3 DEF Stale
  <2> QED
    BY <2>1, <2>2
<1>5. CASE task' = [task EXCEPT ![t].dispatched = FALSE]
  <2> DEFINE row == [task[t] EXCEPT !.dispatched = FALSE]
  <2>1. row \in Row /\ row.target = task[t].target /\ row.scan = task[t].scan
    BY <1>2, <1>4 DEF Row
  <2>2. Stage(task[t]) = "dispatched" /\ Stage(row) = "pending"
    BY <1>2, <1>4 DEF OpenTasks, getPendingTasks, getDispatchedTasks, Rows, Stage, Row
  <2>3. task' = [task EXCEPT ![t] = row]
    BY <1>5
  <2> HIDE DEF row
  <2>4. Lifecycle!Refresh(t)
    BY <1>2, <1>4, <2>1, <2>2, <2>3, RowUpdate DEF Lifecycle!Refresh
  <2> QED
    BY <1>4, <2>4 DEF Lifecycle!Next
<1> QED
  BY <1>3, <1>5, TableKeptStutters

LEMMA DispatchRefines ==
  ASSUME IInv, NEW a \in Agent, GetRescan(a)
  PROVE  [Lifecycle!Next]_Lifecycle!lifeVars
<1>1. PICK rescans \in RescansSeen \ {<<>>} : MarkDispatched(rescans[1])
  BY DEF GetRescan
<1> DEFINE t == rescans[1]
<1>2. TypeOK /\ task \in [Task -> Row] /\ now \in 0..MaxTime
  BY DEF IInv, TypeOK
<1>3. t \in Task /\ t \in getPendingTasks(task)
  BY <1>1, <1>2, SeenRescans, SeenRescansArePending
<1> HIDE DEF t
<1>4. MarkDispatched(t)
  BY <1>1 DEF t
<1> DEFINE row == [task[t] EXCEPT !.dispatched = TRUE, !.date = now]
<1>5. task' = [task EXCEPT ![t] = row]
  BY <1>4 DEF MarkDispatched
<1>6. row \in Row /\ row.target = task[t].target /\ row.scan = task[t].scan
  BY <1>2, <1>3 DEF Row
<1>7. Stage(task[t]) = "pending" /\ Stage(row) = "dispatched"
  BY <1>2, <1>3 DEF getPendingTasks, Rows, Stage, Row
<1> HIDE DEF row
<1>8. Lifecycle!Dispatch(t)
  BY <1>2, <1>3, <1>5, <1>6, <1>7, RowUpdate DEF Lifecycle!Dispatch
<1> QED
  BY <1>3, <1>8 DEF Lifecycle!Next

LEMMA CompleteRefines ==
  ASSUME IInv, NEW post \in posts, SubmitCompletes(post)
  PROVE  [Lifecycle!Next]_Lifecycle!lifeVars
<1>1. PICK t \in Hits(post.ip) \ expired :
        ScanIdFree(post.scan) /\ CompleteTask(t, post.scan)
  BY DEF SubmitCompletes
<1>2. TypeOK /\ task \in [Task -> Row] /\ post.scan \in ScanId
  BY DEF IInv, TypeOK, Post
<1>3. t \in Task /\ t \in getDispatchedTasks(task)
  BY <1>2, HitsListed DEF IInv, CachesExact
<1> DEFINE row == [task[t] EXCEPT !.complete = TRUE, !.scan = post.scan]
<1>4. task' = [task EXCEPT ![t] = row]
  BY <1>1 DEF CompleteTask
<1>5. row \in Row /\ row.target = task[t].target /\ row.scan = post.scan
  BY <1>2, <1>3 DEF Row
<1>6. Stage(task[t]) = "dispatched" /\ Stage(row) = "complete"
  BY <1>2, <1>3 DEF getDispatchedTasks, Rows, Stage, Row
<1> HIDE DEF row
<1>7. Lifecycle!Complete(t, post.scan)
  BY <1>1, <1>2, <1>3, <1>4, <1>5, <1>6, RowUpdate DEF Lifecycle!Complete, ScanIdFree
<1> QED
  BY <1>2, <1>3, <1>7 DEF Lifecycle!Next

LEMMA NextRefines == IInv /\ [Next]_vars => [Lifecycle!Next]_Lifecycle!lifeVars
<1> SUFFICES ASSUME IInv, [Next]_vars PROVE [Lifecycle!Next]_Lifecycle!lifeVars
  OBVIOUS
<1>1. ASSUME NEW ip \in Ip,
             RequestRescan(ip) \/ ReportOutstanding(ip) \/ RefreshStale(ip)
      PROVE  [Lifecycle!Next]_Lifecycle!lifeVars
  BY <1>1, RequestRefines, RefreshRefines, TableKeptStutters DEF ReportOutstanding
<1>2. ASSUME NEW a \in Agent,
             \/ GetAutoWork(a) \/ FinishAutoWork(a) \/ GetRescanFails(a)
             \/ FinishScan(a) \/ TimeOut(a) \/ AgentCrash(a)
      PROVE  [Lifecycle!Next]_Lifecycle!lifeVars
  <2>1. task' = task
    BY <1>2 DEF GetAutoWork, FinishAutoWork, GetRescanFails, FinishScan, TimeOut,
                AgentCrash, serverVars
  <2> QED
    BY <2>1, TableKeptStutters
<1>3. ASSUME NEW post \in posts,
             SubmitUnmatched(post) \/ SubmitConflict(post) \/ SubmitDetached(post)
      PROVE  [Lifecycle!Next]_Lifecycle!lifeVars
  <2>1. task' = task
    BY <1>3 DEF SubmitUnmatched, SubmitConflict, SubmitDetached, serverVars
  <2> QED
    BY <2>1, TableKeptStutters
<1>4. CASE ServerRestart \/ Tick \/ UNCHANGED vars
  <2>1. task' = task
    BY <1>4 DEF ServerRestart, Tick, serverVars, vars
  <2> QED
    BY <2>1, TableKeptStutters
<1> QED
  BY <1>1, <1>2, <1>3, <1>4, DispatchRefines, CompleteRefines DEF Next, Submit

\* Every behaviour of the queue, seen through its rows, is a behaviour of
\* RescanLifecycle: requests only move forward or back to waiting, one scan
\* answers one request, and a completed row is never written again.
THEOREM Refinement == Spec => LifecycleSpec
BY InitRefines, NextRefines, Invariance, PTL DEF Spec, LifecycleSpec, Lifecycle!Spec
=============================================================================
