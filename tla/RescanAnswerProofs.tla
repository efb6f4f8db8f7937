------------------------- MODULE RescanAnswerProofs -------------------------
(***************************************************************************)
(* Proof that a rescan request is only ever completed by a scan that was   *)
(* drawn for a request of the same target, although mark_scan_completed    *)
(* compares addresses and not scans.                                       *)
(***************************************************************************)
EXTENDS RescanQueueProofs

\* Scan s was drawn for a request of ip.
DrawnFor(s, ip) == assigned[s] \in Task /\ task[assigned[s]].target = ip

\* The same after the step, of the scan and the target as they were before it.
WillBeDrawnFor(s, ip) == assigned'[s] \in Task /\ task'[assigned'[s]].target = ip

\* The invariant follows a scan id from getwork to the row it completes: in
\* the hands of a thread, in a submission under way, in the row.
ScanOf(record) == record.scan \in ScanId /\ record.ip \in Ip
                    /\ DrawnFor(record.scan, record.ip)
WorkDrawn == \A a \in Agent : work[a].phase \in {"scan", "submit"} => ScanOf(work[a])
PostsDrawn == \A post \in posts : ScanOf(post)
RowDrawn(t) == task[t].scan \in ScanId /\ task[t].target \in Ip
                 /\ DrawnFor(task[t].scan, task[t].target)
RowsDrawn == \A t \in Task : task[t].complete => RowDrawn(t)
Drawn == WorkDrawn /\ PostsDrawn /\ RowsDrawn

LEMMA InitDrawn == Init => Drawn
BY DEF Init, Drawn, WorkDrawn, PostsDrawn, RowsDrawn, Unused

-----------------------------------------------------------------------------
(* What no step takes back: the target of a row, the row of a scan *)

TargetsKept == \A t \in Task : task[t].target # None => task'[t].target = task[t].target
AssignedKept == \A s \in ScanId : assigned[s] \in Task => assigned'[s] = assigned[s]

LEMMA DrawnForKept ==
  ASSUME TargetsKept, AssignedKept, NEW s \in ScanId, NEW ip \in Ip, DrawnFor(s, ip)
  PROVE  WillBeDrawnFor(s, ip)
BY ConstantsAssumption DEF TargetsKept, AssignedKept, DrawnFor, WillBeDrawnFor

LEMMA TableUnchangedKeeps ==
  ASSUME task' = task, assigned' = assigned PROVE TargetsKept /\ AssignedKept
BY DEF TargetsKept, AssignedKept

LEMMA RequestKeeps ==
  ASSUME TypeOK, NEW ip \in Ip, RequestRescan(ip)
  PROVE  TargetsKept /\ AssignedKept /\ \A t \in Task : task'[t].complete => task'[t] = task[t]
<1>1. \/ task' = task
      \/ \E t \in Task \ Rows(task) : task' = [task EXCEPT ![t] = NewRescan(ip)]
  BY DEF RequestRescan, RollBackSeen
<1>2. assigned' = assigned
  BY DEF RequestRescan
<1> QED
  BY <1>1, <1>2 DEF TypeOK, TargetsKept, AssignedKept, Rows, NewRescan, Unused

LEMMA RefreshKeeps ==
  ASSUME TypeOK, NEW ip \in Ip, RefreshStale(ip)
  PROVE  /\ TargetsKept /\ AssignedKept
         /\ \A t \in Task : /\ task'[t].complete = task[t].complete
                            /\ task'[t].scan = task[t].scan
                            /\ task'[t].target = task[t].target
<1>1. task' = task \/ \E t : task' = [task EXCEPT ![t].dispatched = FALSE]
  BY DEF RefreshStale, RollBackSeen
<1>2. assigned' = assigned
  BY DEF RefreshStale
<1>3. \A t \in Task : /\ task'[t].complete = task[t].complete
                      /\ task'[t].scan = task[t].scan
                      /\ task'[t].target = task[t].target
  BY <1>1 DEF TypeOK, Row
<1> QED
  BY <1>2, <1>3 DEF TargetsKept, AssignedKept

LEMMA DispatchKeeps ==
  ASSUME IInv, NEW a \in Agent, GetRescan(a)
  PROVE  /\ TargetsKept /\ AssignedKept
         /\ \A t \in Task : /\ task'[t].complete = task[t].complete
                            /\ task'[t].scan = task[t].scan
                            /\ task'[t].target = task[t].target
         /\ \/ work' = work
            \/ \E t \in Task, s \in ScanId :
                 /\ work' = [work EXCEPT ![a] =
                               [phase |-> "scan", scan |-> s, ip |-> task[t].target]]
                 /\ task[t].target \in Ip
                 /\ assigned'[s] = t
<1>1. PICK rescans \in RescansSeen \ {<<>>} :
        /\ \E s \in ScanId :
             /\ assigned[s] = None
             /\ assigned' = [assigned EXCEPT ![s] = rescans[1]]
             /\ \/ work' = [work EXCEPT ![a] =
                     [phase |-> "scan", scan |-> s, ip |-> task[rescans[1]].target]]
                \/ work' = work
        /\ MarkDispatched(rescans[1])
  BY DEF GetRescan
<1> DEFINE t == rescans[1]
<1>2. TypeOK
  BY DEF IInv
<1>3. t \in Task /\ t \in getPendingTasks(task)
  BY <1>1, <1>2, SeenRescans, SeenRescansArePending
<1>4. task[t].target \in Ip
  BY <1>2, <1>3 DEF TypeOK, Row, getPendingTasks, Rows
<1>5. PICK s \in ScanId :
        /\ assigned[s] = None
        /\ assigned' = [assigned EXCEPT ![s] = t]
        /\ \/ work' = [work EXCEPT ![a] =
                [phase |-> "scan", scan |-> s, ip |-> task[t].target]]
           \/ work' = work
  BY <1>1
<1>6. task' = [task EXCEPT ![t].dispatched = TRUE, ![t].date = now]
  BY <1>1 DEF MarkDispatched
<1> HIDE DEF t
<1>7. \A u \in Task : /\ task'[u].complete = task[u].complete
                      /\ task'[u].scan = task[u].scan
                      /\ task'[u].target = task[u].target
  BY <1>2, <1>3, <1>6 DEF TypeOK, Row
<1>8. AssignedKept /\ assigned'[s] = t
  BY <1>2, <1>5, ConstantsAssumption DEF AssignedKept, TypeOK
<1> QED
  BY <1>3, <1>4, <1>5, <1>7, <1>8 DEF TargetsKept

-----------------------------------------------------------------------------
(* What a thread or a submission carries on *)

\* After the step only scan s of ip is in hands it was not in before.
Carries(s, ip) ==
  /\ \A a \in Agent : work'[a].phase \in {"scan", "submit"} =>
       \/ work'[a] = work[a]
       \/ work'[a].scan = s /\ work'[a].ip = ip
  /\ \A post \in posts' : post \in posts \/ (post.scan = s /\ post.ip = ip)

LEMMA CarriedIsDrawn ==
  ASSUME WorkDrawn, PostsDrawn, TargetsKept, AssignedKept,
         NEW s \in ScanId, NEW ip \in Ip, Carries(s, ip), WillBeDrawnFor(s, ip)
  PROVE  WorkDrawn' /\ PostsDrawn'
<1>1. ASSUME NEW a \in Agent, work'[a].phase \in {"scan", "submit"}
      PROVE  ScanOf(work[a])'
  <2>1. CASE work'[a] = work[a]
    BY <1>1, <2>1, DrawnForKept DEF WorkDrawn, ScanOf, DrawnFor, WillBeDrawnFor
  <2>2. CASE work'[a].scan = s /\ work'[a].ip = ip
    BY <2>2 DEF ScanOf, DrawnFor, WillBeDrawnFor
  <2> QED
    BY <1>1, <2>1, <2>2 DEF Carries
<1>2. ASSUME NEW post \in posts'
      PROVE  ScanOf(post)'
  <2>1. CASE post \in posts
    BY <2>1, DrawnForKept DEF PostsDrawn, ScanOf, DrawnFor, WillBeDrawnFor
  <2>2. CASE post.scan = s /\ post.ip = ip
    BY <2>2 DEF ScanOf, DrawnFor, WillBeDrawnFor
  <2> QED
    BY <1>2, <2>1, <2>2 DEF Carries
<1> QED
  BY <1>1, <1>2 DEF WorkDrawn, PostsDrawn

\* A retry carries the scan of the submission.
LEMMA RetryCarries ==
  ASSUME TypeOK, NEW post \in Post, NEW inbox, inbox \subseteq posts, Retry(post, inbox)
  PROVE  Carries(post.scan, post.ip)
<1> DEFINE again == [post EXCEPT !.attempt = @ + 1]
<1>1. again.scan = post.scan /\ again.ip = post.ip /\ post.agent \in Agent
  BY DEF Post
<1>2. CASE post.attempt < MaxRetries
  <2>1. work' = [work EXCEPT ![post.agent] = again] /\ posts' = inbox \cup {again}
    BY <1>2 DEF Retry
  <2> HIDE DEF again
  <2> QED
    BY <1>1, <2>1 DEF Carries, TypeOK
<1>3. CASE ~(post.attempt < MaxRetries)
  BY <1>3 DEF Retry, Carries, TypeOK
<1> QED
  BY <1>2, <1>3

LEMMA ReplyCarries ==
  ASSUME TypeOK, NEW post \in posts, NEW ok \in BOOLEAN, Reply(post, ok)
  PROVE  Carries(post.scan, post.ip)
<1>1. post \in Post
  BY DEF TypeOK
<1>2. CASE work[post.agent] = post /\ ~ok
  BY <1>1, <1>2, RetryCarries DEF Reply
<1>3. CASE work[post.agent] = post /\ ok
  BY <1>1, <1>3 DEF Reply, Carries, TypeOK
<1>4. CASE work[post.agent] # post
  BY <1>4 DEF Reply, Carries
<1> QED
  BY <1>2, <1>3, <1>4

\* Every way through submit ends with a reply.
LEMMA SubmitCarries ==
  ASSUME TypeOK, NEW post \in posts, Submit(post)
  PROVE  Carries(post.scan, post.ip)
<1>1. Reply(post, TRUE) \/ Reply(post, FALSE)
  BY DEF Submit, SubmitUnmatched, SubmitCompletes, SubmitConflict, SubmitDetached,
         StoreResult, StoreFails
<1> QED
  BY <1>1, ReplyCarries
-----------------------------------------------------------------------------
(* Every step keeps the invariant *)

\* A completed row keeps its scan, and no step completes a row unnoticed.
LEMMA RowsStayDrawn ==
  ASSUME RowsDrawn, TargetsKept, AssignedKept,
         \A t \in Task : task'[t].complete =>
           /\ task[t].complete
           /\ task'[t].scan = task[t].scan
           /\ task'[t].target = task[t].target
  PROVE  RowsDrawn'
<1>1. ASSUME NEW t \in Task, task'[t].complete PROVE RowDrawn(t)'
  <2>1. /\ task[t].scan \in ScanId /\ task[t].target \in Ip
        /\ DrawnFor(task[t].scan, task[t].target)
    BY <1>1 DEF RowsDrawn, RowDrawn
  <2>2. task'[t].scan = task[t].scan /\ task'[t].target = task[t].target
    BY <1>1
  <2>3. WillBeDrawnFor(task[t].scan, task[t].target)
    BY <2>1, DrawnForKept
  <2> QED
    BY <2>1, <2>2, <2>3 DEF RowDrawn, DrawnFor, WillBeDrawnFor
<1> QED
  BY <1>1 DEF RowsDrawn

\* A step that starts no scan and posts nothing.
LEMMA HandsStayDrawn ==
  ASSUME WorkDrawn, PostsDrawn, TargetsKept, AssignedKept, posts' \subseteq posts,
         \A a \in Agent : work'[a].phase \in {"scan", "submit"} => work'[a] = work[a]
  PROVE  WorkDrawn' /\ PostsDrawn'
<1>1. ASSUME NEW a \in Agent, work'[a].phase \in {"scan", "submit"}
      PROVE  ScanOf(work[a])'
  BY <1>1, DrawnForKept DEF WorkDrawn, ScanOf, DrawnFor, WillBeDrawnFor
<1>2. ASSUME NEW post \in posts' PROVE ScanOf(post)'
  BY <1>2, DrawnForKept DEF PostsDrawn, ScanOf, DrawnFor, WillBeDrawnFor
<1> QED
  BY <1>1, <1>2 DEF WorkDrawn, PostsDrawn

\* The handlers of the rescan button.
LEMMA UserKeepsDrawn ==
  ASSUME TypeOK, Drawn, NEW ip \in Ip,
         RequestRescan(ip) \/ ReportOutstanding(ip) \/ RefreshStale(ip)
  PROVE  Drawn'
<1>1. TargetsKept /\ AssignedKept
  BY RequestKeeps, RefreshKeeps, TableUnchangedKeeps DEF ReportOutstanding
<1>2. \A t \in Task : task'[t].complete =>
        /\ task[t].complete
        /\ task'[t].scan = task[t].scan
        /\ task'[t].target = task[t].target
  BY RequestKeeps, RefreshKeeps DEF ReportOutstanding
<1>3. work' = work /\ posts' = posts
  BY DEF RequestRescan, ReportOutstanding, RefreshStale, agentVars
<1> QED
  BY <1>1, <1>2, <1>3, RowsStayDrawn, HandsStayDrawn DEF Drawn

\* getwork draws a scan for a row and hands out the target of that row.
LEMMA GetRescanKeepsDrawn ==
  ASSUME IInv, Drawn, NEW a \in Agent, GetRescan(a) PROVE Drawn'
<1>1. TargetsKept /\ AssignedKept /\ RowsDrawn'
  BY DispatchKeeps, RowsStayDrawn DEF Drawn
<1>2. posts' = posts /\ TypeOK
  BY DEF GetRescan, IInv
<1>3. CASE work' = work
  BY <1>1, <1>2, <1>3, HandsStayDrawn DEF Drawn
<1>4. ASSUME NEW t \in Task, NEW s \in ScanId,
             work' = [work EXCEPT ![a] =
                        [phase |-> "scan", scan |-> s, ip |-> task[t].target]],
             task[t].target \in Ip, assigned'[s] = t
      PROVE  WorkDrawn' /\ PostsDrawn'
  <2> DEFINE ip == task[t].target
  <2>1. Carries(s, ip)
    BY <1>2, <1>4 DEF Carries, TypeOK
  <2>2. task'[t].target = ip
    BY <1>1, <1>4, ConstantsAssumption DEF TargetsKept
  <2>3. ip \in Ip
    BY <1>4
  <2> HIDE DEF ip
  <2>4. WillBeDrawnFor(s, ip)
    BY <1>4, <2>2 DEF WillBeDrawnFor
  <2> QED
    BY <1>1, <2>1, <2>3, <2>4, CarriedIsDrawn DEF Drawn
<1> QED
  BY <1>1, <1>3, <1>4, DispatchKeeps DEF Drawn

\* A scan that ends is posted with the address it was handed.
LEMMA FinishScanKeepsDrawn ==
  ASSUME TypeOK, Drawn, NEW a \in Agent, FinishScan(a) PROVE Drawn'
<1>1. ScanOf(work[a])
  BY DEF Drawn, WorkDrawn, FinishScan
<1>2. Carries(work[a].scan, work[a].ip)
  BY DEF FinishScan, Carries, TypeOK
<1>3. task' = task /\ assigned' = assigned
  BY DEF FinishScan, serverVars
<1>4. TargetsKept /\ AssignedKept
  BY <1>3, TableUnchangedKeeps
<1>5. WillBeDrawnFor(work[a].scan, work[a].ip)
  BY <1>1, <1>4, DrawnForKept DEF ScanOf
<1> QED
  BY <1>1, <1>2, <1>3, <1>4, <1>5, CarriedIsDrawn, RowsStayDrawn DEF Drawn, ScanOf

\* A thread that times out holds the scan it posted.
LEMMA TimeOutKeepsDrawn ==
  ASSUME TypeOK, Drawn, NEW a \in Agent, TimeOut(a) PROVE Drawn'
<1>1. ScanOf(work[a])
  BY DEF Drawn, WorkDrawn, TimeOut
<1>2. work[a] \in Post
  BY ConstantsAssumption DEF TypeOK, Work, TimeOut
<1>3. Carries(work[a].scan, work[a].ip)
  BY <1>2, RetryCarries DEF TimeOut
<1>4. task' = task /\ assigned' = assigned
  BY DEF TimeOut, serverVars
<1>5. TargetsKept /\ AssignedKept
  BY <1>4, TableUnchangedKeeps
<1>6. WillBeDrawnFor(work[a].scan, work[a].ip)
  BY <1>1, <1>5, DrawnForKept DEF ScanOf
<1> QED
  BY <1>1, <1>3, <1>4, <1>5, <1>6, CarriedIsDrawn, RowsStayDrawn DEF Drawn, ScanOf

\* Steps that neither write a row nor start or post a scan.
LEMMA QuietKeepsDrawn ==
  ASSUME TypeOK, Drawn, task' = task, assigned' = assigned, posts' = posts,
         \A a \in Agent : work'[a].phase \in {"scan", "submit"} => work'[a] = work[a]
  PROVE  Drawn'
<1>1. TargetsKept /\ AssignedKept
  BY TableUnchangedKeeps
<1> QED
  BY <1>1, HandsStayDrawn, RowsStayDrawn DEF Drawn

\* mark_scan_completed stops at a row whose target is the address the scan was
\* drawn for, so the row it completes gets a scan of its own target.
LEMMA SubmitKeepsDrawn ==
  ASSUME TypeOK, Drawn, NEW post \in posts, Submit(post) PROVE Drawn'
<1>1. ScanOf(post) /\ post.scan \in ScanId /\ post.ip \in Ip
  BY DEF Drawn, PostsDrawn, ScanOf
<1>2. Carries(post.scan, post.ip)
  BY SubmitCarries
<1>3. assigned' = assigned
  BY DEF Submit, SubmitUnmatched, SubmitCompletes, SubmitConflict, SubmitDetached
<1>4. CASE task' = task
  <2>1. TargetsKept /\ AssignedKept
    BY <1>3, <1>4, TableUnchangedKeeps
  <2>2. WillBeDrawnFor(post.scan, post.ip)
    BY <1>1, <2>1, DrawnForKept DEF ScanOf
  <2> QED
    BY <1>1, <1>2, <1>4, <2>1, <2>2, CarriedIsDrawn, RowsStayDrawn DEF Drawn
<1>5. ASSUME NEW t \in Hits(post.ip) \ expired, CompleteTask(t, post.scan)
      PROVE  Drawn'
  <2>1. t \in Task /\ task[t].target = post.ip
    BY HitsListed
  <2>2. task' = [task EXCEPT ![t].complete = TRUE, ![t].scan = post.scan]
    BY <1>5 DEF CompleteTask
  <2>3. \A u \in Task : task'[u].target = task[u].target
    BY <2>1, <2>2 DEF TypeOK, Row
  <2>4. TargetsKept /\ AssignedKept
    BY <1>3, <2>3 DEF TargetsKept, AssignedKept
  <2>5. WillBeDrawnFor(post.scan, post.ip)
    BY <1>1, <2>4, DrawnForKept DEF ScanOf
  <2>6. WorkDrawn' /\ PostsDrawn'
    BY <1>1, <1>2, <2>4, <2>5, CarriedIsDrawn DEF Drawn
  <2>7. ASSUME NEW u \in Task, task'[u].complete PROVE RowDrawn(u)'
    <3>1. CASE u = t
      <4>1. task'[u].scan = post.scan /\ task'[u].target = post.ip
        BY <2>1, <2>2, <3>1 DEF TypeOK, Row
      <4> QED
        BY <1>1, <2>5, <4>1 DEF RowDrawn, DrawnFor, WillBeDrawnFor
    <3>2. CASE u # t
      <4>1. task'[u] = task[u]
        BY <2>1, <2>2, <3>2 DEF TypeOK
      <4>2. /\ task[u].scan \in ScanId /\ task[u].target \in Ip
            /\ DrawnFor(task[u].scan, task[u].target)
        BY <2>7, <4>1 DEF Drawn, RowsDrawn, RowDrawn
      <4>3. WillBeDrawnFor(task[u].scan, task[u].target)
        BY <2>4, <4>2, DrawnForKept
      <4> QED
        BY <4>1, <4>2, <4>3 DEF RowDrawn, DrawnFor, WillBeDrawnFor
    <3> QED
      BY <3>1, <3>2
  <2>8. RowsDrawn'
    BY <2>7 DEF RowsDrawn
  <2> QED
    BY <2>6, <2>8 DEF Drawn
<1> QED
  BY <1>4, <1>5
  DEF Submit, SubmitUnmatched, SubmitCompletes, SubmitConflict, SubmitDetached, serverVars

LEMMA NextDrawn == IInv /\ Drawn /\ [Next]_vars => Drawn'
<1> SUFFICES ASSUME IInv, Drawn, [Next]_vars PROVE Drawn'
  OBVIOUS
<1>1. TypeOK
  BY DEF IInv
<1>2. ASSUME NEW ip \in Ip,
             RequestRescan(ip) \/ ReportOutstanding(ip) \/ RefreshStale(ip)
      PROVE  Drawn'
  BY <1>1, <1>2, UserKeepsDrawn
<1>3. ASSUME NEW a \in Agent, GetRescan(a) \/ FinishScan(a) \/ TimeOut(a)
      PROVE  Drawn'
  BY <1>1, <1>3, GetRescanKeepsDrawn, FinishScanKeepsDrawn, TimeOutKeepsDrawn
<1>4. ASSUME NEW a \in Agent,
             GetAutoWork(a) \/ FinishAutoWork(a) \/ GetRescanFails(a) \/ AgentCrash(a)
      PROVE  Drawn'
  <2>1. task' = task /\ assigned' = assigned /\ posts' = posts
    BY <1>4 DEF GetAutoWork, FinishAutoWork, GetRescanFails, AgentCrash, serverVars,
                agentVars
  <2>2. \A b \in Agent : work'[b].phase \in {"scan", "submit"} => work'[b] = work[b]
    BY <1>1, <1>4 DEF TypeOK, GetAutoWork, FinishAutoWork, GetRescanFails, AgentCrash,
                      agentVars
  <2> QED
    BY <1>1, <2>1, <2>2, QuietKeepsDrawn
<1>5. ASSUME NEW post \in posts, Submit(post) PROVE Drawn'
  BY <1>1, <1>5, SubmitKeepsDrawn
<1>6. CASE ServerRestart \/ Tick \/ UNCHANGED vars
  <2>1. task' = task /\ assigned' = assigned /\ posts' = posts /\ work' = work
    BY <1>6 DEF ServerRestart, Tick, vars, serverVars, agentVars
  <2> QED
    BY <1>1, <2>1, QuietKeepsDrawn
<1> QED
  BY <1>2, <1>3, <1>4, <1>5, <1>6 DEF Next

\* A completed request names a scan that was drawn for a request of the same
\* target: matching a submission by address never answers a request with the
\* scan of another host, whatever was lost, retried or put back before.
THEOREM AnsweredByScanOfTarget == Spec => []CompletedByScanOfTarget
<1>1. Drawn => CompletedByScanOfTarget
  BY DEF Drawn, RowsDrawn, RowDrawn, DrawnFor, CompletedByScanOfTarget
<1> QED
  BY <1>1, InitDrawn, NextDrawn, Invariance, PTL DEF Spec
-----------------------------------------------------------------------------
(* A stored scan ends its request, as long as the worker is not replaced *)

\* Only a new worker leaves the dispatched list empty while rows are dispatched;
\* any other handler leaves it exact, and so a submission finds the request.
DispatchedExact == Range(dispCache) = getDispatchedTasks(task)
StoredDrawn == \A s \in stored : assigned[s] \in Task
Ended == DispatchedExact /\ StoredDrawn /\ StoredScanEndsRequest

LEMMA InitEnded == Init => Ended
<1> SUFFICES ASSUME Init PROVE Ended
  OBVIOUS
<1>1. getDispatchedTasks(task) = {}
  BY DEF Init, getDispatchedTasks, Rows, Unused
<1>2. Range(dispCache) = {}
  BY DEF Init, Range
<1> QED
  BY <1>1, <1>2 DEF Init, Ended, DispatchedExact, StoredDrawn, StoredScanEndsRequest

\* The list stays exact, whatever fails but the worker.
LEMMA DispatchedStaysExact ==
  ASSUME IInv, DispatchedExact, [Next]_vars, "restart" \notin Faults
  PROVE  DispatchedExact'
<1>1. TypeOK
  BY DEF IInv
<1>2. CASE ReloadDispatched
  BY <1>2, DispatchedIsTask, ListingFacts DEF ReloadDispatched, DispatchedExact
<1>3. CASE task' = task /\ dispCache' = dispCache
  BY <1>3 DEF DispatchedExact
<1>4. ASSUME NEW d \in DispatchedSeen, task' = task, dispCache' = d
      PROVE  DispatchedExact'
  <2>1. CASE Reloads
    BY <1>4, <2>1 DEF DispatchedSeen, Listings, DispatchedExact
  <2>2. CASE ~Reloads
    BY <1>4, <2>2 DEF DispatchedSeen, DispatchedExact
  <2> QED
    BY <2>1, <2>2
<1>5. ASSUME NEW ip \in Ip,
             RequestRescan(ip) \/ ReportOutstanding(ip) \/ RefreshStale(ip)
      PROVE  DispatchedExact'
  <2>1. \/ ReloadBoth
        \/ \E d \in DispatchedSeen : dispCache' = d /\ task' = task
    BY <1>5 DEF RequestRescan, ReportOutstanding, RefreshStale, RollBackSeen, KeepSeen
  <2> QED
    BY <1>2, <1>4, <2>1 DEF ReloadBoth
<1>6. ASSUME NEW a \in Agent, GetRescan(a)
      PROVE  DispatchedExact'
  BY <1>2, <1>6 DEF GetRescan, MarkDispatched, ReloadBoth
<1>7. ASSUME NEW a \in Agent,
             \/ GetAutoWork(a) \/ FinishAutoWork(a) \/ GetRescanFails(a)
             \/ FinishScan(a) \/ TimeOut(a) \/ AgentCrash(a)
      PROVE  DispatchedExact'
  BY <1>3, <1>7 DEF GetAutoWork, FinishAutoWork, GetRescanFails, FinishScan, TimeOut,
                    AgentCrash, serverVars
<1>8. ASSUME NEW post \in posts, Submit(post)
      PROVE  DispatchedExact'
  BY <1>2, <1>3, <1>8 DEF Submit, SubmitUnmatched, SubmitCompletes, SubmitConflict,
                          SubmitDetached, serverVars
<1>9. CASE Tick \/ UNCHANGED vars
  BY <1>3, <1>9 DEF Tick, vars, serverVars
<1>10. ~ServerRestart
  BY DEF ServerRestart
<1> QED
  BY <1>5, <1>6, <1>7, <1>8, <1>9, <1>10 DEF Next

\* No row newly dispatched, no scan newly stored.
LEMMA NothingStored ==
  ASSUME TypeOK, StoredDrawn, StoredScanEndsRequest, AssignedKept, stored' = stored,
         getDispatchedTasks(task') \subseteq getDispatchedTasks(task)
  PROVE  StoredDrawn' /\ StoredScanEndsRequest'
<1>1. \A s \in stored : s \in ScanId /\ assigned[s] \in Task /\ assigned'[s] = assigned[s]
  BY DEF TypeOK, StoredDrawn, AssignedKept
<1>2. ASSUME NEW s \in stored', NEW t \in getDispatchedTasks(task'), assigned'[s] = t
      PROVE  \E other \in ScanId \ {s} : assigned'[other] = t
  <2>1. PICK other \in ScanId \ {s} : assigned[other] = t
    BY <1>1, <1>2 DEF StoredScanEndsRequest
  <2>2. t \in Task
    BY DispatchedIsTask
  <2> QED
    BY <2>1, <2>2 DEF AssignedKept
<1> QED
  BY <1>1, <1>2 DEF StoredDrawn, StoredScanEndsRequest

\* A row handed out again gets a scan of its own, which nothing stored yet.
LEMMA GetRescanKeepsEnded ==
  ASSUME IInv, StoredDrawn, StoredScanEndsRequest, NEW a \in Agent, GetRescan(a)
  PROVE  StoredDrawn' /\ StoredScanEndsRequest'
<1>1. PICK rescans \in RescansSeen \ {<<>>} :
        /\ \E s \in ScanId :
             assigned[s] = None /\ assigned' = [assigned EXCEPT ![s] = rescans[1]]
        /\ MarkDispatched(rescans[1])
  BY DEF GetRescan
<1> DEFINE t == rescans[1]
<1>2. TypeOK /\ stored' = stored
  BY DEF IInv, GetRescan
<1>3. t \in Task
  BY <1>1, <1>2, SeenRescans
<1>4. task' = [task EXCEPT ![t].dispatched = TRUE, ![t].date = now]
  BY <1>1 DEF MarkDispatched
<1>5. PICK new \in ScanId : assigned[new] = None /\ assigned' = [assigned EXCEPT ![new] = t]
  BY <1>1
<1> HIDE DEF t
<1>6. getDispatchedTasks(task') \subseteq getDispatchedTasks(task) \cup {t}
  BY <1>2, <1>3, <1>4 DEF TypeOK, getDispatchedTasks, Rows
<1>7. assigned'[new] = t /\ \A s \in ScanId \ {new} : assigned'[s] = assigned[s]
  BY <1>2, <1>5 DEF TypeOK
<1>8. \A s \in stored : s \in ScanId \ {new} /\ assigned[s] \in Task
  BY <1>2, <1>5, ConstantsAssumption DEF TypeOK, StoredDrawn
<1>9. ASSUME NEW s \in stored', NEW u \in getDispatchedTasks(task'), assigned'[s] = u
      PROVE  \E other \in ScanId \ {s} : assigned'[other] = u
  <2>1. CASE u = t
    BY <1>2, <1>7, <1>8, <2>1
  <2>2. CASE u # t
    <3>1. u \in getDispatchedTasks(task) /\ assigned[s] = u
      BY <1>2, <1>6, <1>7, <1>8, <1>9, <2>2
    <3>2. PICK other \in ScanId \ {s} : assigned[other] = u
      BY <1>2, <3>1 DEF StoredScanEndsRequest
    <3>3. other # new
      BY <1>5, <3>1, <3>2, ConstantsAssumption, DispatchedIsTask
    <3> QED
      BY <1>7, <3>2, <3>3
  <2> QED
    BY <2>1, <2>2
<1> QED
  BY <1>2, <1>7, <1>8, <1>9 DEF StoredDrawn, StoredScanEndsRequest

\* After mark_scan_completed no request of the submitted address is out: it
\* found none in an exact list, or it completed the only one.
LEMMA NoneOutAfterSubmit ==
  ASSUME IInv, DispatchedExact, NEW post \in posts,
         SubmitUnmatched(post) \/ SubmitCompletes(post)
  PROVE  /\ getDispatchedTasks(task') \subseteq getDispatchedTasks(task)
         /\ \A u \in getDispatchedTasks(task') :
              task[u].target # post.ip /\ task'[u].target = task[u].target
<1>1. CASE SubmitUnmatched(post)
  BY <1>1 DEF SubmitUnmatched, NoHit, DispatchedExact, serverVars
<1>2. CASE SubmitCompletes(post)
  <2>1. PICK t \in Hits(post.ip) \ expired : CompleteTask(t, post.scan)
    BY <1>2 DEF SubmitCompletes
  <2>2. TypeOK
    BY DEF IInv
  <2>3. t \in getDispatchedTasks(task) /\ t \in Task /\ task[t].target = post.ip
    BY <2>2, HitsListed DEF DispatchedExact
  <2>4. task' = [task EXCEPT ![t].complete = TRUE, ![t].scan = post.scan]
    BY <2>1 DEF CompleteTask
  <2>5. \A u \in getDispatchedTasks(task') :
          u # t /\ u \in getDispatchedTasks(task) /\ task'[u] = task[u]
    BY <2>2, <2>3, <2>4 DEF TypeOK, getDispatchedTasks, Rows
  <2>6. \A u \in getDispatchedTasks(task) : task[u].target = post.ip => u = t
    BY <2>3 DEF IInv, OneOpenRequestPerTarget, OpenTasks
  <2> QED
    BY <2>5, <2>6
<1> QED
  BY <1>1, <1>2

\* So a result that is stored leaves no row of its scan dispatched: the scan was
\* drawn for a row of the submitted address.
LEMMA SubmitKeepsEnded ==
  ASSUME IInv, Drawn, DispatchedExact, StoredDrawn, StoredScanEndsRequest,
         NEW post \in posts, Submit(post)
  PROVE  StoredDrawn' /\ StoredScanEndsRequest'
<1>1. TypeOK
  BY DEF IInv
<1>2. assigned' = assigned
  BY DEF Submit, SubmitUnmatched, SubmitCompletes, SubmitConflict, SubmitDetached
<1>3. AssignedKept
  BY <1>2 DEF AssignedKept
<1>4. CASE SubmitConflict(post) \/ SubmitDetached(post)
  BY <1>1, <1>3, <1>4, NothingStored DEF SubmitConflict, SubmitDetached, serverVars
<1>5. CASE SubmitUnmatched(post) \/ SubmitCompletes(post)
  <2>1. stored' = stored \/ stored' = stored \cup {post.scan}
    BY <1>5 DEF SubmitUnmatched, SubmitCompletes, StoreResult, StoreFails
  <2>2. /\ getDispatchedTasks(task') \subseteq getDispatchedTasks(task)
        /\ \A u \in getDispatchedTasks(task') : task[u].target # post.ip
    BY <1>5, NoneOutAfterSubmit
  <2>3. assigned[post.scan] \in Task /\ task[assigned[post.scan]].target = post.ip
    BY DEF Drawn, PostsDrawn, ScanOf, DrawnFor
  <2>4. assigned[post.scan] \notin getDispatchedTasks(task')
    BY <2>2, <2>3
  <2>5. StoredDrawn'
    BY <1>2, <2>1, <2>3 DEF StoredDrawn
  <2>6. StoredScanEndsRequest'
    BY <1>2, <2>1, <2>2, <2>4 DEF StoredScanEndsRequest
  <2> QED
    BY <2>5, <2>6
<1> QED
  BY <1>4, <1>5 DEF Submit

LEMMA NextEnded ==
  ASSUME "restart" \notin Faults
  PROVE  IInv /\ Drawn /\ Ended /\ [Next]_vars => Ended'
<1> SUFFICES ASSUME IInv, Drawn, Ended, [Next]_vars PROVE Ended'
  OBVIOUS
<1>1. TypeOK /\ DispatchedExact /\ StoredDrawn /\ StoredScanEndsRequest
  BY DEF IInv, Ended
<1>2. DispatchedExact'
  BY <1>1, DispatchedStaysExact
<1>3. ASSUME NEW ip \in Ip,
             RequestRescan(ip) \/ ReportOutstanding(ip) \/ RefreshStale(ip)
      PROVE  StoredDrawn' /\ StoredScanEndsRequest'
  <2>1. stored' = stored /\ AssignedKept
    BY <1>3 DEF RequestRescan, ReportOutstanding, RefreshStale, AssignedKept
  <2>2. \/ \E t \in Task : task' = [task EXCEPT ![t] = NewRescan(ip)]
        \/ \E t : task' = [task EXCEPT ![t].dispatched = FALSE]
        \/ task' = task
    BY <1>3 DEF RequestRescan, ReportOutstanding, RefreshStale, RollBackSeen
  <2>3. ~NewRescan(ip).dispatched
    BY DEF NewRescan, Unused
  <2>4. getDispatchedTasks(task') \subseteq getDispatchedTasks(task)
    <3>1. ASSUME NEW t \in Task, task' = [task EXCEPT ![t] = NewRescan(ip)]
          PROVE  getDispatchedTasks(task') \subseteq getDispatchedTasks(task)
      BY <1>1, <2>3, <3>1 DEF TypeOK, getDispatchedTasks, Rows
    <3>2. ASSUME NEW t, task' = [task EXCEPT ![t].dispatched = FALSE]
          PROVE  getDispatchedTasks(task') \subseteq getDispatchedTasks(task)
      BY <1>1, <3>2 DEF TypeOK, Row, getDispatchedTasks, Rows
    <3> QED
      BY <2>2, <3>1, <3>2
  <2> QED
    BY <1>1, <2>1, <2>4, NothingStored
<1>4. ASSUME NEW a \in Agent, GetRescan(a)
      PROVE  StoredDrawn' /\ StoredScanEndsRequest'
  BY <1>1, <1>4, GetRescanKeepsEnded
<1>5. ASSUME NEW post \in posts, Submit(post)
      PROVE  StoredDrawn' /\ StoredScanEndsRequest'
  BY <1>1, <1>5, SubmitKeepsEnded
<1>6. ASSUME task' = task, assigned' = assigned, stored' = stored
      PROVE  StoredDrawn' /\ StoredScanEndsRequest'
  BY <1>1, <1>6, NothingStored DEF AssignedKept
<1>7. ASSUME NEW a \in Agent,
             \/ GetAutoWork(a) \/ FinishAutoWork(a) \/ GetRescanFails(a)
             \/ FinishScan(a) \/ TimeOut(a) \/ AgentCrash(a)
      PROVE  task' = task /\ assigned' = assigned /\ stored' = stored
  BY <1>7 DEF GetAutoWork, FinishAutoWork, GetRescanFails, FinishScan, TimeOut,
              AgentCrash, serverVars
<1>8. ASSUME ServerRestart \/ Tick \/ UNCHANGED vars
      PROVE  task' = task /\ assigned' = assigned /\ stored' = stored
  BY <1>8 DEF ServerRestart, Tick, vars, serverVars
<1>9. StoredDrawn' /\ StoredScanEndsRequest'
  BY <1>3, <1>4, <1>5, <1>6, <1>7, <1>8 DEF Next
<1> QED
  BY <1>2, <1>9 DEF Ended

\* A request whose only scan has been stored is not left dispatched, whatever
\* requests, replies, commits and threads fail, unless the worker is replaced:
\* with its list gone the submission would not find the request.
THEOREM StoredScanEnds ==
  ASSUME "restart" \notin Faults
  PROVE  Spec => []StoredScanEndsRequest
<1>1. Ended => StoredScanEndsRequest
  BY DEF Ended
<1>2. IInv /\ Drawn /\ Ended /\ [Next]_vars => Ended'
  BY NextEnded
<1> QED
  BY <1>1, <1>2, InitDrawn, NextDrawn, InitEnded, Invariance, PTL DEF Spec
=============================================================================
