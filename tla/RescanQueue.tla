----------------------------- MODULE RescanQueue -----------------------------
(***************************************************************************)
(* The queue of user-requested rescans of natlas-server: the rescan_task   *)
(* table, the two lists ScopeManager caches of it, the handlers that use   *)
(* them (POST /host/<ip>/rescan, GET /api/getwork, POST /api/submit), and  *)
(* the agents that take the work, submit results, time out and retry.      *)
(*                                                                         *)
(* The server is one synchronous gunicorn worker, so a handler is one      *)
(* step.  The database commits; the cached lists live in the worker's      *)
(* memory and hold objects of sessions that ended with their request.      *)
(* Such a detached object keeps the values it was loaded with, unless the  *)
(* transaction it was last part of was rolled back: it is then expired and *)
(* reading any of its columns raises DetachedInstanceError.                *)
(***************************************************************************)
EXTENDS Integers, Sequences, FiniteSets, Functions

CONSTANTS Task,        \* rows the rescan_task table can hold
          Ip,          \* targets
          ScanId,      \* scan ids get_unique_scan_id can draw
          Agent,       \* agent threads
          MaxRetries,  \* NATLAS_MAX_RETRIES of the agent
          ScanWindow,  \* scanTimeout * 2
          Day,         \* ticks in a day, which timedelta.seconds leaves out
          MaxTime,     \* bound on the clock
          Faults,      \* what may go wrong, of "restart", "commit",
                       \* "network", "agent" and "elastic": Elasticsearch
                       \* fails, or there is no scope to judge a result by
          None         \* SQL NULL, Python None

ASSUME ConstantsAssumption ==
  /\ IsFiniteSet(Task)
  /\ None \notin Task \cup Ip \cup ScanId
  /\ MaxRetries \in Nat \ {0}
  /\ ScanWindow \in Nat
  /\ Day \in Nat \ {0}
  /\ MaxTime \in Nat

VARIABLES task,       \* the table: row -> columns
          pendCache,  \* scope_manager.pendingRescans
          dispCache,  \* scope_manager.dispatchedRescans
          expired,    \* rows whose cached object is expired and detached
          refreshed,  \* rows a user was told are refreshed, not dealt with since
          assigned,   \* scan id -> row it was drawn for (history)
          stored,     \* scan ids with a document in Elasticsearch
          work,       \* agent thread -> what it is doing
          posts,      \* submissions the server has not handled yet
          now         \* the clock

serverVars == <<task, pendCache, dispCache, expired>>
agentVars  == <<work, posts>>
vars == <<task, pendCache, dispCache, expired, refreshed, assigned, stored, work,
          posts, now>>
-----------------------------------------------------------------------------
(* Table and caches *)

Row == [target : Ip \cup {None}, dispatched : BOOLEAN,
        date : (0..MaxTime) \cup {None}, complete : BOOLEAN, scan : ScanId \cup {None}]

Unused == [target |-> None, dispatched |-> FALSE, date |-> None,
           complete |-> FALSE, scan |-> None]

NewRescan(ip) == [Unused EXCEPT !.target = ip]

Rows(table) == {t \in Task : table[t].target # None}

\* Mutant: asks for date_dispatched IS NULL.
getPendingTasks_undated(table) ==
  {t \in Rows(table) : ~table[t].complete /\ table[t].date = None}

getPendingTasks(table) ==
  {t \in Rows(table) : ~table[t].complete /\ ~table[t].dispatched}

getDispatchedTasks(table) ==
  {t \in Rows(table) : table[t].dispatched /\ ~table[t].complete}

\* The query has no ORDER BY: its rows come in any order.
Listings(S) == {s \in [1..Cardinality(S) -> S] : Range(s) = S}

\* Mutants: the dispatched list is not read again.
ReloadDispatched_forgotten == dispCache' = dispCache
ReloadBoth_pendingOnly == /\ pendCache' \in Listings(getPendingTasks(task'))
                          /\ dispCache' = dispCache
                          /\ expired' = {}

\* update_pending_rescans and update_dispatched_rescans, run on the table as
\* the handler leaves it.
ReloadDispatched == dispCache' \in Listings(getDispatchedTasks(task'))
ReloadBoth == /\ pendCache' \in Listings(getPendingTasks(task'))
              /\ ReloadDispatched
              /\ expired' = {}

Init == /\ task = [t \in Task |-> Unused]
        /\ pendCache = <<>>
        /\ dispCache = <<>>
        /\ expired = {}
        /\ refreshed = {}
        /\ assigned = [s \in ScanId |-> None]
        /\ stored = {}
        /\ work = [a \in Agent |-> [phase |-> "idle"]]
        /\ posts = {}
        /\ now = 0
-----------------------------------------------------------------------------
(* POST /host/<ip>/rescan *)

\* Mutant: reads the table again only if both lists are empty.
Reloads_bothEmpty == pendCache = <<>> /\ dispCache = <<>>

\* get_incomplete_scans reads the table again only if one of the lists is
\* empty, and then both; the objects then belong to this request's session.
Reloads == pendCache = <<>> \/ dispCache = <<>>
PendingSeen == IF Reloads THEN Listings(getPendingTasks(task)) ELSE {pendCache}
DispatchedSeen == IF Reloads THEN Listings(getDispatchedTasks(task)) ELSE {dispCache}

\* Building the dictionary reads the target of every listed object.
Readable(list) == Reloads \/ Range(list) \cap expired = {}

\* The row the dictionary ends up with for ip: the last one listed.
LastFor(list, ip) ==
  {list[i] : i \in {j \in DOMAIN list :
     /\ task[list[j]].target = ip
     /\ \A k \in DOMAIN list : k > j => task[list[k]].target # ip}}

\* timedelta.seconds: the part of the elapsed time below one day.
Seconds(t) == (now - task[t].date) % Day
Stale(t) == task[t].dispatched /\ Seconds(t) > ScanWindow

\* The lists are kept as this request read them.
KeepSeen(p, d) == /\ pendCache' = p
                  /\ dispCache' = d
                  /\ expired' = IF Reloads THEN {} ELSE expired

\* A failed commit rolls back and expires the objects of this session.
RollBackSeen(p, d) == /\ "commit" \in Faults
                      /\ pendCache' = p
                      /\ dispCache' = d
                      /\ expired' = IF Reloads THEN Range(p \o d) ELSE expired
                      /\ UNCHANGED task

RequestRescan(ip) ==
  /\ \E p \in PendingSeen, d \in DispatchedSeen :
       /\ Readable(p \o d)
       /\ \A t \in Range(p) \cup Range(d) : task[t].target # ip
       /\ \E t \in Task \ Rows(task) :
            \/ /\ task' = [task EXCEPT ![t] = NewRescan(ip)]
               /\ ReloadBoth
            \/ RollBackSeen(p, d)
  /\ UNCHANGED <<refreshed, assigned, stored, agentVars, now>>

ReportOutstanding(ip) ==
  /\ \E p \in PendingSeen, d \in DispatchedSeen :
       /\ Readable(p \o d)
       /\ \E t \in LastFor(p \o d, ip) : ~Stale(t)
       /\ KeepSeen(p, d)
  /\ UNCHANGED <<task, refreshed, assigned, stored, agentVars, now>>

\* The commit writes the change only if the object belongs to this session.
RefreshStale(ip) ==
  /\ \E p \in PendingSeen, d \in DispatchedSeen :
       /\ Readable(p \o d)
       /\ \E t \in LastFor(p \o d, ip) :
            /\ Stale(t)
            /\ \/ /\ task' = IF Reloads
                             THEN [task EXCEPT ![t].dispatched = FALSE]
                             ELSE task
                  /\ ReloadBoth
                  /\ refreshed' = refreshed \cup {t}
               \/ Reloads /\ RollBackSeen(p, d) /\ UNCHANGED refreshed
  /\ UNCHANGED <<assigned, stored, agentVars, now>>
-----------------------------------------------------------------------------
(* GET /api/getwork *)

Idle(a) == work[a].phase = "idle"

\* The pending list, read again if it is empty.
RescansSeen == IF pendCache = <<>> THEN Listings(getPendingTasks(task)) ELSE {pendCache}

\* No rescan is waiting: the thread gets an address of the scan manager, and
\* what becomes of that scan does not touch the queue.
GetAutoWork(a) ==
  /\ Idle(a)
  /\ <<>> \in RescansSeen
  /\ work' = [work EXCEPT ![a] = [phase |-> "auto"]]
  /\ UNCHANGED <<serverVars, refreshed, assigned, stored, posts, now>>

FinishAutoWork(a) ==
  /\ work[a].phase = "auto"
  /\ work' = [work EXCEPT ![a] = [phase |-> "idle"]]
  /\ UNCHANGED <<serverVars, refreshed, assigned, stored, posts, now>>

\* mark_scan_dispatched
MarkDispatched(t) ==
  /\ task' = [task EXCEPT ![t].dispatched = TRUE, ![t].date = now]
  /\ ReloadBoth
  /\ refreshed' = refreshed \ {t}

GetRescan(a) ==
  /\ Idle(a)
  /\ \E rescans \in RescansSeen \ {<<>>} :
       LET t == rescans[1]
       IN /\ pendCache = <<>> \/ t \notin expired
          /\ \E s \in ScanId :
               /\ assigned[s] = None
               /\ assigned' = [assigned EXCEPT ![s] = t]
               /\ \/ work' = [work EXCEPT ![a] =
                       [phase |-> "scan", scan |-> s, ip |-> task[t].target]]
                  \/ "network" \in Faults /\ work' = work
          /\ MarkDispatched(t)
  /\ UNCHANGED <<stored, posts, now>>

\* The request fails before it ends: get_unique_scan_id cannot search, or the
\* commit of mark_scan_dispatched fails.
GetRescanFails(a) ==
  /\ Idle(a)
  /\ \E rescans \in RescansSeen \ {<<>>} :
       LET t == rescans[1]
       IN /\ pendCache = <<>> \/ t \notin expired
          /\ pendCache' = rescans
          /\ \/ "elastic" \in Faults /\ expired' = expired
             \/ /\ "commit" \in Faults
                /\ expired' = expired \cup
                     IF pendCache = <<>> THEN Range(rescans) ELSE {t}
  /\ UNCHANGED <<task, dispCache, refreshed, assigned, stored, agentVars, now>>
-----------------------------------------------------------------------------
(* The agent's side of a submission: net.py backoff_request with giveup *)

Result == {"host", "discarded", "invalid"}

\* The thread has scanned and posts what it found.
FinishScan(a) ==
  /\ work[a].phase = "scan"
  /\ \E r \in Result :
       LET post == [phase |-> "submit", agent |-> a, scan |-> work[a].scan,
                    ip |-> work[a].ip, result |-> r, attempt |-> 1]
       IN /\ work' = [work EXCEPT ![a] = post]
          /\ posts' = posts \cup {post}
  /\ UNCHANGED <<serverVars, refreshed, assigned, stored, now>>

\* Mutant: one attempt too many.
Retry_overrun(post, inbox) ==
  LET again == [post EXCEPT !.attempt = @ + 1]
      a == post.agent
  IN IF post.attempt <= MaxRetries
     THEN /\ work' = [work EXCEPT ![a] = again]
          /\ posts' = inbox \cup {again}
     ELSE /\ work' = [work EXCEPT ![a] = [phase |-> "idle"]]
          /\ posts' = inbox

\* The attempt failed: post again, or give up after max_retries attempts.
Retry(post, inbox) ==
  LET again == [post EXCEPT !.attempt = @ + 1]
      a == post.agent
  IN IF post.attempt < MaxRetries
     THEN /\ work' = [work EXCEPT ![a] = again]
          /\ posts' = inbox \cup {again}
     ELSE /\ work' = [work EXCEPT ![a] = [phase |-> "idle"]]
          /\ posts' = inbox

\* request_timeout passes, or the connection breaks: the request may still
\* be handled later, and a reply to it finds nobody.
TimeOut(a) ==
  /\ "network" \in Faults
  /\ work[a].phase = "submit"
  /\ Retry(work[a], posts)
  /\ UNCHANGED <<serverVars, refreshed, assigned, stored, now>>

\* The thread dies, or its scan ends with nothing to submit.
AgentCrash(a) ==
  /\ "agent" \in Faults
  /\ ~Idle(a)
  /\ work' = [work EXCEPT ![a] = [phase |-> "idle"]]
  /\ UNCHANGED <<serverVars, refreshed, assigned, stored, posts, now>>

\* A reply reaches the thread only if it still waits for this attempt.  It is
\* done on 200 and 400, and retries on the HTML pages of 500 and 503.
Reply(post, ok) ==
  IF work[post.agent] # post
  THEN UNCHANGED work /\ posts' = posts \ {post}
  ELSE IF ok
       THEN /\ work' = [work EXCEPT ![post.agent] = [phase |-> "idle"]]
            /\ posts' = posts \ {post}
       ELSE Retry(post, posts \ {post})
-----------------------------------------------------------------------------
(* POST /api/submit *)

\* Mutant: takes the first dispatched request, whatever its target.
Hits_anyTarget(ip) == {dispCache[i] : i \in DOMAIN dispCache \cap {1}}

\* Where the loop of mark_scan_completed stops: at the first cached object
\* that matches, or that raises because it is expired.
Hits(ip) ==
  LET Stops(i) == dispCache[i] \in expired \/ task[dispCache[i]].target = ip
  IN {dispCache[i] : i \in {j \in DOMAIN dispCache :
        Stops(j) /\ \A k \in 1..(j - 1) : ~Stops(k)}}

NoHit(ip) == \A t \in Range(dispCache) : t \notin expired /\ task[t].target # ip

\* Mutant: scan_id without unique=True.
ScanIdFree_unconstrained(s) == s \in ScanId

\* The unique constraint on scan_id.
ScanIdFree(s) == \A t \in Task : task[t].scan # s

\* What follows mark_scan_completed: the result is refused or thrown away
\* (200 or 400), or indexed.
StoreResult(post) ==
  /\ \/ stored' = stored
     \/ post.result = "host" /\ stored' = stored \cup {post.scan}
  /\ Reply(post, TRUE)

\* Or an exception ends the request, before the result is indexed or after.
StoreFails(post) ==
  /\ "elastic" \in Faults
  /\ post.result # "invalid"
  /\ \/ stored' = stored
     \/ post.result = "host" /\ stored' = stored \cup {post.scan}
  /\ Reply(post, FALSE)

SubmitUnmatched(post) ==
  /\ NoHit(post.ip)
  /\ StoreResult(post) \/ StoreFails(post)
  /\ UNCHANGED <<serverVars, refreshed, assigned, now>>

\* completeTask
CompleteTask(t, s) ==
  task' = [task EXCEPT ![t].complete = TRUE, ![t].scan = s]

\* The lists after completeTask: the objects just loaded are this session's.
\* The handler of a 500 rolls that back, the one of a 503 (a connection error)
\* does not.
SubmitCompletes(post) ==
  /\ \E t \in Hits(post.ip) \ expired :
       /\ ScanIdFree(post.scan)
       /\ CompleteTask(t, post.scan)
       /\ refreshed' = refreshed \ {t}
  /\ ReloadDispatched
  /\ LET detached == expired \cap Range(pendCache)
     IN \/ /\ StoreResult(post) \/ StoreFails(post)
           /\ expired' = detached
        \/ /\ StoreFails(post)
           /\ expired' = detached \cup Range(dispCache')
  /\ UNCHANGED <<pendCache, assigned, now>>

\* The commit fails: 500, nothing is stored, and the object that was attached
\* for the commit stays in the list, expired.
SubmitConflict(post) ==
  /\ \E t \in Hits(post.ip) \ expired :
       /\ ~ScanIdFree(post.scan) \/ "commit" \in Faults
       /\ expired' = expired \cup {t}
  /\ Reply(post, FALSE)
  /\ UNCHANGED <<task, pendCache, dispCache, refreshed, assigned, stored, now>>

\* The loop meets an expired object first: 500, nothing is stored.
SubmitDetached(post) ==
  /\ Hits(post.ip) \cap expired # {}
  /\ Reply(post, FALSE)
  /\ UNCHANGED <<serverVars, refreshed, assigned, stored, now>>

Submit(post) == \/ SubmitUnmatched(post)
                \/ SubmitCompletes(post)
                \/ SubmitConflict(post)
                \/ SubmitDetached(post)
-----------------------------------------------------------------------------
\* gunicorn replaces its worker: the table stays, the lists start empty.
ServerRestart ==
  /\ "restart" \in Faults
  /\ pendCache' = <<>>
  /\ dispCache' = <<>>
  /\ expired' = {}
  /\ UNCHANGED <<task, refreshed, assigned, stored, agentVars, now>>

Tick == /\ now < MaxTime
        /\ now' = now + 1
        /\ UNCHANGED <<serverVars, refreshed, assigned, stored, agentVars>>

Next == \/ \E ip \in Ip : \/ RequestRescan(ip)
                          \/ ReportOutstanding(ip)
                          \/ RefreshStale(ip)
        \/ \E a \in Agent : \/ GetAutoWork(a)
                            \/ FinishAutoWork(a)
                            \/ GetRescan(a)
                            \/ GetRescanFails(a)
                            \/ FinishScan(a)
                            \/ TimeOut(a)
                            \/ AgentCrash(a)
        \/ \E post \in posts : Submit(post)
        \/ ServerRestart
        \/ Tick

Spec == Init /\ [][Next]_vars

\* Agent threads loop for ever, a scan ends, and the server answers requests.
Fairness == /\ \A a \in Agent : /\ WF_vars(GetRescan(a))
                                /\ WF_vars(FinishAutoWork(a))
                                /\ WF_vars(FinishScan(a))
            /\ WF_vars(\E post \in posts : Submit(post))

FairSpec == Spec /\ Fairness
-----------------------------------------------------------------------------
(* Properties *)

\* What an agent thread is doing.
Post == [phase : {"submit"}, agent : Agent, scan : ScanId, ip : Ip,
         result : Result, attempt : 1..MaxRetries]
Work == Post \cup [phase : {"scan"}, scan : ScanId, ip : Ip]
             \cup [phase : {"idle", "auto"}]

\* The types of all variables.
TypeOK == /\ task \in [Task -> Row]
          /\ pendCache \in Seq(Task)
          /\ dispCache \in Seq(Task)
          /\ expired \subseteq Task
          /\ refreshed \subseteq Task
          /\ assigned \in [ScanId -> Task \cup {None}]
          /\ stored \subseteq ScanId
          /\ work \in [Agent -> Work]
          /\ posts \subseteq Post
          /\ now \in 0..MaxTime

\* A cached list that is not empty lists exactly the rows the query would
\* return: the handlers that skip the query because the list is not empty
\* miss nothing, whatever was restarted, retried or rolled back before.
CachesExact ==
  /\ pendCache # <<>> => Range(pendCache) = getPendingTasks(task)
  /\ dispCache # <<>> => Range(dispCache) = getDispatchedTasks(task)

OpenTasks(table) == getPendingTasks(table) \cup getDispatchedTasks(table)

\* rescan_host never lets a second request in for a target that has an open
\* one, although it looks at the cached lists and not at the table, and no
\* unique constraint backs it.
OneOpenRequestPerTarget ==
  \A t, u \in OpenTasks(task) : task[t].target = task[u].target => t = u

\* mark_scan_completed matches by address only: the scan that completes a
\* request was still drawn for a request of the same target.
CompletedByScanOfTarget ==
  \A t \in Task : task[t].complete =>
    \E u \in Task : /\ assigned[task[t].scan] = u
                    /\ task[u].target = task[t].target

\* A request whose only scan has been stored is not left dispatched: users
\* would be told for ever that it is outstanding.
StoredScanEndsRequest ==
  \A s \in stored, t \in getDispatchedTasks(task) :
    assigned[s] = t => \E other \in ScanId \ {s} : assigned[other] = t

\* host/routes.py says of a request that has been out for too long "so mark
\* it as not dispatched": a user who reads "Refreshed stale
\* rescan request" has a request that waits again.
RefreshedRequestWaits == refreshed \subseteq getPendingTasks(task)

\* The queue keeps the promises of RescanLifecycle.
Stage(row) == CASE row.target = None -> "absent"
                [] row.target # None /\ row.complete -> "complete"
                [] row.target # None /\ ~row.complete /\ row.dispatched -> "dispatched"
                [] OTHER -> "pending"

Lifecycle == INSTANCE RescanLifecycle
               WITH stage <- [t \in Task |-> Stage(task[t])],
                    host <- [t \in Task |-> task[t].target],
                    scanned <- [t \in Task |-> task[t].scan]

LifecycleSpec == Lifecycle!Spec

\* A waiting request is handed out, however many replies are lost: the
\* objects a conflict expires never stop getwork.  (ScanId is finite.)
WaitingRequestIsHandedOut ==
  \A t \in Task : Stage(task[t]) = "pending" ~>
    (Stage(task[t]) # "pending" \/ \A s \in ScanId : assigned[s] # None)

\* When nothing fails every request is completed, even one that is put back
\* in the queue while its scan is running.
EveryRequestCompletes ==
  \A t \in Task : Stage(task[t]) = "pending" ~> Stage(task[t]) = "complete"
=============================================================================
