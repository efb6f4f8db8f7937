-------------------------------- MODULE Agent --------------------------------
(***************************************************************************)
(* natlas-agent: worker threads that scan targets, and the services file   *)
(* they share.  In automatic mode a thread fetches its own work and, when  *)
(* the hash that comes with it is not the one it remembers, downloads the  *)
(* services file of the server again.  In manual mode the main thread      *)
(* fetches work for given targets into a bounded queue and waits for it    *)
(* to be done.  Requests that fail are repeated, submissions only          *)
(* max_retries times.  os._exit ends the process wherever its threads are. *)
(***************************************************************************)
EXTENDS Integers, FiniteSets

CONSTANTS Thread,      \* max_threads worker threads
          Version,     \* contents the services file may have
          MaxUpdates,  \* bound on changes of the services on the server
          MaxTargets,  \* bound on the targets given in manual mode
          MaxRetries,  \* NATLAS_MAX_RETRIES
          FaultSets    \* what may go wrong together, sets of "raise" (a scan
                       \* raises an exception), "linger" (a screenshot tool
                       \* times out), "refuse" (getwork of a thread answers
                       \* 400), "forbid" (a request answers 403)

ASSUME AgentAssumption == /\ IsFiniteSet(Thread)
                          /\ Thread # {}
                          /\ Version \cap {"none", "empty", "torn", ""} = {}
                          /\ MaxUpdates \in Nat
                          /\ MaxTargets \in Nat
                          /\ MaxRetries \in Nat \ {0}

VARIABLES faults,      \* what may go wrong in this behaviour
          mode,        \* "auto", "manual"
          saveFails,   \* NATLAS_SAVE_FAILS
          services,    \* the services of the server
          updates,     \* changes of them so far
          file,        \* the services file: a version, absent, just opened for
                       \* writing, or overlaid by writes of two versions
          main,        \* "start", "auto", "feed", "put", "join", "done", "exited"
          todo,        \* targets the main thread has not dealt with
          queued,      \* items in the queue
          unfinished,  \* its count of items task_done was not called for
          lost,        \* items whose scan raised (history)
          pc,          \* where a thread is
          sha,         \* its servicesSha, as the content it is the hash of
          got,         \* the services it downloaded
          tries,       \* failed attempts to submit
          answered,    \* response is not False
          raised,      \* an exception is on its way out of execute_scan
          files,       \* its scan directory: "none", "scans", "failures"
          lingering,   \* what a killed screenshot tool started still writes there
          replied      \* the server replied to the submission (history)

setup == <<faults, mode, saveFails>>
queueVars == <<todo, queued, unfinished, lost>>
syncVars == <<sha, got>>
scanVars == <<tries, answered, raised, files, lingering, replied>>
vars == <<setup, services, updates, file, main, queueVars, pc, syncVars, scanVars>>

Init == /\ faults \in FaultSets
        /\ mode \in {"auto", "manual"}
        /\ saveFails \in BOOLEAN
        /\ services \in Version
        /\ updates = 0
        /\ file \in Version \cup {"none"}
        /\ main = "start"
        /\ todo \in IF mode = "auto" THEN {0} ELSE 0..MaxTargets
        /\ queued = 0
        /\ unfinished = 0
        /\ lost = 0
        /\ pc = [t \in Thread |-> "idle"]
        /\ sha = [t \in Thread |-> ""]
        /\ got = [t \in Thread |-> ""]
        /\ tries = [t \in Thread |-> 0]
        /\ answered = [t \in Thread |-> FALSE]
        /\ raised = [t \in Thread |-> FALSE]
        /\ files = [t \in Thread |-> "none"]
        /\ lingering = [t \in Thread |-> FALSE]
        /\ replied = [t \in Thread |-> FALSE]

Running == main \notin {"start", "done", "exited"}
At(t, place) == Running /\ pc[t] = place
Go(t, place) == pc' = [pc EXCEPT ![t] = place]
-----------------------------------------------------------------------------
(* The main thread *)

\* The file that is there is hashed, a missing one downloaded; then the
\* threads start.
Start == /\ main = "start"
         /\ file' = IF file = "none" THEN services ELSE file
         /\ sha' = [t \in Thread |-> file']
         /\ main' = IF mode = "auto" THEN "auto" ELSE "feed"
         /\ UNCHANGED <<setup, services, updates, queueVars, pc, got, scanVars>>

\* The server has no work for this target: it is skipped.
SkipTarget == /\ main = "feed"
              /\ todo > 0
              /\ todo' = todo - 1
              /\ UNCHANGED <<setup, services, updates, file, main, queued, unfinished, lost,
                             pc, syncVars, scanVars>>

GetTarget == /\ main = "feed"
             /\ todo > 0
             /\ todo' = todo - 1
             /\ main' = "put"
             /\ UNCHANGED <<setup, services, updates, file, queued, unfinished, lost,
                            pc, syncVars, scanVars>>

\* Mutant: the queue is not bounded.
Room_always == TRUE

\* q.put blocks while the queue has an item for every thread.
Room == queued < Cardinality(Thread)

Put == /\ main = "put"
       /\ Room
       /\ queued' = queued + 1
       /\ unfinished' = unfinished + 1
       /\ main' = "feed"
       /\ UNCHANGED <<setup, services, updates, file, todo, lost, pc, syncVars, scanVars>>

AllFed == /\ main = "feed"
          /\ todo = 0
          /\ main' = "join"
          /\ UNCHANGED <<setup, services, updates, file, queueVars, pc, syncVars, scanVars>>

\* Mutant: waits for the queue to be empty.
JoinReturns_empty == queued = 0

JoinReturns == unfinished = 0

Join == /\ main = "join"
        /\ JoinReturns
        /\ main' = "done"
        /\ UNCHANGED <<setup, services, updates, file, queueVars, pc, syncVars, scanVars>>
-----------------------------------------------------------------------------
(* Getting work *)

\* Mutant: the thread looks at the file's hash once, when it is started.
NeedsServices_never(t) == FALSE

NeedsServices(t) == services # sha[t]

GetWork(t) == /\ At(t, "idle")
              /\ mode = "auto"
              /\ Go(t, IF NeedsServices(t) THEN "fetch" ELSE "start")
              /\ UNCHANGED <<setup, services, updates, file, main, queueVars, syncVars, scanVars>>

\* A refusal that may not be retried, as of another version, ends the thread.
EndThread(t) == /\ At(t, "idle")
                /\ mode = "auto"
                /\ "refuse" \in faults
                /\ Go(t, "ended")
                /\ UNCHANGED <<setup, services, updates, file, main, queueVars, syncVars, scanVars>>

TakeItem(t) == /\ At(t, "idle")
               /\ mode = "manual"
               /\ queued > 0
               /\ queued' = queued - 1
               /\ Go(t, "start")
               /\ UNCHANGED <<setup, services, updates, file, main, todo, unfinished, lost,
                              syncVars, scanVars>>
-----------------------------------------------------------------------------
(* get_services_file *)

\* The one row of services, with its hash.  A migration inserts the row and
\* nothing deletes it: the 404 for a table without it is never given.
natlasServices == services

FetchServices(t) == /\ At(t, "fetch")
                    /\ got' = [got EXCEPT ![t] = natlasServices]
                    /\ Go(t, "open")
                    /\ UNCHANGED <<setup, services, updates, file, main, queueVars, sha, scanVars>>

OpenFile(t) == /\ At(t, "open")
               /\ file' = "empty"
               /\ Go(t, "write")
               /\ UNCHANGED <<setup, services, updates, main, queueVars, syncVars, scanVars>>

\* Over what another thread has written since, a shorter content leaves the
\* other's tail.
Overlaid(old, new) == IF old \in {"empty", new} THEN {new} ELSE {new, "torn"}

WriteFile(t) == /\ At(t, "write")
                /\ file' \in Overlaid(file, got[t])
                /\ Go(t, "verify")
                /\ UNCHANGED <<setup, services, updates, main, queueVars, syncVars, scanVars>>

\* Mutant: a download that cannot be verified is forgotten.
Verified_forgotten(t) == IF file = got[t] THEN got[t] ELSE sha[t]

\* The hash of the file, if it is that of the download, else "".
Verified(t) == IF file = got[t] THEN got[t] ELSE ""

\* Without valid services the thread scans all the same.
VerifyFile(t) == /\ At(t, "verify")
                 /\ sha' = [sha EXCEPT ![t] = Verified(t)]
                 /\ got' = [got EXCEPT ![t] = ""]
                 /\ Go(t, "start")
                 /\ UNCHANGED <<setup, services, updates, file, main, queueVars, scanVars>>
-----------------------------------------------------------------------------
(* execute_scan *)

\* Mutant: response is None until there is one.
NoResponse_none == TRUE

NoResponse == FALSE

StartScan(t) == /\ At(t, "start")
                /\ files' = [files EXCEPT ![t] = "scans"]
                /\ answered' = [answered EXCEPT ![t] = NoResponse]
                /\ Go(t, "scan")
                /\ UNCHANGED <<setup, services, updates, file, main, queueVars, syncVars,
                               tries, raised, lingering, replied>>

\* nmap timed out, the host is down or has no ports, or no screenshots are
\* wanted: the result is submitted; otherwise the tools run first.
ScanReports(t) == /\ At(t, "scan")
                  /\ Go(t, "submit") \/ Go(t, "shots")
                  /\ UNCHANGED <<setup, services, updates, file, main, queueVars, syncVars,
                                 scanVars>>

TakeScreenshots(t) == /\ At(t, "shots")
                      /\ Go(t, "submit")
                      /\ UNCHANGED <<setup, services, updates, file, main, queueVars, syncVars,
                                     scanVars>>

\* The tool is killed and not waited for, what it started goes on writing; a
\* session file that is not complete does not parse, which raises.
ScreenshotTimesOut(t) ==
  /\ At(t, "shots")
  /\ "linger" \in faults
  /\ lingering' = [lingering EXCEPT ![t] = TRUE]
  /\ \/ Go(t, "submit") /\ UNCHANGED raised
     \/ Go(t, "cleanup") /\ raised' = [raised EXCEPT ![t] = TRUE]
  /\ UNCHANGED <<setup, services, updates, file, main, queueVars, syncVars,
                 tries, answered, files, replied>>

\* scan returned False: no valid target, output or report of one host.
ScanHasNoReport(t) == /\ At(t, "scan")
                      /\ Go(t, "cleanup")
                      /\ UNCHANGED <<setup, services, updates, file, main, queueVars, syncVars,
                                     scanVars>>

ScanRaises(t) == /\ At(t, "scan")
                 /\ "raise" \in faults
                 /\ raised' = [raised EXCEPT ![t] = TRUE]
                 /\ Go(t, "cleanup")
                 /\ UNCHANGED <<setup, services, updates, file, main, queueVars, syncVars,
                                tries, answered, files, lingering, replied>>

\* The server takes the result, or refuses it for good.
SubmitAnswered(t) == /\ At(t, "submit")
                     /\ answered' = [answered EXCEPT ![t] = TRUE]
                     /\ replied' = [replied EXCEPT ![t] = TRUE]
                     /\ Go(t, "cleanup")
                     /\ UNCHANGED <<setup, services, updates, file, main, queueVars, syncVars,
                                    tries, raised, files, lingering>>

\* No reply, an invalid one, or one that asks to retry.
SubmitFails(t) == /\ At(t, "submit")
                  /\ tries' = [tries EXCEPT ![t] = tries[t] + 1]
                  /\ Go(t, IF tries[t] + 1 = MaxRetries THEN "cleanup" ELSE "submit")
                  /\ UNCHANGED <<setup, services, updates, file, main, queueVars, syncVars,
                                 answered, raised, files, lingering, replied>>

\* Mutant: only a submitted result completes its item.
Completes_submitted(t) == answered[t]

Completes(t) == ~raised[t]

KeepsFiles(t) == saveFails /\ ~answered[t]

Forget(t) == /\ raised' = [raised EXCEPT ![t] = FALSE]
             /\ tries' = [tries EXCEPT ![t] = 0]
             /\ answered' = [answered EXCEPT ![t] = FALSE]
             /\ lingering' = [lingering EXCEPT ![t] = FALSE]
             /\ replied' = [replied EXCEPT ![t] = FALSE]
             /\ Go(t, "idle")

\* cleanup_files, then complete unless an exception passes through.
CleanUp(t) ==
  /\ At(t, "cleanup")
  /\ files' = [files EXCEPT ![t] = IF KeepsFiles(t) THEN "failures" ELSE "none"]
  /\ unfinished' = IF mode = "manual" /\ Completes(t) THEN unfinished - 1 ELSE unfinished
  /\ lost' = IF mode = "manual" /\ raised[t] THEN lost + 1 ELSE lost
  /\ Forget(t)
  /\ UNCHANGED <<setup, services, updates, file, main, todo, queued, syncVars>>

\* rmtree raises when a file appears in the directory it has just emptied.
CleanUpFails(t) ==
  /\ At(t, "cleanup")
  /\ lingering[t]
  /\ ~KeepsFiles(t)
  /\ lost' = IF mode = "manual" THEN lost + 1 ELSE lost
  /\ Forget(t)
  /\ UNCHANGED <<setup, services, updates, file, main, todo, queued, unfinished, syncVars, files>>
-----------------------------------------------------------------------------
(* The process and the server *)

\* A thread is told 403 without retry, and calls os._exit.
Exit == /\ "forbid" \in faults
        /\ Running
        /\ \/ main = "feed" /\ todo > 0
           \/ \E t \in Thread : \/ pc[t] = "idle" /\ mode = "auto"
                                \/ pc[t] \in {"fetch", "submit"}
        /\ main' = "exited"
        /\ UNCHANGED <<setup, services, updates, file, queueVars, pc, syncVars, scanVars>>

\* The container of an automatic agent is started again.
Restart == /\ main = "exited"
           /\ mode = "auto"
           /\ main' = "start"
           /\ pc' = [t \in Thread |-> "idle"]
           /\ got' = [t \in Thread |-> ""]
           /\ tries' = [t \in Thread |-> 0]
           /\ answered' = [t \in Thread |-> FALSE]
           /\ raised' = [t \in Thread |-> FALSE]
           /\ lingering' = [t \in Thread |-> FALSE]
           /\ replied' = [t \in Thread |-> FALSE]
           /\ UNCHANGED <<setup, services, updates, file, queueVars, sha, files>>

UpdateServices == /\ updates < MaxUpdates
                  /\ updates' = updates + 1
                  /\ services' \in Version \ {services}
                  /\ UNCHANGED <<setup, file, main, queueVars, pc, syncVars, scanVars>>

MainStep == Start \/ SkipTarget \/ GetTarget \/ Put \/ AllFed \/ Join

ThreadStep(t) == \/ GetWork(t)
                 \/ TakeItem(t)
                 \/ FetchServices(t)
                 \/ OpenFile(t)
                 \/ WriteFile(t)
                 \/ VerifyFile(t)
                 \/ StartScan(t)
                 \/ ScanReports(t)
                 \/ TakeScreenshots(t)
                 \/ ScanHasNoReport(t)
                 \/ SubmitAnswered(t)
                 \/ SubmitFails(t)
                 \/ CleanUp(t)

Next == \/ MainStep
        \/ \E t \in Thread : \/ ThreadStep(t)
                            \/ EndThread(t)
                            \/ ScanRaises(t)
                            \/ ScreenshotTimesOut(t)
                            \/ CleanUpFails(t)
        \/ Exit
        \/ Restart
        \/ UpdateServices

Spec == Init /\ [][Next]_vars

\* The operating system runs every thread that can run; a request that is
\* repeated until it succeeds does.
FairSpec == /\ Spec
            /\ WF_vars(MainStep)
            /\ \A t \in Thread : WF_vars(ThreadStep(t))
-----------------------------------------------------------------------------
(* Properties *)

Writing == {"write", "verify"}

TypeOK ==
  /\ faults \in FaultSets
  /\ mode \in {"auto", "manual"}
  /\ saveFails \in BOOLEAN
  /\ services \in Version
  /\ updates \in 0..MaxUpdates
  /\ file \in Version \cup {"none", "empty", "torn"}
  /\ main \in {"start", "auto", "feed", "put", "join", "done", "exited"}
  /\ todo \in 0..MaxTargets
  /\ queued \in 0..Cardinality(Thread)
  /\ unfinished \in 0..MaxTargets
  /\ lost \in 0..MaxTargets
  /\ pc \in [Thread -> {"idle", "fetch", "open", "start", "scan", "shots", "submit", "cleanup", "ended"}
                       \cup Writing]
  /\ sha \in [Thread -> Version \cup {"", "empty", "torn"}]
  /\ got \in [Thread -> Version \cup {""}]
  /\ tries \in [Thread -> 0..MaxRetries]
  /\ answered \in [Thread -> BOOLEAN]
  /\ raised \in [Thread -> BOOLEAN]
  /\ files \in [Thread -> {"none", "scans", "failures"}]
  /\ lingering \in [Thread -> BOOLEAN]
  /\ replied \in [Thread -> BOOLEAN]

\* In manual mode "Finished scanning" comes after the last item of the last
\* target is worked on to its end, its files are cleaned up and no scan was
\* lost to an exception.
FinishedIsFinished ==
  main = "done" => /\ todo = 0 /\ queued = 0 /\ lost = 0
                   /\ \A t \in Thread : pc[t] = "idle" /\ files[t] # "scans"

\* A manual run ends unless a scan or its clean-up raises or the agent is told
\* to stop: the bounded queue never leaves the main thread and the threads
\* waiting for each other.
ManualRunEnds ==
  mode = "manual" /\ faults \cap {"raise", "linger", "forbid"} = {} => <>(main = "done")

\* With save_fails no scan loses its files unless the server answered its
\* submission, however the scan ends.
UnansweredFilesAreKept ==
  [][\A t \in Thread : saveFails /\ files[t] = "scans" /\ files'[t] = "none" => replied[t]]_vars

\* Threads share the services file and each trusts its own hash.  When none is
\* writing, a file that is not the server's is noticed: some thread remembers
\* a hash that is not the server's, and downloads the file with its next work.
WrongFileIsNoticed ==
  mode = "auto" /\ Running /\ "refuse" \notin faults
  /\ (\A t \in Thread : pc[t] \notin Writing) /\ file # services
  => \E t \in Thread : sha[t] # services

\* Once the services of the server no longer change, threads that overwrite
\* the file for each other get it right again and again.  (For good only if
\* they do not truncate it forever in each other's checks.)
ServicesArrive ==
  mode = "auto" /\ faults \cap {"refuse", "forbid"} = {} => []<>(file = services)
=============================================================================
