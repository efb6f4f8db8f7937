------------------------------ MODULE AgentProofs ------------------------------
(***************************************************************************)
(* Proofs about Agent, for any number of threads, targets and attempts,    *)
(* any contents of the services file and whatever goes wrong.              *)
(***************************************************************************)
EXTENDS Agent, FiniteSetTheorems, TLAPS

\* The threads that have an item of the queue.
Holding == {t \in Thread : pc[t] # "idle"}

\* The items of targets that the main thread has work for but not put yet.
Unput == IF main = "put" THEN 1 ELSE 0

(* Automatic threads fetch their own work, manual ones never download.     *)
Modes == /\ mode = "auto" => /\ main \in {"start", "auto", "exited"}
                             /\ todo = 0 /\ queued = 0 /\ unfinished = 0 /\ lost = 0
         /\ mode = "manual" => /\ main # "auto"
                               /\ \A t \in Thread :
                                    pc[t] \in {"idle", "start", "scan", "shots", "submit", "cleanup"}
         /\ main \in {"join", "done"} => todo = 0
         /\ main = "done" => unfinished = 0

(* An item not done is in the queue, with a thread, or lost to an          *)
(* exception, and there are no more of them than targets.                  *)
Items == mode = "manual" => /\ unfinished = queued + Cardinality(Holding) + lost
                            /\ todo + Unput + unfinished <= MaxTargets

Attempts == \A t \in Thread : /\ pc[t] \notin {"submit", "cleanup"} => tries[t] = 0
                              /\ pc[t] = "submit" => tries[t] < MaxRetries

Downloads == \A t \in Thread : pc[t] \in {"open", "write", "verify"} => got[t] \in Version

Replies == \A t \in Thread : answered[t] => replied[t]

(* A scan directory is that of a scan in progress or of a lost item.       *)
Directories == mode = "manual" => \A t \in Thread :
                 files[t] = "scans" => lost > 0 \/ pc[t] \in {"scan", "shots", "submit", "cleanup"}

(* When nobody is writing the file, the last that wrote it, or the start,  *)
(* has remembered its hash, or that it could not be verified.              *)
FileIsRemembered == main = "auto" /\ (\A t \in Thread : pc[t] \notin Writing)
                    => \E t \in Thread : sha[t] \in {file, ""}

IInv == TypeOK /\ Modes /\ Items /\ Attempts /\ Downloads /\ Replies /\ Directories /\ FileIsRemembered
-----------------------------------------------------------------------------
(* Threads *)

Place == {"idle", "fetch", "open", "start", "scan", "shots", "submit", "cleanup", "ended"}
         \cup Writing

LEMMA RetriesArePositive == MaxRetries \in Nat /\ 0 < MaxRetries
<1>1. MaxRetries \in Nat /\ MaxRetries # 0
  BY AgentAssumption
<1> QED
  BY <1>1

\* A thread that goes somewhere leaves the others where they are.
LEMMA GoMoves ==
  ASSUME TypeOK, NEW t \in Thread, NEW place \in Place, Go(t, place)
  PROVE  /\ pc' \in [Thread -> Place]
         /\ pc'[t] = place
         /\ \A u \in Thread : u # t => pc'[u] = pc[u]
  BY DEF TypeOK, Go, Place

LEMMA HoldingIsFinite ==
  /\ IsFiniteSet(Holding) /\ Cardinality(Holding) \in Nat
  /\ \A t \in Holding : Cardinality(Holding) >= 1
<1>1. IsFiniteSet(Holding) /\ Cardinality(Holding) \in Nat
  <2>1. Holding \subseteq Thread
    BY DEF Holding
  <2> QED
    BY <2>1, AgentAssumption, FS_Subset, FS_CardinalityType
<1>2. \A t \in Holding : Cardinality(Holding) # 0
  BY <1>1, FS_EmptySet
<1> QED
  BY <1>1, <1>2

\* The number of threads with an item, when one takes an item or is done with it.
LEMMA HoldingChanges ==
  ASSUME NEW t \in Thread, \A u \in Thread : u # t => pc'[u] = pc[u]
  PROVE  /\ pc'[t] = pc[t] \/ (pc[t] # "idle" /\ pc'[t] # "idle")
            => Cardinality(Holding)' = Cardinality(Holding)
         /\ pc[t] = "idle" /\ pc'[t] # "idle"
            => Cardinality(Holding)' = Cardinality(Holding) + 1
         /\ pc[t] # "idle" /\ pc'[t] = "idle"
            => Cardinality(Holding)' = Cardinality(Holding) - 1
<1>1. ASSUME pc'[t] = pc[t] \/ (pc[t] # "idle" /\ pc'[t] # "idle")
      PROVE  Cardinality(Holding)' = Cardinality(Holding)
  <2>1. Holding' = Holding
    BY <1>1 DEF Holding
  <2> QED
    BY <2>1
<1>2. ASSUME pc[t] = "idle", pc'[t] # "idle"
      PROVE  Cardinality(Holding)' = Cardinality(Holding) + 1
  <2>1. Holding' = Holding \cup {t} /\ t \notin Holding
    BY <1>2 DEF Holding
  <2>2. Cardinality(Holding \cup {t}) = Cardinality(Holding) + 1
    BY <2>1, HoldingIsFinite, FS_AddElement
  <2> QED
    BY <2>1, <2>2
<1>3. ASSUME pc[t] # "idle", pc'[t] = "idle"
      PROVE  Cardinality(Holding)' = Cardinality(Holding) - 1
  <2>1. Holding' = Holding \ {t} /\ t \in Holding
    BY <1>3 DEF Holding
  <2>2. Cardinality(Holding \ {t}) = Cardinality(Holding) - 1
    BY <2>1, HoldingIsFinite, FS_RemoveElement
  <2> QED
    BY <2>1, <2>2
<1> QED
  BY <1>1, <1>2, <1>3
-----------------------------------------------------------------------------
(* Steps that only move a thread *)

\* From a place to another, neither of which says anything about an item, a
\* submission or the file.
LEMMA MoveKeepsInv ==
  ASSUME IInv, NEW t \in Thread, NEW place \in Place, Go(t, place),
         pc[t] # "idle" => place # "idle",
         pc[t] = "idle" => mode = "auto",
         mode = "manual" => place \in {"start", "scan", "shots", "submit", "cleanup"},
         pc[t] \in {"scan", "shots", "submit"} => place \in {"scan", "shots", "submit", "cleanup"},
         place # "cleanup" => pc[t] # "submit",
         pc[t] \notin Writing \cup {"cleanup"}, place \notin Writing \cup {"open"},
         UNCHANGED <<setup, services, updates, file, main, queueVars, syncVars,
                     tries, answered, files, replied>>,
         raised' \in [Thread -> BOOLEAN], lingering' \in [Thread -> BOOLEAN]
  PROVE  IInv'
<1>0. TypeOK /\ Modes /\ Items /\ Attempts /\ Downloads /\ Replies /\ Directories /\ FileIsRemembered
  BY DEF IInv
<1>1. /\ pc' \in [Thread -> Place]
      /\ pc'[t] = place
      /\ \A u \in Thread : u # t => pc'[u] = pc[u]
  BY <1>0, GoMoves
<1>2. TypeOK'
  BY <1>0, <1>1 DEF TypeOK, Place, setup, queueVars, syncVars
<1>3. Modes'
  BY <1>0, <1>1 DEF Modes, setup, queueVars
<1>4. Items'
  <2>1. mode = "manual" => Cardinality(Holding)' = Cardinality(Holding)
    BY <1>0, <1>1, HoldingChanges DEF TypeOK
  <2>2. Unput' = Unput
    BY DEF Unput
  <2> QED
    BY <1>0, <2>1, <2>2 DEF Items, setup, queueVars
<1>5. Attempts'
  <2> SUFFICES ASSUME NEW u \in Thread
               PROVE  /\ pc'[u] \notin {"submit", "cleanup"} => tries[u] = 0
                      /\ pc'[u] = "submit" => tries[u] < MaxRetries
    BY DEF Attempts
  <2>1. CASE u # t
    BY <1>0, <1>1, <2>1 DEF Attempts
  <2>2. CASE u = t
    <3>1. 0 < MaxRetries
      BY RetriesArePositive
    <3>2. place # "cleanup" => tries[t] = 0
      BY <1>0 DEF Attempts, Writing
    <3> QED
      BY <1>1, <2>2, <3>1, <3>2
  <2> QED
    BY <2>1, <2>2
<1>6. Downloads'
  BY <1>0, <1>1 DEF Downloads, syncVars, Writing
<1>7. Replies'
  BY <1>0 DEF Replies
<1>8. Directories'
  BY <1>0, <1>1 DEF Directories, setup, queueVars
<1>9. FileIsRemembered'
  BY <1>0, <1>1 DEF FileIsRemembered, syncVars
<1> QED
  BY <1>2, <1>3, <1>4, <1>5, <1>6, <1>7, <1>8, <1>9 DEF IInv

LEMMA MovesKeepInv ==
  ASSUME IInv, NEW t \in Thread,
         \/ GetWork(t) \/ EndThread(t) \/ ScanReports(t) \/ TakeScreenshots(t)
         \/ ScreenshotTimesOut(t) \/ ScanHasNoReport(t) \/ ScanRaises(t)
  PROVE  IInv'
<1>0. TypeOK
  BY DEF IInv
<1> USE DEF Place, Writing
<1>1. CASE GetWork(t)
  <2>1. PICK place \in {"fetch", "start"} : Go(t, place)
    BY <1>1 DEF GetWork
  <2> QED
    BY <1>0, <1>1, <2>1, MoveKeepsInv DEF GetWork, At, scanVars, TypeOK
<1>2. CASE EndThread(t)
  BY <1>0, <1>2, MoveKeepsInv DEF EndThread, At, scanVars, TypeOK
<1>3. CASE ScanReports(t)
  <2>1. PICK place \in {"submit", "shots"} : Go(t, place)
    BY <1>3 DEF ScanReports
  <2> QED
    BY <1>0, <1>3, <2>1, MoveKeepsInv DEF ScanReports, At, scanVars, TypeOK
<1>4. CASE TakeScreenshots(t)
  BY <1>0, <1>4, MoveKeepsInv DEF TakeScreenshots, At, scanVars, TypeOK
<1>5. CASE ScreenshotTimesOut(t)
  <2>1. PICK place \in {"submit", "cleanup"} : Go(t, place)
    BY <1>5 DEF ScreenshotTimesOut
  <2>2. raised' \in [Thread -> BOOLEAN] /\ lingering' \in [Thread -> BOOLEAN]
    BY <1>0, <1>5 DEF ScreenshotTimesOut, TypeOK
  <2> QED
    BY <1>5, <2>1, <2>2, MoveKeepsInv DEF ScreenshotTimesOut, At
<1>6. CASE ScanHasNoReport(t)
  BY <1>0, <1>6, MoveKeepsInv DEF ScanHasNoReport, At, scanVars, TypeOK
<1>7. CASE ScanRaises(t)
  <2>1. raised' \in [Thread -> BOOLEAN] /\ lingering' \in [Thread -> BOOLEAN]
    BY <1>0, <1>7 DEF ScanRaises, TypeOK
  <2> QED
    BY <1>7, <2>1, MoveKeepsInv DEF ScanRaises, At
<1> QED
  BY <1>1, <1>2, <1>3, <1>4, <1>5, <1>6, <1>7
-----------------------------------------------------------------------------
(* The services file *)

\* What a download leaves alone.
LEMMA DownloadKeeps ==
  ASSUME IInv, NEW t \in Thread, NEW place \in Place \ {"idle", "submit", "cleanup"},
         Go(t, place), mode = "auto", pc[t] \notin {"idle", "submit", "cleanup"},
         UNCHANGED <<setup, main, queueVars, scanVars>>
  PROVE  Modes' /\ Items' /\ Attempts' /\ Replies' /\ Directories'
<1>0. TypeOK /\ Modes /\ Attempts /\ Replies
  BY DEF IInv
<1>1. /\ pc'[t] = place
      /\ \A u \in Thread : u # t => pc'[u] = pc[u]
  BY <1>0, GoMoves
<1>2. Modes' /\ Items' /\ Directories'
  BY <1>0 DEF Modes, Items, Directories, setup, queueVars
<1>3. Attempts'
  BY <1>0, <1>1 DEF Attempts, scanVars
<1>4. Replies'
  BY <1>0 DEF Replies, scanVars
<1> QED
  BY <1>2, <1>3, <1>4

LEMMA DownloadKeepsInv ==
  ASSUME IInv, NEW t \in Thread,
         FetchServices(t) \/ OpenFile(t) \/ WriteFile(t) \/ VerifyFile(t)
  PROVE  IInv'
<1>0. TypeOK /\ Modes /\ Downloads /\ FileIsRemembered
  BY DEF IInv
<1>1. PICK place \in {"open", "write", "verify", "start"} : Go(t, place)
  BY DEF FetchServices, OpenFile, WriteFile, VerifyFile
<1>2. /\ pc' \in [Thread -> Place]
      /\ pc'[t] = place
      /\ \A u \in Thread : u # t => pc'[u] = pc[u]
  BY <1>0, <1>1, GoMoves DEF Place, Writing
<1>3. /\ pc[t] \in {"fetch", "open", "write", "verify"} /\ mode = "auto"
      /\ UNCHANGED <<setup, services, updates, main, queueVars, scanVars>>
  BY <1>0 DEF FetchServices, OpenFile, WriteFile, VerifyFile, At, Modes, TypeOK
<1>4. Modes' /\ Items' /\ Attempts' /\ Replies' /\ Directories'
  BY <1>1, <1>3, DownloadKeeps DEF Place, Writing
<1>5. CASE FetchServices(t)
  <2>1. /\ got' = [got EXCEPT ![t] = services]
        /\ services \in Version
        /\ UNCHANGED <<file, sha>>
        /\ place \notin Writing /\ pc[t] \notin Writing
    BY <1>0, <1>2, <1>5 DEF FetchServices, natlasServices, TypeOK, At, Go, Writing
  <2>2. TypeOK'
    BY <1>0, <1>2, <1>3, <2>1 DEF TypeOK, Place, setup, queueVars, scanVars
  <2>3. Downloads'
    BY <1>0, <1>2, <2>1 DEF Downloads, TypeOK
  <2>4. FileIsRemembered'
    BY <1>0, <1>2, <1>3, <2>1 DEF FileIsRemembered
  <2> QED
    BY <1>4, <2>2, <2>3, <2>4 DEF IInv
<1>6. CASE OpenFile(t)
  <2>1. file' = "empty" /\ UNCHANGED <<sha, got>> /\ pc'[t] = "write" /\ pc[t] = "open"
    BY <1>0, <1>6 DEF OpenFile, At, Go, syncVars, TypeOK
  <2>2. TypeOK'
    BY <1>0, <1>2, <1>3, <2>1 DEF TypeOK, Place, setup, queueVars, scanVars
  <2>3. Downloads'
    BY <1>0, <1>2, <2>1 DEF Downloads
  <2>4. FileIsRemembered'
    BY <2>1 DEF FileIsRemembered, Writing
  <2> QED
    BY <1>4, <2>2, <2>3, <2>4 DEF IInv
<1>7. CASE WriteFile(t)
  <2>1. /\ file' \in Overlaid(file, got[t])
        /\ UNCHANGED <<sha, got>> /\ pc'[t] = "verify" /\ pc[t] = "write"
    BY <1>0, <1>7 DEF WriteFile, At, Go, syncVars, TypeOK
  <2>2. file' \in Version \cup {"none", "empty", "torn"}
    BY <1>0, <2>1 DEF Downloads, Overlaid
  <2>3. TypeOK'
    BY <1>0, <1>2, <1>3, <2>1, <2>2 DEF TypeOK, Place, setup, queueVars, scanVars
  <2>4. Downloads'
    BY <1>0, <1>2, <2>1 DEF Downloads
  <2>5. FileIsRemembered'
    BY <2>1 DEF FileIsRemembered, Writing
  <2> QED
    BY <1>4, <2>3, <2>4, <2>5 DEF IInv
<1>8. CASE VerifyFile(t)
  <2>1. /\ sha' = [sha EXCEPT ![t] = Verified(t)]
        /\ got' = [got EXCEPT ![t] = ""]
        /\ pc'[t] = "start"
        /\ UNCHANGED file
    BY <1>0, <1>8 DEF VerifyFile, Go, TypeOK
  <2>2. Verified(t) \in {file, ""} /\ Verified(t) \in Version \cup {""}
    BY <1>0 DEF Verified, TypeOK
  <2>3. TypeOK'
    BY <1>0, <1>2, <1>3, <2>1, <2>2 DEF TypeOK, Place, setup, queueVars, scanVars
  <2>4. Downloads'
    BY <1>0, <1>2, <2>1 DEF Downloads, TypeOK
  <2>5. FileIsRemembered'
    <3>1. sha'[t] \in {file', ""}
      BY <1>0, <2>1, <2>2 DEF TypeOK
    <3> QED
      BY <3>1 DEF FileIsRemembered
  <2> QED
    BY <1>4, <2>3, <2>4, <2>5 DEF IInv
<1> QED
  BY <1>5, <1>6, <1>7, <1>8
-----------------------------------------------------------------------------
(* Scans *)

\* A step of a thread's scan that keeps its item.
LEMMA ScanStepKeeps ==
  ASSUME IInv, NEW t \in Thread, NEW place \in {"scan", "submit", "cleanup"}, Go(t, place),
         pc[t] \in {"start", "scan", "submit"},
         UNCHANGED <<setup, services, updates, file, main, queueVars, syncVars>>
  PROVE  Modes' /\ Items' /\ Downloads' /\ FileIsRemembered'
<1>0. TypeOK /\ Modes /\ Items /\ Downloads /\ FileIsRemembered
  BY DEF IInv
<1>1. /\ pc'[t] = place
      /\ \A u \in Thread : u # t => pc'[u] = pc[u]
  BY <1>0, GoMoves DEF Place
<1>2. Modes'
  BY <1>0, <1>1 DEF Modes, setup, queueVars
<1>3. Items'
  <2>1. Cardinality(Holding)' = Cardinality(Holding)
    BY <1>1, HoldingChanges
  <2>2. Unput' = Unput
    BY DEF Unput
  <2> QED
    BY <1>0, <2>1, <2>2 DEF Items, setup, queueVars
<1>4. Downloads'
  BY <1>0, <1>1 DEF Downloads, syncVars
<1>5. FileIsRemembered'
  BY <1>0, <1>1 DEF FileIsRemembered, syncVars, Writing
<1> QED
  BY <1>2, <1>3, <1>4, <1>5

LEMMA ScanKeepsInv ==
  ASSUME IInv, NEW t \in Thread, StartScan(t) \/ SubmitAnswered(t) \/ SubmitFails(t)
  PROVE  IInv'
<1>0. TypeOK /\ Attempts /\ Replies /\ Directories
  BY DEF IInv
<1>1. PICK place \in {"scan", "submit", "cleanup"} : Go(t, place)
  BY DEF StartScan, SubmitAnswered, SubmitFails
<1>2. /\ pc' \in [Thread -> Place]
      /\ pc'[t] = place
      /\ \A u \in Thread : u # t => pc'[u] = pc[u]
  BY <1>0, <1>1, GoMoves DEF Place
<1>3. /\ pc[t] \in {"start", "submit"}
      /\ UNCHANGED <<setup, services, updates, file, main, queueVars, syncVars, raised, lingering>>
  BY DEF StartScan, SubmitAnswered, SubmitFails, At
<1>4. Modes' /\ Items' /\ Downloads' /\ FileIsRemembered'
  BY <1>1, <1>3, ScanStepKeeps
<1>5. CASE StartScan(t)
  <2>1. /\ files' = [files EXCEPT ![t] = "scans"]
        /\ answered' = [answered EXCEPT ![t] = FALSE]
        /\ pc[t] = "start" /\ pc'[t] = "scan"
        /\ UNCHANGED <<tries, replied>>
    BY <1>0, <1>5 DEF StartScan, NoResponse, At, Go, TypeOK
  <2>2. TypeOK'
    BY <1>0, <1>2, <1>3, <2>1 DEF TypeOK, Place, setup, queueVars, syncVars
  <2>3. Attempts'
    BY <1>0, <1>2, <2>1 DEF Attempts
  <2>4. Replies'
    BY <1>0, <2>1 DEF Replies, TypeOK
  <2>5. Directories'
    BY <1>0, <1>2, <1>3, <2>1 DEF Directories, setup, queueVars, TypeOK
  <2> QED
    BY <1>4, <2>2, <2>3, <2>4, <2>5 DEF IInv
<1>6. CASE SubmitAnswered(t)
  <2>1. /\ answered' = [answered EXCEPT ![t] = TRUE]
        /\ replied' = [replied EXCEPT ![t] = TRUE]
        /\ pc[t] = "submit" /\ pc'[t] = "cleanup"
        /\ UNCHANGED <<tries, files>>
    BY <1>0, <1>6 DEF SubmitAnswered, At, Go, TypeOK
  <2>2. TypeOK'
    BY <1>0, <1>2, <1>3, <2>1 DEF TypeOK, Place, setup, queueVars, syncVars
  <2>3. Attempts'
    BY <1>0, <1>2, <2>1 DEF Attempts
  <2>4. Replies'
    BY <1>0, <2>1 DEF Replies, TypeOK
  <2>5. Directories'
    BY <1>0, <1>2, <1>3, <2>1 DEF Directories, setup, queueVars
  <2> QED
    BY <1>4, <2>2, <2>3, <2>4, <2>5 DEF IInv
<1>7. CASE SubmitFails(t)
  <2>1. /\ tries' = [tries EXCEPT ![t] = tries[t] + 1]
        /\ pc[t] = "submit"
        /\ pc'[t] = IF tries[t] + 1 = MaxRetries THEN "cleanup" ELSE "submit"
        /\ UNCHANGED <<answered, files, replied>>
    BY <1>0, <1>7 DEF SubmitFails, At, Go, TypeOK
  <2>2. tries[t] \in Nat /\ tries[t] < MaxRetries /\ tries[t] + 1 \in 0..MaxRetries
    <3>1. PICK n \in 0..MaxRetries : n = tries[t]
      BY <1>0 DEF TypeOK
    <3>2. n < MaxRetries
      BY <1>0, <2>1, <3>1 DEF Attempts
    <3>3. n \in Nat /\ n + 1 \in 0..MaxRetries
      BY <3>1, <3>2, RetriesArePositive
    <3> QED
      BY <3>1, <3>2, <3>3
  <2>3. TypeOK'
    BY <1>0, <1>2, <1>3, <2>1, <2>2 DEF TypeOK, Place, setup, queueVars, syncVars
  <2>4. Attempts'
    <3> SUFFICES ASSUME NEW u \in Thread
                 PROVE  /\ pc'[u] \notin {"submit", "cleanup"} => tries'[u] = 0
                        /\ pc'[u] = "submit" => tries'[u] < MaxRetries
      BY DEF Attempts
    <3>1. CASE u = t
      <4>1. tries'[u] = tries[t] + 1
        BY <1>0, <2>1, <3>1 DEF TypeOK
      <4> QED
        BY <2>1, <2>2, <3>1, <4>1, RetriesArePositive
    <3>2. CASE u # t
      <4>1. tries'[u] = tries[u]
        BY <1>0, <2>1, <3>2 DEF TypeOK
      <4> QED
        BY <1>0, <1>2, <3>2, <4>1 DEF Attempts
    <3> QED
      BY <3>1, <3>2
  <2>5. Replies'
    BY <1>0, <2>1 DEF Replies
  <2>6. Directories'
    BY <1>0, <1>2, <1>3, <2>1 DEF Directories, setup, queueVars
  <2> QED
    BY <1>4, <2>3, <2>4, <2>5, <2>6 DEF IInv
<1> QED
  BY <1>5, <1>6, <1>7
-----------------------------------------------------------------------------
(* Items *)

\* The counts of a manual run that is going on.
LEMMA Counts ==
  ASSUME TypeOK, Items, mode = "manual"
  PROVE  /\ queued \in Nat /\ unfinished \in Nat /\ lost \in Nat /\ todo \in Nat
         /\ Cardinality(Holding) \in Nat /\ MaxTargets \in Nat
         /\ Unput \in {0, 1}
         /\ unfinished = queued + Cardinality(Holding) + lost
         /\ todo + Unput + unfinished <= MaxTargets
<1>1. queued \in Nat /\ unfinished \in Nat /\ lost \in Nat /\ todo \in Nat /\ MaxTargets \in Nat
  <2>1. MaxTargets \in Nat
    BY AgentAssumption
  <2>2. PICK threads \in Nat : threads = Cardinality(Thread)
    BY AgentAssumption, FS_CardinalityType
  <2>3. /\ queued \in 0..threads /\ unfinished \in 0..MaxTargets
        /\ lost \in 0..MaxTargets /\ todo \in 0..MaxTargets
    BY <2>2 DEF TypeOK
  <2> QED
    BY <2>1, <2>2, <2>3
<1> QED
  BY <1>1, HoldingIsFinite DEF Items, Unput

LEMMA TakeItemKeepsInv ==
  ASSUME IInv, NEW t \in Thread, TakeItem(t)
  PROVE  IInv'
<1>0. TypeOK /\ Modes /\ Items /\ Attempts /\ Downloads /\ Replies /\ Directories /\ FileIsRemembered
  BY DEF IInv
<1>1. /\ pc' \in [Thread -> Place]
      /\ pc'[t] = "start" /\ pc[t] = "idle"
      /\ \A u \in Thread : u # t => pc'[u] = pc[u]
  BY <1>0, GoMoves DEF TakeItem, Place, At
<1>2. /\ mode = "manual" /\ queued > 0 /\ queued' = queued - 1
      /\ UNCHANGED <<setup, services, updates, file, main, todo, unfinished, lost, syncVars, scanVars>>
  BY DEF TakeItem
<1>3. PICK q, c : q = queued /\ c = Cardinality(Holding)
  OBVIOUS
<1>4. q \in Nat /\ q > 0 /\ c \in Nat /\ q - 1 \in Nat /\ q - 1 <= q
  BY <1>0, <1>2, <1>3, Counts
<1>5. TypeOK'
  <2>1. queued' \in 0..Cardinality(Thread)
    <3>1. PICK threads \in Nat : threads = Cardinality(Thread)
      BY AgentAssumption, FS_CardinalityType
    <3>2. q \in 0..threads
      BY <1>0, <1>3, <3>1 DEF TypeOK
    <3> QED
      BY <1>2, <1>3, <1>4, <3>1, <3>2
  <2> QED
    BY <1>0, <1>1, <1>2, <2>1 DEF TypeOK, Place, setup, syncVars, scanVars
<1>6. Modes'
  BY <1>0, <1>1, <1>2 DEF Modes, setup
<1>7. Items'
  <2>1. Cardinality(Holding)' = c + 1
    BY <1>1, <1>3, HoldingChanges
  <2>2. Unput' = Unput
    BY <1>2 DEF Unput
  <2>3. unfinished = queued' + Cardinality(Holding)' + lost
    BY <1>0, <1>2, <1>3, <1>4, <2>1, Counts
  <2> QED
    BY <1>0, <1>2, <2>2, <2>3 DEF Items, setup
<1>8. Attempts' /\ Downloads' /\ Replies' /\ Directories'
  BY <1>0, <1>1, <1>2 DEF Attempts, Downloads, Replies, Directories, setup, syncVars, scanVars
<1>9. FileIsRemembered'
  BY <1>2, <1>0 DEF FileIsRemembered, Modes, setup
<1> QED
  BY <1>5, <1>6, <1>7, <1>8, <1>9 DEF IInv

\* A thread is done with its item: the item is completed, or lost.
LEMMA CleanUpKeepsInv ==
  ASSUME IInv, NEW t \in Thread, CleanUp(t) \/ CleanUpFails(t)
  PROVE  IInv'
<1>0. TypeOK /\ Modes /\ Items /\ Attempts /\ Downloads /\ Replies /\ Directories /\ FileIsRemembered
  BY DEF IInv
<1>1. /\ pc[t] = "cleanup"
      /\ Forget(t)
      /\ UNCHANGED <<setup, services, updates, file, main, todo, queued, syncVars>>
      /\ files' = files \/ \E f \in {"failures", "none"} : files' = [files EXCEPT ![t] = f]
  BY DEF CleanUp, CleanUpFails, At
<1>2. /\ pc' \in [Thread -> Place]
      /\ pc'[t] = "idle"
      /\ \A u \in Thread : u # t => pc'[u] = pc[u]
  BY <1>0, <1>1, GoMoves DEF Forget, Place
<1>3. \/ /\ mode = "auto"
         /\ unfinished' = unfinished /\ lost' = lost
      \/ /\ mode = "manual"
         /\ unfinished' = unfinished - 1 /\ lost' = lost
         /\ \E f \in {"failures", "none"} : files' = [files EXCEPT ![t] = f]
      \/ /\ mode = "manual"
         /\ unfinished' = unfinished /\ lost' = lost + 1
  BY <1>0 DEF CleanUp, CleanUpFails, Completes, TypeOK
<1>4. mode = "manual" => /\ unfinished' \in 0..MaxTargets /\ lost' \in 0..MaxTargets
                         /\ lost' >= lost /\ lost \in Nat
                         /\ unfinished' = queued + Cardinality(Holding)' + lost'
                         /\ todo + Unput + unfinished' <= MaxTargets
  <2> SUFFICES ASSUME mode = "manual"
               PROVE  /\ unfinished' \in 0..MaxTargets /\ lost' \in 0..MaxTargets
                      /\ lost' >= lost /\ lost \in Nat
                      /\ unfinished' = queued + Cardinality(Holding)' + lost'
                      /\ todo + Unput + unfinished' <= MaxTargets
    OBVIOUS
  <2>1. PICK c \in Nat : c = Cardinality(Holding)
    BY HoldingIsFinite
  <2>2. c >= 1
    BY <1>1, <2>1, HoldingIsFinite DEF Holding
  <2>3. Cardinality(Holding)' = c - 1
    BY <1>1, <1>2, <2>1, HoldingChanges
  <2>4. /\ queued \in Nat /\ unfinished \in Nat /\ lost \in Nat /\ todo \in Nat
        /\ MaxTargets \in Nat /\ Unput \in Nat
        /\ unfinished = queued + c + lost
        /\ todo + Unput + unfinished <= MaxTargets
    BY <1>0, <2>1, Counts
  <2>5. CASE unfinished' = unfinished - 1 /\ lost' = lost
    BY <2>2, <2>3, <2>4, <2>5
  <2>6. CASE unfinished' = unfinished /\ lost' = lost + 1
    BY <2>2, <2>3, <2>4, <2>6
  <2> QED
    BY <1>3, <2>5, <2>6
<1>5. TypeOK'
  <2>1. unfinished' \in 0..MaxTargets /\ lost' \in 0..MaxTargets
    BY <1>0, <1>3, <1>4 DEF TypeOK
  <2>2. files' \in [Thread -> {"none", "scans", "failures"}]
    BY <1>0, <1>1 DEF TypeOK
  <2>3. 0 \in 0..MaxRetries
    BY RetriesArePositive
  <2>4. /\ tries' \in [Thread -> 0..MaxRetries]
        /\ answered' \in [Thread -> BOOLEAN]
        /\ raised' \in [Thread -> BOOLEAN]
        /\ lingering' \in [Thread -> BOOLEAN]
        /\ replied' \in [Thread -> BOOLEAN]
    BY <1>0, <1>1, <2>3 DEF Forget, TypeOK
  <2> QED
    BY <1>0, <1>1, <1>2, <2>1, <2>2, <2>4 DEF TypeOK, Place, setup, syncVars
<1>6. Modes'
  <2>1. mode = "auto" => unfinished' = unfinished /\ lost' = lost
    BY <1>3
  <2>2. main # "done"
    BY <1>0 DEF CleanUp, CleanUpFails, At, Running
  <2> QED
    BY <1>0, <1>1, <1>2, <2>1, <2>2 DEF Modes, setup
<1>7. Items'
  <2>1. Unput' = Unput
    BY <1>1 DEF Unput
  <2> QED
    BY <1>1, <1>4, <2>1 DEF Items, setup
<1>8. Attempts' /\ Replies'
  <2>1. /\ tries'[t] = 0 /\ ~answered'[t]
        /\ \A u \in Thread : u # t => /\ tries'[u] = tries[u]
                                      /\ answered'[u] = answered[u] /\ replied'[u] = replied[u]
    BY <1>0, <1>1 DEF Forget, TypeOK
  <2>2. Attempts'
    BY <1>0, <1>2, <2>1 DEF Attempts
  <2>3. Replies'
    BY <1>0, <2>1 DEF Replies
  <2> QED
    BY <2>2, <2>3
<1>9. Downloads'
  BY <1>0, <1>1, <1>2 DEF Downloads, syncVars
<1>10. Directories'
  <2> SUFFICES ASSUME mode = "manual", NEW u \in Thread, files'[u] = "scans"
               PROVE  lost' > 0 \/ pc'[u] \in {"scan", "shots", "submit", "cleanup"}
    BY <1>1 DEF Directories, setup
  <2>1. lost' >= lost /\ lost \in Nat /\ lost' \in Nat
    BY <1>4
  <2>2. CASE lost' = lost + 1
    BY <2>1, <2>2
  <2>3. CASE lost' = lost
    <3>1. PICK f \in {"failures", "none"} : files' = [files EXCEPT ![t] = f]
      BY <1>3, <2>1, <2>3
    <3>2. u # t /\ files[u] = "scans"
      BY <1>0, <3>1 DEF TypeOK
    <3> QED
      BY <1>0, <1>2, <2>3, <3>2 DEF Directories
  <2> QED
    BY <1>3, <2>2, <2>3
<1>11. FileIsRemembered'
  BY <1>0, <1>1, <1>2 DEF FileIsRemembered, syncVars, Writing
<1> QED
  BY <1>5, <1>6, <1>7, <1>8, <1>9, <1>10, <1>11 DEF IInv
-----------------------------------------------------------------------------
(* The main thread, the process and the server *)

LEMMA InitInv == Init => IInv
<1> SUFFICES ASSUME Init
             PROVE  IInv
  OBVIOUS
<1>1. /\ \A t \in Thread : pc[t] = "idle" /\ files[t] = "none" /\ tries[t] = 0 /\ ~answered[t]
      /\ main = "start" /\ queued = 0 /\ unfinished = 0 /\ lost = 0
  BY DEF Init
<1>2. /\ MaxTargets \in Nat /\ MaxUpdates \in Nat
      /\ Cardinality(Thread) \in Nat
      /\ 0 \in 0..MaxTargets /\ 0 \in 0..MaxUpdates /\ 0 \in 0..MaxRetries
      /\ 0 \in 0..Cardinality(Thread)
  <2>1. MaxTargets \in Nat /\ MaxUpdates \in Nat
    BY AgentAssumption
  <2>2. PICK threads \in Nat : threads = Cardinality(Thread)
    BY AgentAssumption, FS_CardinalityType
  <2> QED
    BY <2>1, <2>2, RetriesArePositive
<1>3. todo \in 0..MaxTargets /\ (mode = "auto" => todo = 0)
  BY <1>2 DEF Init
<1>4. TypeOK
  BY <1>2, <1>3 DEF Init, TypeOK
<1>5. Modes
  BY <1>1, <1>3 DEF Modes
<1>6. Items
  <2>1. Holding = {} /\ Cardinality({}) = 0 /\ Unput = 0
    BY <1>1, FS_EmptySet DEF Holding, Unput
  <2>2. unfinished = queued + Cardinality(Holding) + lost
    BY <1>1, <2>1
  <2>3. todo + Unput + unfinished <= MaxTargets
    BY <1>1, <1>2, <1>3, <2>1
  <2> QED
    BY <2>2, <2>3 DEF Items
<1>7. Attempts /\ Downloads /\ Replies /\ Directories /\ FileIsRemembered
  BY <1>1 DEF Attempts, Downloads, Replies, Directories, FileIsRemembered
<1> QED
  BY <1>4, <1>5, <1>6, <1>7 DEF IInv

LEMMA StartKeepsInv ==
  ASSUME IInv, Start
  PROVE  IInv'
<1>0. TypeOK /\ Modes /\ Items /\ Attempts /\ Downloads /\ Replies /\ Directories
  BY DEF IInv
<1>1. /\ main = "start"
      /\ file' \in Version \cup {"empty", "torn"}
      /\ sha' = [t \in Thread |-> file']
      /\ main' = IF mode = "auto" THEN "auto" ELSE "feed"
      /\ UNCHANGED <<setup, services, updates, queueVars, pc, got, scanVars>>
  BY <1>0 DEF Start, TypeOK
<1>2. TypeOK'
  BY <1>0, <1>1 DEF TypeOK, setup, queueVars, scanVars
<1>3. Modes'
  BY <1>0, <1>1 DEF Modes, setup, queueVars
<1>4. Items'
  <2>1. Unput' = 0 /\ Unput = 0
    BY <1>1 DEF Unput
  <2>2. Holding' = Holding
    BY <1>1 DEF Holding
  <2> QED
    BY <1>0, <1>1, <2>1, <2>2 DEF Items, setup, queueVars
<1>5. Attempts' /\ Downloads' /\ Replies' /\ Directories'
  BY <1>0, <1>1 DEF Attempts, Downloads, Replies, Directories, setup, queueVars, scanVars
<1>6. FileIsRemembered'
  <2>1. PICK t \in Thread : TRUE
    BY AgentAssumption
  <2> QED
    BY <1>1, <2>1 DEF FileIsRemembered
<1> QED
  BY <1>2, <1>3, <1>4, <1>5, <1>6 DEF IInv

\* What feeding the queue leaves alone.
LEMMA FeedKeeps ==
  ASSUME IInv, mode = "manual", main' # "auto",
         UNCHANGED <<setup, services, updates, file, lost, pc, syncVars, scanVars>>
  PROVE  Attempts' /\ Downloads' /\ Replies' /\ Directories' /\ FileIsRemembered'
  BY DEF IInv, Attempts, Downloads, Replies, Directories, FileIsRemembered, setup, syncVars, scanVars

LEMMA FeedKeepsInv ==
  ASSUME IInv, SkipTarget \/ GetTarget \/ Put \/ AllFed \/ Join
  PROVE  IInv'
<1>0. TypeOK /\ Modes /\ Items
  BY DEF IInv
<1>1. /\ mode = "manual" /\ main \in {"feed", "put", "join"} /\ main' \in {"feed", "put", "join", "done"}
      /\ UNCHANGED <<setup, services, updates, file, lost, pc, syncVars, scanVars>>
  BY <1>0 DEF SkipTarget, GetTarget, Put, AllFed, Join, Modes, TypeOK, queueVars
<1>2. Attempts' /\ Downloads' /\ Replies' /\ Directories' /\ FileIsRemembered'
  BY <1>1, FeedKeeps
<1>3. PICK c \in Nat : c = Cardinality(Holding)
  BY HoldingIsFinite
<1>4. Cardinality(Holding)' = c
  <2>1. Holding' = Holding
    BY <1>1 DEF Holding
  <2> QED
    BY <1>3, <2>1
<1>5. PICK threads \in Nat : threads = Cardinality(Thread)
  BY AgentAssumption, FS_CardinalityType
<1>6. /\ queued \in 0..threads /\ unfinished \in Nat /\ lost \in Nat /\ todo \in Nat
      /\ MaxTargets \in Nat
      /\ Unput \in {0, 1}
      /\ unfinished = queued + c + lost
      /\ todo + Unput + unfinished <= MaxTargets
  BY <1>0, <1>1, <1>3, <1>5, Counts DEF TypeOK
<1>put. PICK put : put = Unput'
  OBVIOUS
<1>7. /\ queued' \in 0..threads /\ unfinished' \in Nat /\ todo' \in Nat /\ put \in {0, 1}
      /\ unfinished' = queued' + c + lost
      /\ todo' + put + unfinished' <= MaxTargets
  <2>1. CASE SkipTarget
    BY <1>6, <1>put, <2>1 DEF SkipTarget, Unput
  <2>2. CASE GetTarget
    BY <1>6, <1>put, <2>2 DEF GetTarget, Unput
  <2>3. CASE Put
    BY <1>5, <1>6, <1>put, <2>3 DEF Put, Room, Unput
  <2>4. CASE AllFed \/ Join
    BY <1>6, <1>put, <2>4 DEF AllFed, Join, queueVars, Unput
  <2> QED
    BY <2>1, <2>2, <2>3, <2>4
<1>8. TypeOK'
  <2>1. PICK n \in Nat, m \in Nat : n = todo' /\ m = unfinished'
    BY <1>7
  <2>2. put \in Nat
    BY <1>7
  <2>3. MaxTargets \in Nat
    BY <1>6
  <2>4. n + put + m <= MaxTargets
    BY <1>7, <2>1
  <2>5. n \in 0..MaxTargets /\ m \in 0..MaxTargets
    BY <2>2, <2>3, <2>4
  <2> QED
    BY <1>0, <1>1, <1>5, <1>7, <2>1, <2>5 DEF TypeOK, setup, syncVars, scanVars
<1>9. Modes'
  <2>1. main' \in {"join", "done"} => todo' = 0
    BY <1>0 DEF SkipTarget, GetTarget, Put, AllFed, Join, Modes, queueVars
  <2>2. main' = "done" => unfinished' = 0
    BY DEF SkipTarget, GetTarget, Put, AllFed, Join, JoinReturns, queueVars
  <2> QED
    BY <1>0, <1>1, <2>1, <2>2 DEF Modes, setup
<1>10. Items'
  BY <1>1, <1>4, <1>7, <1>put DEF Items, setup
<1> QED
  BY <1>2, <1>8, <1>9, <1>10 DEF IInv

\* The process ends, or the server or nothing changes.
LEMMA OthersKeepInv ==
  ASSUME IInv, Exit \/ UpdateServices \/ UNCHANGED vars
  PROVE  IInv'
<1>0. TypeOK /\ Modes /\ Items /\ Attempts /\ Downloads /\ Replies /\ Directories /\ FileIsRemembered
  BY DEF IInv
<1>1. /\ UNCHANGED <<setup, file, queueVars, pc, syncVars, scanVars>>
      /\ main' = main \/ (main # "start" /\ main' = "exited")
      /\ services' \in Version /\ updates' \in 0..MaxUpdates
  <2>1. updates' = updates \/ (updates < MaxUpdates /\ updates' = updates + 1)
    BY DEF Exit, UpdateServices, vars
  <2>2. PICK n : n = updates
    OBVIOUS
  <2>3. n \in 0..MaxUpdates /\ MaxUpdates \in Nat
    BY <1>0, <2>2, AgentAssumption DEF TypeOK
  <2>4. updates' \in 0..MaxUpdates
    BY <2>1, <2>2, <2>3
  <2>5. services' \in Version
    BY <1>0 DEF Exit, UpdateServices, vars, TypeOK
  <2>6. /\ UNCHANGED <<setup, file, queueVars, pc, syncVars, scanVars>>
        /\ main' = main \/ (main # "start" /\ main' = "exited")
    BY DEF Exit, UpdateServices, vars, Running
  <2> QED
    BY <2>4, <2>5, <2>6
<1>2. TypeOK'
  BY <1>0, <1>1 DEF TypeOK, setup, queueVars, syncVars, scanVars
<1>3. Modes'
  BY <1>0, <1>1 DEF Modes, setup, queueVars
<1>4. Items'
  <2>1. Holding' = Holding
    BY <1>1 DEF Holding
  <2>2. CASE main' = main
    BY <1>0, <1>1, <2>1, <2>2 DEF Items, Unput, setup, queueVars
  <2>3. CASE main' = "exited"
    <3>1. Unput' = 0
      BY <2>3 DEF Unput
    <3>2. mode = "manual" => todo + 0 + unfinished <= MaxTargets
      BY <1>0, Counts
    <3> QED
      BY <1>0, <1>1, <2>1, <3>1, <3>2 DEF Items, setup, queueVars
  <2> QED
    BY <1>1, <2>2, <2>3
<1>5. Attempts' /\ Downloads' /\ Replies' /\ Directories'
  BY <1>0, <1>1 DEF Attempts, Downloads, Replies, Directories, setup, queueVars, syncVars, scanVars
<1>6. FileIsRemembered'
  BY <1>0, <1>1 DEF FileIsRemembered, syncVars
<1> QED
  BY <1>2, <1>3, <1>4, <1>5, <1>6 DEF IInv

LEMMA RestartKeepsInv ==
  ASSUME IInv, Restart
  PROVE  IInv'
<1>0. TypeOK /\ Modes
  BY DEF IInv
<1>1. /\ mode = "auto" /\ main' = "start"
      /\ \A t \in Thread : pc'[t] = "idle" /\ tries'[t] = 0 /\ ~answered'[t]
      /\ UNCHANGED <<setup, services, updates, file, queueVars, sha, files>>
  BY DEF Restart
<1>2. TypeOK'
  <2>1. 0 \in 0..MaxRetries
    BY RetriesArePositive
  <2>2. /\ pc' \in [Thread -> Place]
        /\ got' \in [Thread -> Version \cup {""}]
        /\ tries' \in [Thread -> 0..MaxRetries]
        /\ answered' \in [Thread -> BOOLEAN]
        /\ raised' \in [Thread -> BOOLEAN]
        /\ lingering' \in [Thread -> BOOLEAN]
        /\ replied' \in [Thread -> BOOLEAN]
    BY <2>1 DEF Restart, Place
  <2> QED
    BY <1>0, <1>1, <2>2 DEF TypeOK, Place, setup, queueVars
<1>3. Modes' /\ Items' /\ Directories'
  BY <1>0, <1>1 DEF Modes, Items, Directories, setup, queueVars
<1>4. Attempts' /\ Downloads' /\ Replies' /\ FileIsRemembered'
  BY <1>1 DEF Attempts, Downloads, Replies, FileIsRemembered
<1> QED
  BY <1>2, <1>3, <1>4 DEF IInv

LEMMA NextInv == IInv /\ [Next]_vars => IInv'
<1> SUFFICES ASSUME IInv, [Next]_vars
             PROVE  IInv'
  OBVIOUS
<1>1. CASE MainStep
  BY <1>1, StartKeepsInv, FeedKeepsInv DEF MainStep
<1>2. ASSUME NEW t \in Thread, \/ ThreadStep(t) \/ EndThread(t) \/ ScanRaises(t)
                               \/ ScreenshotTimesOut(t) \/ CleanUpFails(t)
      PROVE  IInv'
  BY <1>2, MovesKeepInv, DownloadKeepsInv, ScanKeepsInv, TakeItemKeepsInv, CleanUpKeepsInv
     DEF ThreadStep
<1>3. CASE Exit \/ UpdateServices \/ UNCHANGED vars
  BY <1>3, OthersKeepInv
<1>4. CASE Restart
  BY <1>4, RestartKeepsInv
<1> QED
  BY <1>1, <1>2, <1>3, <1>4 DEF Next

\* The invariant holds of every reachable state.
THEOREM Invariance == Spec => []IInv
  BY InitInv, NextInv, PTL DEF Spec
-----------------------------------------------------------------------------
(* The properties *)

\* Every variable has its type: the queue and its counts stay within bounds.
THEOREM TypeCorrect == Spec => []TypeOK
<1>1. IInv => TypeOK
  BY DEF IInv
<1> QED
  BY <1>1, Invariance, PTL

\* A manual run that says it is finished has nothing left: no target, no item
\* in the queue or with a thread, no lost scan and no scan directory.
THEOREM FinishedRunIsFinished == Spec => []FinishedIsFinished
<1>1. IInv => FinishedIsFinished
  <2> SUFFICES ASSUME IInv, main = "done"
               PROVE  /\ todo = 0 /\ queued = 0 /\ lost = 0
                      /\ \A t \in Thread : pc[t] = "idle" /\ files[t] # "scans"
    BY DEF FinishedIsFinished
  <2>1. mode = "manual" /\ todo = 0 /\ unfinished = 0
    BY DEF IInv, Modes, TypeOK
  <2>2. PICK c \in Nat : c = Cardinality(Holding)
    BY HoldingIsFinite
  <2>3. queued = 0 /\ lost = 0 /\ c = 0
    <3>1. TypeOK /\ Items
      BY DEF IInv
    <3>2. PICK q \in Nat, l \in Nat : q = queued /\ l = lost
      BY <2>1, <3>1, Counts
    <3>3. q + c + l = 0
      BY <2>1, <2>2, <3>1, <3>2, Counts
    <3>4. q = 0 /\ c = 0 /\ l = 0
      BY <3>3
    <3> QED
      BY <3>2, <3>4
  <2>4. Holding = {}
    BY <2>2, <2>3, HoldingIsFinite, FS_EmptySet
  <2>5. \A t \in Thread : pc[t] = "idle"
    BY <2>4 DEF Holding
  <2>6. \A t \in Thread : files[t] # "scans"
    BY <2>1, <2>3, <2>5 DEF IInv, Directories
  <2> QED
    BY <2>1, <2>3, <2>5, <2>6
<1> QED
  BY <1>1, Invariance, PTL

\* When no thread is writing the services file and it is not the server's,
\* some thread will download it with its next work.
THEOREM WrongFileNoticed == Spec => []WrongFileIsNoticed
<1>1. IInv => WrongFileIsNoticed
  <2> SUFFICES ASSUME IInv, mode = "auto", Running,
                      \A t \in Thread : pc[t] \notin Writing, file # services
               PROVE  \E t \in Thread : sha[t] # services
    BY DEF WrongFileIsNoticed
  <2>1. main = "auto"
    BY DEF IInv, Modes, Running
  <2>2. PICK t \in Thread : sha[t] \in {file, ""}
    BY <2>1 DEF IInv, FileIsRemembered
  <2>3. services # ""
    BY AgentAssumption DEF IInv, TypeOK
  <2> QED
    BY <2>2, <2>3
<1> QED
  BY <1>1, Invariance, PTL

\* With save_fails a scan directory is emptied only after the server replied.
THEOREM UnansweredFilesKept == Spec => UnansweredFilesAreKept
<1>1. IInv /\ [Next]_vars =>
        [\A t \in Thread : saveFails /\ files[t] = "scans" /\ files'[t] = "none" => replied[t]]_vars
  <2> SUFFICES ASSUME IInv, Next, NEW t \in Thread,
                      saveFails, files[t] = "scans", files'[t] = "none"
               PROVE  replied[t]
    OBVIOUS
  <2>1. PICK u \in Thread : CleanUp(u) \/ StartScan(u)
    BY DEF Next, MainStep, ThreadStep, Start, SkipTarget, GetTarget, Put, AllFed, Join, GetWork,
           EndThread, TakeItem, FetchServices, OpenFile, WriteFile, VerifyFile, ScanReports,
           TakeScreenshots, ScreenshotTimesOut, ScanHasNoReport, ScanRaises, SubmitAnswered,
           SubmitFails, CleanUpFails, Exit, Restart, UpdateServices, scanVars
  <2>2. CleanUp(u) /\ u = t /\ ~KeepsFiles(t)
    BY <2>1 DEF IInv, TypeOK, CleanUp, StartScan
  <2> QED
    BY <2>2 DEF KeepsFiles, IInv, Replies
<1> QED
  BY <1>1, Invariance, PTL DEF Spec, UnansweredFilesAreKept
=============================================================================
