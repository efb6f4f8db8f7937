--------------------------- MODULE RescanLifecycle ---------------------------
(***************************************************************************)
(* What the rescan queue promises to the users who request rescans,        *)
(* without caches, agents, retries or time.  A request is a row of the     *)
(* rescan_task table.  It waits, is handed to an agent, may be put back    *)
(* when it has been out for too long, and ends with the id of the scan     *)
(* that answered it.  RescanQueue implements this specification.           *)
(***************************************************************************)
CONSTANTS Task,     \* rows the table can hold
          Ip,       \* targets
          ScanId,   \* scan ids
          None      \* SQL NULL

VARIABLES stage,    \* where each request is
          host,     \* the target of each request
          scanned   \* the scan id that answered it

lifeVars == <<stage, host, scanned>>

Open == {t \in Task : stage[t] \in {"pending", "dispatched"}}

Init == /\ stage = [t \in Task |-> "absent"]
        /\ host = [t \in Task |-> None]
        /\ scanned = [t \in Task |-> None]

\* A user asks for a rescan of a target that has no open request.
Request(t, ip) == /\ stage[t] = "absent"
                  /\ \A u \in Open : host[u] # ip
                  /\ stage' = [stage EXCEPT ![t] = "pending"]
                  /\ host' = [host EXCEPT ![t] = ip]
                  /\ UNCHANGED scanned

\* The request is handed to an agent: only a waiting one can be.
Dispatch(t) == /\ stage[t] = "pending"
               /\ stage' = [stage EXCEPT ![t] = "dispatched"]
               /\ UNCHANGED <<host, scanned>>

\* It has been out for too long and waits again.
Refresh(t) == /\ stage[t] = "dispatched"
              /\ stage' = [stage EXCEPT ![t] = "pending"]
              /\ UNCHANGED <<host, scanned>>

\* A scan answers it: one scan answers one request.
Complete(t, s) == /\ stage[t] = "dispatched"
                  /\ \A u \in Task : scanned[u] # s
                  /\ stage' = [stage EXCEPT ![t] = "complete"]
                  /\ scanned' = [scanned EXCEPT ![t] = s]
                  /\ UNCHANGED host

Next == \E t \in Task : \/ \E ip \in Ip : Request(t, ip)
                        \/ Dispatch(t)
                        \/ Refresh(t)
                        \/ \E s \in ScanId : Complete(t, s)

Spec == Init /\ [][Next]_lifeVars
=============================================================================
