---------------------------- MODULE ElasticClient ----------------------------
(***************************************************************************)
(* The connection of natlas-server to Elasticsearch.  At start-up the      *)
(* server pings it, reads its version and creates the two indices, and it  *)
(* exits when one of these fails.  Later every query goes through          *)
(* _execute_raw_query: a failed connection sets status to False, and from  *)
(* then on queries are refused without being sent, except that one may     *)
(* ping again when the last attempt is at least Interval ago.  That age is *)
(* read from timedelta.seconds, which wraps at a day.                      *)
(***************************************************************************)
EXTENDS Integers

CONSTANTS Interval,  \* the 30 seconds between attempts, in ticks
          Day,       \* ticks in a day
          MaxStops   \* bound on restarts for other reasons

ASSUME TimeAssumption == /\ Interval \in Nat \ {0}
                         /\ Day \in Nat
                         /\ Interval < Day
                         /\ MaxStops \in Nat

VARIABLES up,         \* Elasticsearch answers
          indices,    \* indices that exist in it
          mapped,     \* indices that were given their mapping
          stage,      \* what the server does: "stopped", "info", the index it
                      \* initializes, "serving"
          status,     \* ElasticClient.status
          versioned,  \* ElasticClient.esversion is set
          since,      \* delta.seconds: age of lastReconnectAttempt, modulo Day
          stops       \* stops so far

clientVars == <<status, versioned, since>>
vars == <<up, indices, mapped, stage, clientVars, stops>>

Index == {"latest", "history"}

Init == /\ up \in BOOLEAN
        /\ indices = {}
        /\ mapped = {}
        /\ stage = "stopped"
        /\ status = FALSE
        /\ versioned = FALSE
        /\ since = 0
        /\ stops = 0
-----------------------------------------------------------------------------
(* create_app *)

\* Mutant: asks for the version whether there was an answer or not.
AfterPing_unchecked == "info"

\* Without an answer the version is not asked for.
AfterPing == IF up THEN "info" ELSE "latest"

\* ElasticClient.__init__ pings.
Start == /\ stage = "stopped"
         /\ status' = up
         /\ versioned' = FALSE
         /\ since' = 0
         /\ stage' = AfterPing
         /\ UNCHANGED <<up, indices, mapped, stops>>

ReadVersion == /\ stage = "info"
               /\ versioned' = up
               /\ stage' = IF up THEN "latest" ELSE "stopped"
               /\ UNCHANGED <<up, indices, mapped, status, since, stops>>

\* initialize_index, up to its pause.
CreateIndex == /\ stage \in Index
               /\ stage \notin indices
               /\ up
               /\ indices' = indices \cup {stage}
               /\ UNCHANGED <<up, mapped, stage, clientVars, stops>>

\* Mutant: an unknown version is taken for a new one.
KnowsVersion_assumed == TRUE

\* esversion.match raises if esversion was never set.
KnowsVersion == versioned

\* The rest of it.
PutMapping == /\ stage \in indices
              /\ up
              /\ KnowsVersion
              /\ mapped' = mapped \cup {stage}
              /\ stage' = IF stage = "latest" THEN "history" ELSE "serving"
              /\ UNCHANGED <<up, indices, clientVars, stops>>

\* No answer, or no version to compare with: create_app raises.
InitializeFails == /\ stage \in Index
                   /\ ~up \/ (stage \in indices /\ ~KnowsVersion)
                   /\ stage' = "stopped"
                   /\ UNCHANGED <<up, indices, mapped, clientVars, stops>>
-----------------------------------------------------------------------------
(* Queries *)

\* Mutant: a query that was refused counts as an attempt.
SinceRefusal_reset == 0

SinceRefusal == since

\* The connection was good: the query is sent.
Query == /\ stage = "serving"
         /\ status
         /\ status' = up
         /\ UNCHANGED <<up, indices, mapped, stage, versioned, since, stops>>

\* _attempt_reconnect, when the last attempt is too recent.
RefuseQuery == /\ stage = "serving"
               /\ ~status
               /\ since < Interval
               /\ since' = SinceRefusal
               /\ UNCHANGED <<up, indices, mapped, stage, status, versioned, stops>>

\* Otherwise it pings, and the query is sent if there is an answer.
RetryConnection == /\ stage = "serving"
                   /\ ~status
                   /\ since >= Interval
                   /\ status' = up
                   /\ since' = 0
                   /\ UNCHANGED <<up, indices, mapped, stage, versioned, stops>>
-----------------------------------------------------------------------------
(* Time, Elasticsearch, and people *)

Aged == (since + 1) % Day

Tick == /\ since' = Aged
        /\ UNCHANGED <<up, indices, mapped, stage, status, versioned, stops>>

Flip == /\ up' = ~up
        /\ UNCHANGED <<indices, mapped, stage, clientVars, stops>>

Stop == /\ stops < MaxStops
        /\ stage # "stopped"
        /\ stage' = "stopped"
        /\ stops' = stops + 1
        /\ UNCHANGED <<up, indices, mapped, clientVars>>

Startup == Start \/ ReadVersion \/ CreateIndex \/ PutMapping \/ InitializeFails

Next == \/ Startup
        \/ Query
        \/ RefuseQuery
        \/ RetryConnection
        \/ Tick
        \/ Flip
        \/ Stop

Spec == Init /\ [][Next]_vars

\* The server is started again when it exits and its start-up goes on; time
\* passes; and queries are not all made in the first Interval of a day after
\* the last attempt, as agents keep asking for work at random intervals.
FairSpec == /\ Spec
            /\ WF_vars(Startup)
            /\ WF_vars(Tick)
            /\ SF_vars(RetryConnection)
-----------------------------------------------------------------------------
(* Properties *)

\* The types; an index has its mapping only if it exists, and the version is
\* only asked for after an answer.
TypeOK == /\ up \in BOOLEAN
          /\ indices \subseteq Index
          /\ mapped \subseteq indices
          /\ stage \in {"stopped", "info", "serving"} \cup Index
          /\ status \in BOOLEAN
          /\ stage = "info" => status
          /\ versioned \in BOOLEAN
          /\ since \in 0..Day-1
          /\ stops \in 0..MaxStops

\* A server that answers requests knows the version it talks to and has both
\* indices with their mappings, however Elasticsearch came and went while it
\* started and in earlier starts.
ServingIsInitialized == stage = "serving" => versioned /\ mapped = Index

\* Once Elasticsearch stays up the server serves and sends its queries again,
\* although the age of the last attempt wraps every day and refused queries
\* keep coming.
OutageEnds == <>[]up => <>[](stage = "serving" /\ status)
=============================================================================
