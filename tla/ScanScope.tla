------------------------------ MODULE ScanScope ------------------------------
(***************************************************************************)
(* What natlas-server scans: the scope_item table, the sets a ScanGroup    *)
(* caches of it, the scan manager that walks the effective scope in cycles *)
(* of random order, and the work handed out and submitted meanwhile.       *)
(*                                                                         *)
(* The server is one synchronous worker, so a handler is one step.  The    *)
(* command line imports into the same table from another process, which   *)
(* the worker does not notice.  Rescans are reduced to the set of targets  *)
(* that wait; RescanQueue has their details.                               *)
(***************************************************************************)
EXTENDS Integers, FiniteSets

CONSTANTS Item,       \* targets of scope_item: the column is unique
          Addr,       \* IP addresses
          Covers,     \* the addresses of an item's network
          Agent,      \* agent threads
          MaxEvents,  \* bound on restarts and on steps of people
          Faults,     \* of "restart" (of the worker), "cli" (imports on the
                      \* command line)
          None        \* Python None

ASSUME ScopeAssumption == /\ Covers \in [Item -> SUBSET Addr]
                          /\ IsFiniteSet(Addr)
                          /\ MaxEvents \in Nat

ASSUME NoneIsNoManager == None \notin [addrs : SUBSET Addr, left : SUBSET Addr]

VARIABLES rows,       \* the table: item -> absent, or its blacklist column
          scope,      \* ScanGroup.scope.set
          blacklist,  \* ScanGroup.blacklist.set
          effective,  \* ScanGroup.effective_size
          manager,    \* ScanGroup.scan_manager: its addresses, and those left
                      \* of the current cycle
          behind,     \* the command line changed the table since the group was
                      \* updated (history)
          rescans,    \* targets of waiting rescans
          job,        \* agent thread -> the work it was given
          stored,     \* addresses with a result
          events      \* restarts and steps of people so far

cacheVars == <<scope, blacklist, effective, manager, behind>>
vars == <<rows, cacheVars, rescans, job, stored, events>>

Kind == {"scope", "blacklist"}
Row == Kind \cup {"absent"}

\* getScope and getBlacklist, as sets of addresses.
Covered(table, kind) == UNION {Covers[i] : i \in {j \in Item : table[j] = kind}}

Effective(table) == Covered(table, "scope") \ Covered(table, "blacklist")

\* A cycle hands out every address once.
NewManager(addrs) == [addrs |-> addrs, left |-> addrs]
-----------------------------------------------------------------------------
(* ScanGroup.update *)

\* Mutant: the scan manager ignores the blacklist.
Managed_all(table) == Covered(table, "scope")

Managed(table) == Effective(table)

\* IPScanManager refuses an empty scope: at start-up that is only logged, but
\* a manager that is in use is kept and the exception passed on.
Raises(table) == Managed(table) = {} /\ manager # None

\* Mutant: a manager that exists is kept.
Remake_once(table) == manager = None /\ Managed(table) # {}

Remake(table) == Managed(table) # {}

\* Mutant: only the scope is read again.
Reread_scopeOnly(table) == /\ scope' = Covered(table, "scope")
                           /\ blacklist' = blacklist

Reread(table) == /\ scope' = Covered(table, "scope")
                 /\ blacklist' = Covered(table, "blacklist")

Update(table) ==
  /\ Reread(table)
  /\ manager' = IF Remake(table) THEN NewManager(Managed(table)) ELSE manager
  /\ effective' = IF Raises(table) THEN effective ELSE Cardinality(Effective(table))
  /\ behind' = FALSE

\* create_app, on the table it finds.
Load(table) ==
  /\ Reread(table)
  /\ manager' = IF Effective(table) = {} THEN None ELSE NewManager(Managed(table))
  /\ effective' = Cardinality(Effective(table))
  /\ behind' = FALSE

Init == /\ rows \in [Item -> Row]
        /\ scope = Covered(rows, "scope")
        /\ blacklist = Covered(rows, "blacklist")
        /\ manager = IF Effective(rows) = {} THEN None ELSE NewManager(Managed(rows))
        /\ effective = Cardinality(Effective(rows))
        /\ behind = FALSE
        /\ rescans = {}
        /\ job = [a \in Agent |-> None]
        /\ stored = {}
        /\ events = 0
-----------------------------------------------------------------------------
(* Administrators *)

Event == events < MaxEvents /\ events' = events + 1

\* A page that changes the table updates the group before it answers.
ChangeTable(table) == /\ Event
                      /\ rows' = table
                      /\ Update(table)
                      /\ UNCHANGED <<rescans, job, stored>>

\* The form refuses a target that exists.
AddItem(i, kind) == /\ rows[i] = "absent"
                    /\ ChangeTable([rows EXCEPT ![i] = kind])

DeleteItem(i) == /\ rows[i] # "absent"
                 /\ ChangeTable([rows EXCEPT ![i] = "absent"])

ToggleItem(i) ==
  /\ rows[i] # "absent"
  /\ ChangeTable([rows EXCEPT ![i] = IF @ = "scope" THEN "blacklist" ELSE "scope"])

\* import_scope_list: INSERT OR IGNORE.
Imported(items, kind) ==
  [i \in Item |-> IF i \in items /\ rows[i] = "absent" THEN kind ELSE rows[i]]

ImportItems(items, kind) == ChangeTable(Imported(items, kind))

\* flask scope import
ImportOnCommandLine(items, kind) ==
  /\ "cli" \in Faults
  /\ Event
  /\ rows' = Imported(items, kind)
  /\ behind' = TRUE
  /\ UNCHANGED <<scope, blacklist, effective, manager, rescans, job, stored>>

RestartServer ==
  /\ "restart" \in Faults
  /\ Event
  /\ Load(rows)
  /\ UNCHANGED <<rows, rescans, job, stored>>
-----------------------------------------------------------------------------
(* Work *)

\* A valid form is enough: the target need not be in scope.
RequestRescan(ip) == /\ Event
                     /\ rescans' = rescans \cup {ip}
                     /\ UNCHANGED <<rows, cacheVars, job, stored>>

Give(a, ip, reason) == job' = [job EXCEPT ![a] = [ip |-> ip, reason |-> reason]]

\* getwork: waiting rescans first.
GetRescan(a) == /\ job[a] = None
                /\ \E ip \in rescans : /\ Give(a, ip, "requested")
                                       /\ rescans' = rescans \ {ip}
                /\ UNCHANGED <<rows, cacheVars, stored, events>>

\* Mutant: the cycle ends with its last address.
Rest_noRestart(m, ip) == m.left \ {ip}

\* With the last address of a cycle the next begins.
Rest(m, ip) == IF m.left = {ip} THEN m.addrs ELSE m.left \ {ip}

\* getwork: the manager's next address if no rescan waits.
GetAuto(a) ==
  /\ job[a] = None
  /\ rescans = {}
  /\ manager # None
  /\ \E ip \in manager.left :
       /\ Give(a, ip, "auto")
       /\ manager' = [manager EXCEPT !.left = Rest(manager, ip)]
  /\ UNCHANGED <<rows, scope, blacklist, effective, behind, rescans, stored, events>>

\* 404: the agent waits and asks again.
GetNothing(a) == /\ job[a] = None
                 /\ rescans = {}
                 /\ manager = None
                 /\ UNCHANGED vars

\* is_acceptable_target: a group without scope is updated first, and the
\* result is that of the sets after it.
Check == IF scope = {} THEN Update(rows) ELSE UNCHANGED cacheVars
CheckRaises == scope = {} /\ Raises(rows)

\* Mutant: the blacklist is not consulted.
Acceptable_blacklisted(ip) == ip \in scope'

Acceptable(ip) == ip \notin blacklist' /\ ip \in scope'

\* getwork for a target an operator starts the agent with.
GetManual(a, ip) == /\ Event
                    /\ job[a] = None
                    /\ Check
                    /\ ~CheckRaises /\ Acceptable(ip)
                    /\ Give(a, ip, "manual")
                    /\ UNCHANGED <<rows, rescans, stored>>

GetManualRefused(a, ip) == /\ Event
                           /\ job[a] = None
                           /\ Check
                           /\ CheckRaises \/ ~Acceptable(ip)
                           /\ UNCHANGED <<rows, rescans, job, stored>>

Done(a) == job' = [job EXCEPT ![a] = None]

\* submit, when nmap reports a host: stored if the target is acceptable.
SubmitHost(a) ==
  /\ job[a] # None
  /\ Check
  /\ ~CheckRaises
  /\ stored' = IF Acceptable(job[a].ip) THEN stored \cup {job[a].ip} ELSE stored
  /\ Done(a)
  /\ UNCHANGED <<rows, rescans, events>>

\* The report counts a host but lists none, as for a host that is down: there
\* is no address to check.
SubmitNoHost(a) == /\ job[a] # None
                   /\ stored' = stored \cup {job[a].ip}
                   /\ Done(a)
                   /\ UNCHANGED <<rows, cacheVars, rescans, events>>

\* The result is refused for another reason, its check raises until the agent
\* gives up, or the agent never submits it.
Abandon(a) == /\ job[a] # None
              /\ \/ UNCHANGED cacheVars
                 \/ Check /\ CheckRaises
              /\ Done(a)
              /\ UNCHANGED <<rows, rescans, stored, events>>

Next == \/ \E i \in Item : \/ \E kind \in Kind : AddItem(i, kind)
                           \/ DeleteItem(i)
                           \/ ToggleItem(i)
        \/ \E items \in SUBSET Item, kind \in Kind :
             \/ ImportItems(items, kind)
             \/ ImportOnCommandLine(items, kind)
        \/ RestartServer
        \/ \E ip \in Addr : RequestRescan(ip)
        \/ \E a \in Agent : \/ GetRescan(a)
                            \/ GetAuto(a)
                            \/ GetNothing(a)
                            \/ \E ip \in Addr : GetManual(a, ip) \/ GetManualRefused(a, ip)
                            \/ SubmitHost(a)
                            \/ SubmitNoHost(a)
                            \/ Abandon(a)

Spec == Init /\ [][Next]_vars

\* An agent thread that has nothing to do asks for work, and a scan ends.
Fairness == \A a \in Agent : /\ WF_vars(GetRescan(a) \/ GetAuto(a))
                             /\ WF_vars(SubmitHost(a) \/ SubmitNoHost(a) \/ Abandon(a))

FairSpec == Spec /\ Fairness
-----------------------------------------------------------------------------
(* Properties *)

Manager == [addrs : SUBSET Addr, left : SUBSET Addr]

TypeOK ==
  /\ rows \in [Item -> Row]
  /\ scope \subseteq Addr
  /\ blacklist \subseteq Addr
  /\ effective \in 0..Cardinality(Addr)
  /\ manager \in Manager \cup {None}
  /\ manager # None => manager.left \subseteq manager.addrs /\ manager.left # {}
  /\ rescans \subseteq Addr
  /\ job \in [Agent -> [ip : Addr, reason : {"auto", "requested", "manual"}] \cup {None}]
  /\ stored \subseteq Addr
  /\ events \in 0..MaxEvents

\* What the server caches is the table, through updates that raise, checks
\* that update and restarts, until an import on the command line.
GroupIsTable ==
  ~behind => /\ scope = Covered(rows, "scope")
             /\ blacklist = Covered(rows, "blacklist")

\* The cached parts fit each other also after such an import: the manager
\* walks, and the pages show the size of, what the cached sets leave, unless
\* that is nothing.
GroupFitsTogether ==
  scope \ blacklist # {} =>
    /\ manager # None
    /\ manager.addrs = scope \ blacklist
    /\ effective = Cardinality(scope \ blacklist)

GivenUnasked(a) == /\ job'[a] # job[a]
                   /\ job'[a] # None
                   /\ job'[a].reason # "requested"

\* As long as there is a scope, no thread is given an address outside of it,
\* or on the blacklist, but for a rescan a user asked for.
WorkIsInScope ==
  [][\A a \in Agent : GivenUnasked(a) /\ ~behind /\ Effective(rows) # {}
                        => job'[a].ip \in Effective(rows)]_vars

\* A host that left the scope, or was blacklisted, while it was scanned is not
\* stored: the check at submission looks at the scope as it is then.
HostInScopeIsStored ==
  [][\A a \in Agent : SubmitHost(a) /\ ~behind
                        => stored' \ stored \subseteq Effective(rows)]_vars

\* README.md: "A scope is REQUIRED for agents to do any work".
WorkNeedsScope ==
  [][\A a \in Agent : GivenUnasked(a) /\ ~behind => Effective(rows) # {}]_vars

\* Once the scope stays as it is, every address of it is handed out again and
\* again: changes restart the cycle, rescans go first, but nothing is left out.
EveryAddressIsScanned ==
  \A ip \in Addr :
    <>[](~behind /\ ip \in Effective(rows))
      => []<>(\E a \in Agent : job[a] # None /\ job[a].ip = ip)
=============================================================================
