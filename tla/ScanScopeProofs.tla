--------------------------- MODULE ScanScopeProofs ---------------------------
(***************************************************************************)
(* Proofs about ScanScope, for every table, network, number of agents and  *)
(* length of the history.                                                  *)
(***************************************************************************)
EXTENDS ScanScope, FiniteSetTheorems, TLAPS

(* The inductive invariant: the manager hands out what the cached sets     *)
(* leave only because both are read from the same table, and an update     *)
(* that raises leaves a manager behind exactly when that is nothing.       *)
IInv == TypeOK /\ GroupIsTable /\ GroupFitsTogether

Caches == /\ scope \subseteq Addr
          /\ blacklist \subseteq Addr
          /\ effective \in 0..Cardinality(Addr)
          /\ manager \in Manager \cup {None}
          /\ manager # None => manager.left \subseteq manager.addrs /\ manager.left # {}

-----------------------------------------------------------------------------
(* The operators *)

\* A table covers addresses.
LEMMA CoveredIsAddr ==
  ASSUME NEW table \in [Item -> Row], NEW kind
  PROVE  Covered(table, kind) \in SUBSET Addr
  BY ScopeAssumption DEF Covered

\* The effective scope is a set of addresses, and its size that of one.
LEMMA EffectiveIsAddr ==
  ASSUME NEW table \in [Item -> Row]
  PROVE  /\ Effective(table) \in SUBSET Addr
         /\ Cardinality(Effective(table)) \in 0..Cardinality(Addr)
<1>1. Effective(table) \in SUBSET Addr
  BY CoveredIsAddr DEF Effective
<1>2. /\ IsFiniteSet(Effective(table))
      /\ Cardinality(Effective(table)) <= Cardinality(Addr)
  BY <1>1, FS_Subset, ScopeAssumption
<1>3. Cardinality(Effective(table)) \in Nat /\ Cardinality(Addr) \in Nat
  BY <1>2, FS_CardinalityType, ScopeAssumption
<1> QED
  BY <1>1, <1>2, <1>3

\* A new manager is one, has not begun its cycle, and walks what it was given.
LEMMA NewManagerIsManager ==
  ASSUME NEW addrs \in SUBSET Addr, addrs # {}
  PROVE  /\ NewManager(addrs) \in Manager
         /\ NewManager(addrs) # None
         /\ NewManager(addrs).addrs = addrs
         /\ NewManager(addrs).left = addrs
  BY NoneIsNoManager DEF NewManager, Manager

\* An update leaves a group that is the table and fits together, also when it
\* raises.
LEMMA UpdateFits ==
  ASSUME Caches, NEW table \in [Item -> Row], rows' = table, Update(table)
  PROVE  Caches' /\ GroupIsTable' /\ GroupFitsTogether'
<1> USE DEF Managed, Remake, Raises, Reread
<1>1. /\ scope' = Covered(table, "scope")
      /\ blacklist' = Covered(table, "blacklist")
      /\ scope' \ blacklist' = Effective(table)
  BY DEF Update, Effective
<1>2. GroupIsTable'
  BY <1>1 DEF GroupIsTable
<1>3. CASE Effective(table) = {}
  <2>1. manager' = manager
    BY <1>3 DEF Update
  <2>2. effective' \in 0..Cardinality(Addr)
    BY EffectiveIsAddr DEF Update, Caches
  <2>3. Caches'
    BY <1>1, <2>1, <2>2, CoveredIsAddr DEF Caches
  <2> QED
    BY <1>1, <1>2, <1>3, <2>3 DEF GroupFitsTogether
<1>4. CASE Effective(table) # {}
  <2>1. manager' = NewManager(Effective(table))
    BY <1>4 DEF Update
  <2>2. effective' = Cardinality(Effective(table))
    BY <1>4 DEF Update
  <2>3. /\ manager' \in Manager
        /\ manager' # None
        /\ manager'.addrs = Effective(table)
        /\ manager'.left = Effective(table)
    BY <1>4, <2>1, EffectiveIsAddr, NewManagerIsManager
  <2>4. Caches'
    BY <1>1, <1>4, <2>2, <2>3, CoveredIsAddr, EffectiveIsAddr DEF Caches
  <2> QED
    BY <1>1, <1>2, <2>2, <2>3, <2>4 DEF GroupFitsTogether
<1> QED
  BY <1>3, <1>4

\* So does what create_app loads.
LEMMA LoadFits ==
  ASSUME rows' \in [Item -> Row], Load(rows')
  PROVE  Caches' /\ GroupIsTable' /\ GroupFitsTogether'
<1> DEFINE table == rows'
<1> USE DEF Managed, Reread
<1>1. /\ scope' = Covered(table, "scope")
      /\ blacklist' = Covered(table, "blacklist")
      /\ scope' \ blacklist' = Effective(table)
      /\ effective' = Cardinality(Effective(table))
  BY DEF Load, Effective
<1>2. GroupIsTable'
  BY <1>1 DEF GroupIsTable
<1>3. /\ scope' \subseteq Addr
      /\ blacklist' \subseteq Addr
      /\ effective' \in 0..Cardinality(Addr)
  BY <1>1, CoveredIsAddr, EffectiveIsAddr
<1>4. CASE Effective(table) = {}
  BY <1>1, <1>2, <1>3, <1>4 DEF Load, Caches, GroupFitsTogether
<1>5. CASE Effective(table) # {}
  <2>1. manager' = NewManager(Effective(table))
    BY <1>5 DEF Load
  <2>2. /\ manager' \in Manager
        /\ manager' # None
        /\ manager'.addrs = Effective(table)
        /\ manager'.left = Effective(table)
    BY <1>5, <2>1, EffectiveIsAddr, NewManagerIsManager
  <2> QED
    BY <1>1, <1>2, <1>3, <1>5, <2>2 DEF Caches, GroupFitsTogether
<1> QED
  BY <1>4, <1>5

\* A check leaves the group so, whether or not it updates it.
LEMMA CheckFits ==
  ASSUME IInv, Check, rows' = rows
  PROVE  Caches' /\ GroupIsTable' /\ GroupFitsTogether'
<1>1. Caches /\ rows \in [Item -> Row]
  BY DEF IInv, TypeOK, Caches
<1>2. CASE scope = {}
  BY <1>1, <1>2, UpdateFits DEF Check
<1>3. CASE scope # {}
  BY <1>1, <1>3 DEF Check, Caches, cacheVars, IInv, GroupIsTable, GroupFitsTogether
<1> QED
  BY <1>2, <1>3

\* After a check the result is that of the table.
LEMMA CheckedIsInScope ==
  ASSUME IInv, Check, rows' = rows, ~behind, NEW ip, Acceptable(ip)
  PROVE  ip \in Effective(rows)
<1>1. CASE scope = {}
  BY <1>1 DEF Check, Update, Reread, Acceptable, Effective
<1>2. CASE scope # {}
  BY <1>2 DEF Check, cacheVars, Acceptable, Effective, IInv, GroupIsTable
<1> QED
  BY <1>1, <1>2
-----------------------------------------------------------------------------
(* The invariant *)

\* The variables of TypeOK that are not cached.
Others == /\ rows \in [Item -> Row]
          /\ rescans \subseteq Addr
          /\ job \in [Agent -> [ip : Addr, reason : {"auto", "requested", "manual"}]
                               \cup {None}]
          /\ stored \subseteq Addr
          /\ events \in 0..MaxEvents

LEMMA TypeParts == TypeOK <=> Caches /\ Others
  BY DEF TypeOK, Caches, Others

LEMMA EventCounts ==
  ASSUME Others, Event
  PROVE  events' \in 0..MaxEvents
  BY ScopeAssumption DEF Others, Event

LEMMA ImportedIsTable ==
  ASSUME rows \in [Item -> Row], NEW items, NEW kind \in Kind
  PROVE  Imported(items, kind) \in [Item -> Row]
  BY DEF Imported, Row

LEMMA ChangeKeepsIInv ==
  ASSUME IInv, NEW table \in [Item -> Row], ChangeTable(table)
  PROVE  IInv'
<1>1. Caches /\ Others
  BY TypeParts DEF IInv
<1>2. Caches' /\ GroupIsTable' /\ GroupFitsTogether'
  BY <1>1, UpdateFits DEF ChangeTable
<1>3. Others'
  BY <1>1, EventCounts DEF ChangeTable, Others
<1> QED
  BY <1>2, <1>3, TypeParts DEF IInv, TypeOK, Caches, Others

LEMMA InitIInv == Init => IInv
<1> SUFFICES ASSUME Init
             PROVE  IInv
  OBVIOUS
<1>1. rows \in [Item -> Row]
  BY DEF Init
<1>2. /\ scope = Covered(rows, "scope")
      /\ blacklist = Covered(rows, "blacklist")
      /\ scope \ blacklist = Effective(rows)
      /\ effective = Cardinality(Effective(rows))
  BY DEF Init, Effective
<1>3. GroupIsTable
  BY <1>2 DEF GroupIsTable
<1>4. Others
  BY ScopeAssumption DEF Init, Others
<1>5. /\ scope \subseteq Addr
      /\ blacklist \subseteq Addr
      /\ effective \in 0..Cardinality(Addr)
  BY <1>1, <1>2, CoveredIsAddr, EffectiveIsAddr
<1>6. Caches /\ GroupFitsTogether
  <2>1. CASE Effective(rows) = {}
    BY <1>2, <1>5, <2>1 DEF Init, Caches, GroupFitsTogether
  <2>2. CASE Effective(rows) # {}
    <3>1. manager = NewManager(Effective(rows))
      BY <2>2 DEF Init, Managed
    <3>2. /\ manager \in Manager
          /\ manager # None
          /\ manager.addrs = Effective(rows)
          /\ manager.left = Effective(rows)
      BY <1>1, <2>2, <3>1, EffectiveIsAddr, NewManagerIsManager
    <3> QED
      BY <1>2, <1>5, <2>2, <3>2 DEF Caches, GroupFitsTogether
  <2> QED
    BY <2>1, <2>2
<1> QED
  BY <1>3, <1>4, <1>6, TypeParts DEF IInv

LEMMA NextIInv == IInv /\ [Next]_vars => IInv'
<1> SUFFICES ASSUME IInv, [Next]_vars
             PROVE  IInv'
  OBVIOUS
<1>0. Caches /\ Others /\ GroupIsTable /\ GroupFitsTogether
  BY TypeParts DEF IInv
<1> USE <1>0
\* Steps that leave the table and the group alone.
<1>a. ASSUME UNCHANGED <<rows, cacheVars>>, Others'
      PROVE  IInv'
  <2>1. Caches' /\ GroupIsTable' /\ GroupFitsTogether'
    BY <1>a DEF cacheVars, Caches, GroupIsTable, GroupFitsTogether
  <2> QED
    BY <1>a, <2>1 DEF IInv, TypeOK, Caches, Others
\* Steps that leave the table alone and check a target.
<1>b. ASSUME rows' = rows, Check, Others'
      PROVE  IInv'
  <2>1. Caches' /\ GroupIsTable' /\ GroupFitsTogether'
    BY <1>b, CheckFits
  <2> QED
    BY <1>b, <2>1 DEF IInv, TypeOK, Caches, Others
<1>1. ASSUME NEW i \in Item, NEW kind \in Kind, AddItem(i, kind)
      PROVE  IInv'
  BY <1>1, ChangeKeepsIInv DEF AddItem, Others, Row
<1>2. ASSUME NEW i \in Item, DeleteItem(i)
      PROVE  IInv'
  BY <1>2, ChangeKeepsIInv DEF DeleteItem, Others, Row
<1>3. ASSUME NEW i \in Item, ToggleItem(i)
      PROVE  IInv'
  BY <1>3, ChangeKeepsIInv DEF ToggleItem, Others, Row, Kind
<1>4. ASSUME NEW items \in SUBSET Item, NEW kind \in Kind, ImportItems(items, kind)
      PROVE  IInv'
  BY <1>4, ImportedIsTable, ChangeKeepsIInv DEF ImportItems, Others
<1>5. ASSUME NEW items \in SUBSET Item, NEW kind \in Kind,
             ImportOnCommandLine(items, kind)
      PROVE  IInv'
  <2>1. Others'
    BY <1>5, ImportedIsTable, EventCounts DEF ImportOnCommandLine, Others
  <2>2. Caches' /\ GroupIsTable' /\ GroupFitsTogether'
    BY <1>5 DEF ImportOnCommandLine, Caches, GroupIsTable, GroupFitsTogether
  <2> QED
    BY <2>1, <2>2 DEF IInv, TypeOK, Caches, Others
<1>6. ASSUME RestartServer
      PROVE  IInv'
  <2>1. Others'
    BY <1>6, EventCounts DEF RestartServer, Others
  <2>2. Load(rows')
    BY <1>6 DEF RestartServer, Load, Reread, Managed
  <2>3. Caches' /\ GroupIsTable' /\ GroupFitsTogether'
    BY <2>1, <2>2, LoadFits DEF Others
  <2> QED
    BY <2>1, <2>3 DEF IInv, TypeOK, Caches, Others
<1>7. ASSUME NEW ip \in Addr, RequestRescan(ip)
      PROVE  IInv'
  BY <1>7, <1>a, EventCounts DEF RequestRescan, Others
<1>8. ASSUME NEW a \in Agent, GetRescan(a)
      PROVE  IInv'
  BY <1>8, <1>a DEF GetRescan, Give, Others
<1>9. ASSUME NEW a \in Agent, GetAuto(a)
      PROVE  IInv'
  <2>1. PICK ip \in manager.left :
          /\ Give(a, ip, "auto")
          /\ manager' = [manager EXCEPT !.left = Rest(manager, ip)]
    BY <1>9 DEF GetAuto
  <2>2. /\ manager \in Manager
        /\ manager.left \subseteq manager.addrs
        /\ manager.left # {}
        /\ ip \in Addr
    BY <1>9 DEF GetAuto, Caches, Manager
  <2>3. Rest(manager, ip) \subseteq manager.addrs /\ Rest(manager, ip) # {}
    BY <2>2 DEF Rest
  <2>4. /\ manager' \in Manager
        /\ manager' # None
        /\ manager'.addrs = manager.addrs
        /\ manager'.left = Rest(manager, ip)
    BY <2>1, <2>2, <2>3, NoneIsNoManager DEF Manager
  <2>5. Others'
    BY <1>9, <2>1, <2>2 DEF GetAuto, Give, Others
  <2>6. Caches' /\ GroupIsTable' /\ GroupFitsTogether'
    BY <1>9, <2>3, <2>4 DEF GetAuto, Caches, GroupIsTable, GroupFitsTogether
  <2> QED
    BY <2>5, <2>6 DEF IInv, TypeOK, Caches, Others
<1>10. ASSUME NEW a \in Agent, GetNothing(a)
       PROVE  IInv'
  BY <1>10, <1>a DEF GetNothing, vars, Others, cacheVars
<1>11. ASSUME NEW a \in Agent, NEW ip \in Addr, GetManual(a, ip)
       PROVE  IInv'
  BY <1>11, <1>b, EventCounts DEF GetManual, Give, Others
<1>12. ASSUME NEW a \in Agent, NEW ip \in Addr, GetManualRefused(a, ip)
       PROVE  IInv'
  BY <1>12, <1>b, EventCounts DEF GetManualRefused, Others
<1>13. ASSUME NEW a \in Agent, job[a] # None
       PROVE  job[a].ip \in Addr
  BY <1>13 DEF Others
<1>14. ASSUME NEW a \in Agent, SubmitHost(a)
       PROVE  IInv'
  BY <1>14, <1>13, <1>b DEF SubmitHost, Done, Others
<1>15. ASSUME NEW a \in Agent, SubmitNoHost(a)
       PROVE  IInv'
  BY <1>15, <1>13, <1>a DEF SubmitNoHost, Done, Others
<1>16. ASSUME NEW a \in Agent, Abandon(a)
       PROVE  IInv'
  BY <1>16, <1>a, <1>b DEF Abandon, Done, Others
<1>17. ASSUME UNCHANGED vars
       PROVE  IInv'
  BY <1>17, <1>a DEF vars, Others, cacheVars
<1> QED
  BY <1>1, <1>2, <1>3, <1>4, <1>5, <1>6, <1>7, <1>8, <1>9, <1>10, <1>11, <1>12,
     <1>14, <1>15, <1>16, <1>17 DEF Next

\* The invariant holds of every reachable state.
THEOREM Invariance == Spec => []IInv
  BY InitIInv, NextIInv, PTL DEF Spec

\* Every variable has its type: the cached sets are sets of addresses and a
\* manager's cycle is never used up.
THEOREM TypeCorrect == Spec => []TypeOK
  BY Invariance, PTL DEF IInv

\* What the server caches is the table until an import on the command line,
\* whatever was changed, raised or restarted before.
THEOREM GroupStaysTable == Spec => []GroupIsTable
  BY Invariance, PTL DEF IInv

\* The manager and the size shown fit the cached sets, unless those leave
\* nothing.
THEOREM GroupStaysTogether == Spec => []GroupFitsTogether
  BY Invariance, PTL DEF IInv
-----------------------------------------------------------------------------
(* What work is handed out and stored *)

\* Only getwork gives a thread something, and only two of its ways do so
\* without a rescan.
LEMMA GivenByAutoOrManual ==
  ASSUME IInv, Next, NEW a \in Agent, GivenUnasked(a)
  PROVE  GetAuto(a) \/ \E ip \in Addr : GetManual(a, ip)
<1>0. job \in [Agent -> [ip : Addr, reason : {"auto", "requested", "manual"}] \cup {None}]
  BY DEF IInv, TypeOK
<1>1. UNCHANGED job => FALSE
  BY DEF GivenUnasked
<1>2. ASSUME NEW b \in Agent, Done(b)
      PROVE  FALSE
  BY <1>0, <1>2 DEF Done, GivenUnasked
<1>3. ASSUME NEW b \in Agent, GetRescan(b)
      PROVE  FALSE
  BY <1>0, <1>3 DEF GetRescan, Give, GivenUnasked
<1>4. ASSUME NEW b \in Agent, NEW ip, NEW reason, Give(b, ip, reason)
      PROVE  a = b
  BY <1>0, <1>4 DEF Give, GivenUnasked
<1>5. ASSUME NEW b \in Agent, GetAuto(b)
      PROVE  GetAuto(a)
  BY <1>4, <1>5 DEF GetAuto
<1>6. ASSUME NEW b \in Agent, NEW ip \in Addr, GetManual(b, ip)
      PROVE  GetManual(a, ip)
  BY <1>4, <1>6 DEF GetManual
<1> QED
  BY <1>1, <1>2, <1>3, <1>5, <1>6
  DEF Next, AddItem, DeleteItem, ToggleItem, ImportItems, ChangeTable,
      ImportOnCommandLine, RestartServer, RequestRescan, GetNothing, vars,
      GetManualRefused, SubmitHost, SubmitNoHost, Abandon

\* While there is a scope, the manager's addresses are those of the table.
LEMMA AutoIsInScope ==
  ASSUME IInv, ~behind, Effective(rows) # {}, NEW a \in Agent, GetAuto(a)
  PROVE  job'[a] # None => job'[a].ip \in Effective(rows)
<1>1. manager.left \subseteq Effective(rows)
  BY DEF IInv, TypeOK, GroupIsTable, GroupFitsTogether, Effective, GetAuto
<1> QED
  BY <1>1 DEF GetAuto, Give, IInv, TypeOK

LEMMA ManualIsInScope ==
  ASSUME IInv, ~behind, NEW a \in Agent, NEW ip \in Addr, GetManual(a, ip)
  PROVE  job'[a].ip \in Effective(rows)
<1>1. ip \in Effective(rows)
  BY CheckedIsInScope DEF GetManual
<1> QED
  BY <1>1 DEF GetManual, Give, IInv, TypeOK

\* As long as there is a scope, work nobody asked for is in scope: the proof
\* needs that the manager in use is the one of the table.
THEOREM WorkStaysInScope == Spec => WorkIsInScope
<1> DEFINE A == \A a \in Agent : GivenUnasked(a) /\ ~behind /\ Effective(rows) # {}
                                => job'[a].ip \in Effective(rows)
<1>1. IInv /\ [Next]_vars => [A]_vars
  <2> SUFFICES ASSUME IInv, Next, NEW a \in Agent,
                      GivenUnasked(a), ~behind, Effective(rows) # {}
               PROVE  job'[a].ip \in Effective(rows)
    OBVIOUS
  <2>1. CASE GetAuto(a)
    BY <2>1, AutoIsInScope DEF GivenUnasked
  <2>2. CASE \E ip \in Addr : GetManual(a, ip)
    BY <2>2, ManualIsInScope
  <2> QED
    BY <2>1, <2>2, GivenByAutoOrManual
<1> QED
  BY <1>1, Invariance, PTL DEF Spec, WorkIsInScope

\* A host is stored only if the table's scope has it when it is submitted.
THEOREM StoredHostIsInScope == Spec => HostInScopeIsStored
<1> DEFINE A == \A a \in Agent : SubmitHost(a) /\ ~behind
                                => stored' \ stored \subseteq Effective(rows)
<1>1. IInv => [A]_vars
  <2> SUFFICES ASSUME IInv, NEW a \in Agent, SubmitHost(a), ~behind
               PROVE  stored' \ stored \subseteq Effective(rows)
    OBVIOUS
  <2>1. Acceptable(job[a].ip) => job[a].ip \in Effective(rows)
    BY CheckedIsInScope DEF SubmitHost
  <2> QED
    BY <2>1 DEF SubmitHost
<1> QED
  BY <1>1, Invariance, PTL DEF Spec, HostInScopeIsStored
=============================================================================
