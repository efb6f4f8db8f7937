---------------------------- MODULE AccountsProofs ----------------------------
(***************************************************************************)
(* Proofs about Accounts, for any number of browsers, addresses, accounts, *)
(* invitations and links, and whatever the address functions make of an    *)
(* address.                                                                *)
(***************************************************************************)
EXTENDS Accounts, TLAPS

\* The command line has sent a link that it has not committed yet.
LinkSent == cli.op \in {"insert", "renew", "reset"}

\* A link to the account's page for a new password is in its row.
HasReset(u) == users[u].reset # None

(* TypeOK without the request that is being served.                        *)
Typed == /\ users \in [UserId -> User \cup {None}]
         /\ made \in 0..MaxUsers
         /\ invites \in [InviteId -> Invite \cup {None}]
         /\ invited \in 0..MaxInvites
         /\ tokens \in 0..MaxTokens
         /\ session \in [Browser -> UserId \cup {None}]
         /\ cli \in Command
         /\ used \subseteq Token
         /\ admitted \in [InviteId -> 0..MaxUsers]

(* Ids are handed out in order, and nothing is in a table beyond the last. *)
Rows == /\ \A i \in 1..invited : invites[i] \in Invite
        /\ \A i \in InviteId : i > invited => admitted[i] = 0
        /\ \A u \in UserId : u > made => users[u] = None
        /\ cli.op = "renew" => cli.row \in 1..invited

(* An invitation is accepted when it is used, and that is for good: the    *)
(* command line may renew an accepted one, but it stays expired.           *)
Admissions == \A i \in 1..invited : /\ invites[i].accepted => invites[i].expired
                                    /\ admitted[i] <= 1
                                    /\ admitted[i] = 1 => invites[i].accepted

(* An account's invitation is accepted, and is to its address.             *)
Origins == \A u \in Known : users[u].origin # 0 =>
             /\ users[u].origin \in 1..invited
             /\ invites[users[u].origin].accepted
             /\ invites[users[u].origin].email \in {None, users[u].email}

\* No row, no unfinished command and no used link has the token.
Fresh(t) == /\ \A i \in 1..invited : invites[i].token # t
            /\ \A u \in Known : HasReset(u) => users[u].reset # t
            /\ LinkSent => cli.token # t
            /\ t \notin used

(* A token is in one place: one invitation, one account, or the command    *)
(* that will write it.  A used one is only in the invitation it accepted.  *)
Made == /\ \A i \in 1..invited : invites[i].token <= tokens
        /\ \A u \in Known : HasReset(u) => users[u].reset <= tokens
        /\ LinkSent => cli.token <= tokens
        /\ \A t \in used : t <= tokens
Apart == /\ \A i, j \in 1..invited : invites[i].token = invites[j].token => i = j
         /\ \A u, v \in Known : HasReset(u) /\ users[u].reset = users[v].reset => u = v
         /\ \A i \in 1..invited, u \in Known : HasReset(u) => invites[i].token # users[u].reset
         /\ LinkSent => /\ \A i \in 1..invited : invites[i].token # cli.token
                        /\ \A u \in Known : HasReset(u) => users[u].reset # cli.token
Dead == \A t \in used : /\ \A i \in 1..invited : invites[i].token = t => invites[i].accepted
                        /\ \A u \in Known : HasReset(u) => users[u].reset # t
                        /\ LinkSent => cli.token # t
Links == Made /\ Apart /\ Dead

Tables == Typed /\ Rows /\ Admissions /\ Origins /\ Links

(* An administrator's request is about another account than the one that   *)
(* is signed in, and nobody signs in or out while it is being served.      *)
Requests == /\ request \in Request
            /\ request # NoRequest => session[request.browser] # request.user

IInv == Tables /\ Requests
-----------------------------------------------------------------------------
(* Rows *)

LEMMA KnownAccounts ==
  ASSUME Typed, NEW u \in Known
  PROVE  u \in UserId /\ users[u] \in User
  BY DEF Typed, Known

LEMMA NewTokenType ==
  ASSUME Typed, TokenLeft
  PROVE  /\ tokens \in Nat /\ NewToken = tokens + 1
         /\ NewToken \in Token
         /\ NewToken \in 0..MaxTokens
  BY AccountsAssumption DEF Typed, TokenLeft, NewToken, Token

\* What the command line is about to commit.
LEMMA CommandTypes ==
  ASSUME Typed
  PROVE  /\ cli.op \in {"idle", "insert", "renew", "role", "reset"}
         /\ cli.op = "idle" <=> cli = Idle
         /\ LinkSent => cli.token \in Token
         /\ cli.op = "insert" => cli.email \in Email \cup {None} /\ cli.admin \in BOOLEAN
         /\ cli.op = "renew" => cli.row \in InviteId /\ cli.admin \in BOOLEAN
         /\ cli.op = "role" => cli.user \in UserId /\ cli.admin \in BOOLEAN
         /\ cli.op = "reset" => cli.user \in UserId
  BY DEF Typed, Command, Idle, LinkSent

\* A new token is nowhere yet.
LEMMA NewTokenIsFresh ==
  ASSUME Typed, Rows, Made, TokenLeft
  PROVE  Fresh(NewToken)
<1>1. tokens \in Nat /\ NewToken = tokens + 1
  BY NewTokenType
<1>2. \A i \in 1..invited : invites[i].token \in Int /\ invites[i].token <= tokens
  BY DEF Rows, Made, Invite, Token
<1>3. \A u \in Known : HasReset(u) => users[u].reset \in Int /\ users[u].reset <= tokens
  BY KnownAccounts DEF Made, HasReset, User, Token
<1>4. LinkSent => cli.token \in Int /\ cli.token <= tokens
  BY CommandTypes DEF Made, Token
<1>5. \A t \in used : t \in Int /\ t <= tokens
  BY DEF Made, Typed, Token
<1> QED
  BY <1>1, <1>2, <1>3, <1>4, <1>5 DEF Fresh
-----------------------------------------------------------------------------
(* Where tokens go *)

\* Where no row and no command gets a token, they stay apart; a token may be
\* used if only the invitation that it accepts has it.
LEMMA LinksKept ==
  ASSUME Links,
         \A u \in Known' : ~HasReset(u)' \/ (u \in Known /\ users'[u].reset = users[u].reset),
         \A i \in 1..invited : /\ invites'[i].token = invites[i].token
                               /\ invites[i].accepted => invites'[i].accepted,
         UNCHANGED <<invited, tokens>>,
         LinkSent' => LinkSent /\ cli'.token = cli.token,
         \A t \in used' : \/ t \in used
                          \/ /\ t <= tokens
                             /\ \A i \in 1..invited : invites[i].token = t => invites'[i].accepted
                             /\ \A u \in Known' : HasReset(u)' => users'[u].reset # t
                             /\ LinkSent => cli.token # t
  PROVE  Links'
<1>1. \A u \in Known' : HasReset(u)' => u \in Known /\ HasReset(u) /\ users'[u].reset = users[u].reset
  BY DEF HasReset
<1>2. Made'
  <2>1. \A i \in 1..invited' : invites'[i].token <= tokens'
    BY DEF Links, Made
  <2>2. \A u \in Known' : HasReset(u)' => users'[u].reset <= tokens'
    BY <1>1 DEF Links, Made
  <2>3. LinkSent' => cli'.token <= tokens'
    BY DEF Links, Made
  <2>4. \A t \in used' : t <= tokens'
    BY DEF Links, Made
  <2> QED
    BY <2>1, <2>2, <2>3, <2>4 DEF Made
<1>3. Apart'
  <2>1. \A u, v \in Known' : HasReset(u)' /\ users'[u].reset = users'[v].reset => u = v
    BY <1>1 DEF Links, Apart, HasReset
  <2>2. \A i \in 1..invited', u \in Known' : HasReset(u)' => invites'[i].token # users'[u].reset
    BY <1>1 DEF Links, Apart
  <2>3. LinkSent' => /\ \A i \in 1..invited' : invites'[i].token # cli'.token
                     /\ \A u \in Known' : HasReset(u)' => users'[u].reset # cli'.token
    BY <1>1 DEF Links, Apart
  <2>4. \A i, j \in 1..invited' : invites'[i].token = invites'[j].token => i = j
    BY DEF Links, Apart
  <2> QED
    BY <2>1, <2>2, <2>3, <2>4 DEF Apart
<1>4. Dead'
  BY <1>1 DEF Links, Dead
<1> QED
  BY <1>2, <1>3, <1>4 DEF Links

\* An invitation gets a token that was nowhere, or only in the command.
LEMMA InviteGetsToken ==
  ASSUME Links, Typed, NEW t \in Token, NEW i \in 1..invited', tokens' \in Nat,
         \A j \in 1..invited : invites[j].token # t,
         \A u \in Known : HasReset(u) => users[u].reset # t,
         t \notin used,
         LinkSent' => LinkSent /\ cli'.token = cli.token /\ cli.token # t,
         t <= tokens', tokens <= tokens',
         invites'[i].token = t,
         \A j \in 1..invited' : j # i => j \in 1..invited /\ invites'[j] = invites[j],
         \A j \in 1..invited : invites[j] \in Invite,
         UNCHANGED <<users, used>>
  PROVE  Links'
<1>1. Known' = Known /\ \A u : HasReset(u)' <=> HasReset(u)
  BY DEF Known, HasReset
<1>2. Made'
  <2>1. tokens \in Int /\ tokens' \in Int /\ tokens <= tokens'
    BY DEF Typed
  <2>2. \A j \in 1..invited' : invites'[j].token <= tokens'
    BY <2>1 DEF Links, Made, Invite, Token
  <2>3. \A u \in Known' : HasReset(u)' => users'[u].reset <= tokens'
    BY <1>1, <2>1, KnownAccounts DEF Links, Made, HasReset, User, Token
  <2>4. LinkSent' => cli'.token <= tokens'
    BY <2>1, CommandTypes DEF Links, Made, Token
  <2>5. \A s \in used' : s <= tokens'
    BY <2>1 DEF Links, Made, Typed, Token
  <2> QED
    BY <2>2, <2>3, <2>4, <2>5 DEF Made
<1>3. Apart'
  <2>1. \A j, k \in 1..invited' : invites'[j].token = invites'[k].token => j = k
    BY DEF Links, Apart
  <2>2. \A u, v \in Known' : HasReset(u)' /\ users'[u].reset = users'[v].reset => u = v
    BY <1>1 DEF Links, Apart
  <2>3. \A j \in 1..invited', u \in Known' : HasReset(u)' => invites'[j].token # users'[u].reset
    BY <1>1 DEF Links, Apart
  <2>4. LinkSent' => /\ \A j \in 1..invited' : invites'[j].token # cli'.token
                     /\ \A u \in Known' : HasReset(u)' => users'[u].reset # cli'.token
    BY <1>1 DEF Links, Apart
  <2> QED
    BY <2>1, <2>2, <2>3, <2>4 DEF Apart
<1>4. Dead'
  BY <1>1 DEF Links, Dead
<1> QED
  BY <1>2, <1>3, <1>4 DEF Links

\* An account gets a token that was nowhere, or only in the command.
LEMMA AccountGetsToken ==
  ASSUME Links, Typed, NEW t \in Token, NEW u \in Known, tokens' \in Nat,
         \A i \in 1..invited : invites[i].token # t,
         \A v \in Known : HasReset(v) => users[v].reset # t,
         t \notin used,
         LinkSent' => LinkSent /\ cli'.token = cli.token /\ cli.token # t,
         t <= tokens', tokens <= tokens',
         users'[u].reset = t,
         Known' = Known,
         \A v \in Known : v # u => users'[v] = users[v],
         \A i \in 1..invited : invites[i] \in Invite,
         UNCHANGED <<invites, invited, used>>
  PROVE  Links'
<1>1. \A v \in Known' : v = u \/ ((HasReset(v)' <=> HasReset(v)) /\ users'[v].reset = users[v].reset)
  BY DEF HasReset
<1>2. Made'
  <2>1. tokens \in Int /\ tokens' \in Int /\ tokens <= tokens'
    BY DEF Typed
  <2>2. \A i \in 1..invited' : invites'[i].token <= tokens'
    BY <2>1 DEF Links, Made, Invite, Token
  <2>3. \A v \in Known' : HasReset(v)' => users'[v].reset <= tokens'
    BY <1>1, <2>1, KnownAccounts DEF Links, Made, HasReset, User, Token
  <2>4. LinkSent' => cli'.token <= tokens'
    BY <2>1, CommandTypes DEF Links, Made, Token
  <2>5. \A s \in used' : s <= tokens'
    BY <2>1 DEF Links, Made, Typed, Token
  <2> QED
    BY <2>2, <2>3, <2>4, <2>5 DEF Made
<1>3. Apart'
  <2>1. \A v, w \in Known' : HasReset(v)' /\ users'[v].reset = users'[w].reset => v = w
    BY <1>1 DEF Links, Apart, HasReset
  <2>2. \A i \in 1..invited', v \in Known' : HasReset(v)' => invites'[i].token # users'[v].reset
    BY <1>1 DEF Links, Apart
  <2>3. LinkSent' => /\ \A i \in 1..invited' : invites'[i].token # cli'.token
                     /\ \A v \in Known' : HasReset(v)' => users'[v].reset # cli'.token
    BY <1>1 DEF Links, Apart
  <2> QED
    BY <2>1, <2>2, <2>3 DEF Links, Apart
<1>4. Dead'
  BY <1>1 DEF Links, Dead
<1> QED
  BY <1>2, <1>3, <1>4 DEF Links

\* The command line has sent a new token.
LEMMA CommandGetsToken ==
  ASSUME Links, Typed, Rows, TokenLeft,
         tokens' = NewToken, cli'.token = NewToken,
         UNCHANGED <<users, invites, invited, used>>
  PROVE  Links'
<1>1. Known' = Known /\ \A u : HasReset(u)' <=> HasReset(u)
  BY DEF Known, HasReset
<1>2. tokens \in Int /\ tokens' = tokens + 1 /\ Fresh(NewToken)
  BY NewTokenType, NewTokenIsFresh DEF Links
<1>3. Made'
  <2>1. \A i \in 1..invited' : invites'[i].token <= tokens'
    BY <1>2 DEF Links, Made, Rows, Invite, Token
  <2>2. \A u \in Known' : HasReset(u)' => users'[u].reset <= tokens'
    BY <1>1, <1>2, KnownAccounts DEF Links, Made, HasReset, User, Token
  <2>3. cli'.token <= tokens'
    BY <1>2, NewTokenType
  <2>4. \A s \in used' : s <= tokens'
    BY <1>2 DEF Links, Made, Typed, Token
  <2> QED
    BY <2>1, <2>2, <2>3, <2>4 DEF Made
<1>4. Apart'
  BY <1>1, <1>2 DEF Links, Apart, Fresh
<1>5. Dead'
  BY <1>1, <1>2 DEF Links, Dead, Fresh
<1> QED
  BY <1>3, <1>4, <1>5 DEF Links
-----------------------------------------------------------------------------
(* The steps *)

LEMMA InitTables == Init => Tables
<1> SUFFICES ASSUME Init
             PROVE  Tables
  OBVIOUS
<1>1. Known = {} /\ ~LinkSent /\ cli.op = "idle" /\ 1..invited = {}
  BY DEF Init, Known, LinkSent, Idle
<1>2. Typed
  BY AccountsAssumption DEF Init, Typed, UserId, InviteId, Token, Command, Idle
<1>3. Rows
  BY <1>1 DEF Init, Rows
<1>4. Admissions /\ Origins
  BY <1>1 DEF Admissions, Origins
<1>5. Links
  BY <1>1 DEF Init, Links, Made, Apart, Dead
<1> QED
  BY <1>2, <1>3, <1>4, <1>5 DEF Tables

\* A step that touches no row, and at most ends a command.
LEMMA RowsUntouched ==
  ASSUME Tables, UNCHANGED <<users, made, invites, invited, tokens, used, admitted>>,
         session' \in [Browser -> UserId \cup {None}],
         cli' \in {cli, Idle}
  PROVE  Tables'
<1>1. Known' = Known /\ \A u : HasReset(u)' <=> HasReset(u)
  BY DEF Known, HasReset
<1>2. /\ LinkSent' => LinkSent /\ cli' = cli
      /\ cli'.op = "renew" => cli' = cli
      /\ cli' \in Command
  BY DEF LinkSent, Idle, Command, Tables, Typed
<1>3. Typed'
  BY <1>2 DEF Tables, Typed
<1>4. Rows'
  BY <1>2 DEF Tables, Rows
<1>5. Admissions' /\ Origins'
  BY <1>1 DEF Tables, Admissions, Origins
<1>6. Links'
  BY <1>1, <1>2, LinksKept DEF Tables
<1> QED
  BY <1>3, <1>4, <1>5, <1>6 DEF Tables

\* A step that changes an account, or deletes it, but gives it no token.
LEMMA AccountChanged ==
  ASSUME Tables, NEW u \in Known,
         UNCHANGED <<made, invites, invited, tokens, session, used, admitted>>,
         cli' \in {cli, Idle},
         users' \in [UserId -> User \cup {None}],
         \A v \in UserId : v # u => users'[v] = users[v],
         users'[u] # None => /\ users'[u].email = users[u].email
                             /\ users'[u].origin = users[u].origin
                             /\ users'[u].reset \in {users[u].reset, None}
  PROVE  Tables'
<1>0. u \in UserId /\ users[u] # None
  BY DEF Known
<1>1. /\ Known' \subseteq Known
      /\ \A v \in Known' : /\ users'[v].email = users[v].email
                           /\ users'[v].origin = users[v].origin
                           /\ users'[v].reset = users[v].reset \/ ~HasReset(v)'
  BY <1>0 DEF Known, HasReset
<1>2. /\ LinkSent' => LinkSent /\ cli' = cli
      /\ cli'.op = "renew" => cli' = cli
      /\ cli' \in Command
  BY DEF LinkSent, Idle, Command, Tables, Typed
<1>3. Typed'
  BY <1>2 DEF Tables, Typed
<1>4. Rows'
  <2>1. \A v \in UserId : v > made' => users'[v] = None
    BY <1>0 DEF Tables, Rows
  <2> QED
    BY <1>2, <2>1 DEF Tables, Rows
<1>5. Admissions' /\ Origins'
  BY <1>1 DEF Tables, Admissions, Origins
<1>6. Links'
  BY <1>1, <1>2, LinksKept DEF Tables
<1> QED
  BY <1>3, <1>4, <1>5, <1>6 DEF Tables

\* A browser's new account.
LEMMA AccountAdded ==
  ASSUME Typed, Rows, NEW b \in Browser, NEW e \in Email, NEW admin \in BOOLEAN,
         NEW origin \in InviteId \cup {0}, UserFits(e), AddUser(b, e, admin, origin)
  PROVE  /\ made' \in 0..MaxUsers
         /\ users' \in [UserId -> User \cup {None}]
         /\ session' \in [Browser -> UserId \cup {None}]
         /\ made + 1 \in UserId /\ made + 1 \notin Known
         /\ Known' = Known \cup {made + 1}
         /\ \A u \in UserId : u # made + 1 => users'[u] = users[u]
         /\ users'[made + 1].email = e
         /\ users'[made + 1].origin = origin
         /\ users'[made + 1].reset = None
         /\ \A u \in UserId : u > made' => users'[u] = None
<1>1. made \in Nat /\ made' = made + 1 /\ made + 1 \in UserId /\ made' \in 0..MaxUsers
  BY AccountsAssumption DEF Typed, UserFits, AddUser, UserId
<1>2. PICK new : new = made + 1
  OBVIOUS
<1>3. PICK row : row = [email |-> e, admin |-> admin, reset |-> None,
                        live |-> FALSE, owns |-> FALSE, origin |-> origin]
  OBVIOUS
<1>4. row \in User /\ row # None /\ row.email = e /\ row.origin = origin /\ row.reset = None
  <2>1. row \in User
    BY <1>3 DEF User
  <2> QED
    BY <1>3, <2>1, NoneIsNoRow
<1>5. users' = [users EXCEPT ![new] = row] /\ session' = [session EXCEPT ![b] = new]
  BY <1>2, <1>3 DEF AddUser
<1>6. users' \in [UserId -> User \cup {None}] /\ session' \in [Browser -> UserId \cup {None}]
  BY <1>1, <1>2, <1>4, <1>5 DEF Typed
<1>7. users'[new] = row /\ \A u \in UserId : u # new => users'[u] = users[u]
  BY <1>1, <1>2, <1>5 DEF Typed
<1>8. users[new] = None /\ new \notin Known
  BY <1>1, <1>2 DEF Rows, Known
<1>9. Known' = Known \cup {new}
  BY <1>1, <1>2, <1>4, <1>7 DEF Known
<1>10. \A u \in UserId : u > made' => users'[u] = None
  BY <1>1, <1>2, <1>7 DEF Rows, UserId
<1> QED
  BY <1>1, <1>2, <1>4, <1>6, <1>7, <1>8, <1>9, <1>10

LEMMA RegisterKeepsTables ==
  ASSUME Tables, NEW b \in Browser, NEW e \in Email, Register(b, e)
  PROVE  Tables'
<1>0. Typed /\ Rows /\ Admissions /\ Origins /\ Links
  BY DEF Tables
<1>1. /\ UserFits(Canonical[e]) /\ AddUser(b, Canonical[e], FALSE, 0)
      /\ UNCHANGED <<invites, invited, tokens, cli, used, admitted>>
      /\ Canonical[e] \in Email
  BY AccountsAssumption DEF Register
<1>2. PICK new : new = made + 1
  OBVIOUS
<1>3. /\ made' \in 0..MaxUsers
      /\ users' \in [UserId -> User \cup {None}]
      /\ session' \in [Browser -> UserId \cup {None}]
      /\ new \notin Known /\ new \in UserId
      /\ Known' = Known \cup {new}
      /\ \A u \in UserId : u # new => users'[u] = users[u]
      /\ users'[new].origin = 0
      /\ users'[new].reset = None
      /\ \A u \in UserId : u > made' => users'[u] = None
  BY <1>0, <1>1, <1>2, AccountAdded
<1>4. Typed'
  BY <1>0, <1>1, <1>3 DEF Typed
<1>5. Rows'
  BY <1>0, <1>1, <1>3 DEF Rows
<1>6. Admissions' /\ Origins'
  BY <1>0, <1>1, <1>3, KnownAccounts DEF Admissions, Origins
<1>7. Links'
  <2>1. \A u \in Known' : ~HasReset(u)' \/ (u \in Known /\ users'[u].reset = users[u].reset)
    BY <1>0, <1>3, KnownAccounts DEF HasReset
  <2>2. LinkSent' => LinkSent /\ cli'.token = cli.token
    BY <1>1 DEF LinkSent
  <2> QED
    BY <1>0, <1>1, <2>1, <2>2, LinksKept
<1> QED
  BY <1>4, <1>5, <1>6, <1>7 DEF Tables

\* The invitation is used up, and its token is in no other place.
LEMMA AcceptInviteKeepsTables ==
  ASSUME Tables, NEW b \in Browser, NEW e \in Email, NEW i \in 1..invited, AcceptInvite(b, i, e)
  PROVE  Tables'
<1>0. Typed /\ Rows /\ Admissions /\ Origins /\ Links
  BY DEF Tables
<1>1. PICK address : address = InviteeAddress(invites[i], e)
  OBVIOUS
<1>2. i \in InviteId /\ invites[i] \in Invite /\ ValidInvite(invites[i]) /\ i # 0
  BY <1>0, AccountsAssumption DEF AcceptInvite, OpenInvites, Rows, Typed, InviteId
<1>3. /\ address \in Email
      /\ invites[i].email \in {None, address}
      /\ invites[i].admin \in BOOLEAN
      /\ invites[i].token \in Token
      /\ ~invites[i].expired /\ ~invites[i].accepted
      /\ admitted[i] = 0
  BY <1>0, <1>1, <1>2 DEF InviteeAddress, Invite, ValidInvite, Admissions, Typed
<1>4. PICK t : t = invites[i].token
  OBVIOUS
<1>5. PICK admin \in BOOLEAN : admin = invites[i].admin
  BY <1>3
<1>6. /\ UserFits(address) /\ AddUser(b, address, admin, i)
      /\ invites' = [invites EXCEPT ![i] = Accepted(invites[i])]
      /\ used' = used \cup {t}
      /\ admitted' = [admitted EXCEPT ![i] = admitted[i] + 1]
      /\ UNCHANGED <<invited, tokens, cli>>
  BY <1>1, <1>4, <1>5 DEF AcceptInvite
<1>7. PICK new : new = made + 1
  OBVIOUS
<1>8. /\ made' \in 0..MaxUsers
      /\ users' \in [UserId -> User \cup {None}]
      /\ session' \in [Browser -> UserId \cup {None}]
      /\ new \notin Known /\ new \in UserId
      /\ Known' = Known \cup {new}
      /\ \A u \in UserId : u # new => users'[u] = users[u]
      /\ users'[new].email = address
      /\ users'[new].origin = i
      /\ users'[new].reset = None
      /\ \A u \in UserId : u > made' => users'[u] = None
  BY <1>0, <1>2, <1>3, <1>6, <1>7, AccountAdded
<1>9. PICK row : row = Accepted(invites[i])
  OBVIOUS
<1>10. /\ row \in Invite
       /\ row.token = t
       /\ row.email = invites[i].email
       /\ row.accepted /\ row.expired
  BY <1>2, <1>4, <1>9 DEF Accepted, Invite
<1>11. invites'[i] = row /\ \A j \in 1..invited : j # i => invites'[j] = invites[j]
  BY <1>0, <1>2, <1>6, <1>9 DEF Typed, InviteId
<1>12. /\ admitted' \in [InviteId -> 0..MaxUsers] /\ admitted'[i] = 1
       /\ \A j \in InviteId : j # i => admitted'[j] = admitted[j]
  <2>1. 1 \in 0..MaxUsers
    BY <1>0, <1>6, AccountsAssumption DEF Typed, UserFits
  <2> QED
    BY <1>0, <1>2, <1>3, <1>6, <2>1 DEF Typed
<1>13. Typed'
  BY <1>0, <1>2, <1>3, <1>4, <1>6, <1>8, <1>9, <1>10, <1>12 DEF Typed
<1>14. Rows'
  <2>1. \A j \in 1..invited' : invites'[j] \in Invite
    BY <1>0, <1>6, <1>10, <1>11 DEF Rows
  <2>2. \A j \in InviteId : j > invited' => admitted'[j] = 0
    <3> SUFFICES ASSUME NEW j \in InviteId, j > invited
                 PROVE  admitted'[j] = 0
      BY <1>6
    <3>1. j # i
      BY <1>0 DEF Typed
    <3> QED
      BY <1>0, <1>12, <3>1 DEF Rows
  <2> QED
    BY <1>0, <1>6, <1>8, <2>1, <2>2 DEF Rows
<1>15. Admissions'
  <2>1. \A j \in 1..invited : j \in InviteId
    BY <1>0, AccountsAssumption DEF Typed, InviteId
  <2> QED
    BY <1>0, <1>6, <1>10, <1>11, <1>12, <2>1 DEF Admissions
<1>16. Origins'
  <2>1. \A j \in 1..invited : /\ invites[j].accepted => invites'[j].accepted
                              /\ invites'[j].email = invites[j].email
    BY <1>10, <1>11
  <2> QED
    BY <1>0, <1>3, <1>6, <1>8, <1>10, <1>11, <2>1, KnownAccounts DEF Origins
<1>17. Links'
  <2>1. \A u \in Known' : ~HasReset(u)' \/ (u \in Known /\ users'[u].reset = users[u].reset)
    BY <1>0, <1>8, KnownAccounts DEF HasReset
  <2>2. LinkSent' => LinkSent /\ cli'.token = cli.token
    BY <1>6 DEF LinkSent
  <2>3. \A j \in 1..invited : /\ invites'[j].token = invites[j].token
                              /\ invites[j].accepted => invites'[j].accepted
    BY <1>4, <1>10, <1>11
  <2>4. /\ t <= tokens
        /\ \A j \in 1..invited : invites[j].token = t => invites'[j].accepted
        /\ LinkSent => cli.token # t
        /\ \A u \in Known : HasReset(u) => users[u].reset # t
    BY <1>0, <1>4, <1>10, <1>11 DEF Links, Made, Apart
  <2>5. \A u \in Known' : HasReset(u)' => users'[u].reset # t
    BY <2>1, <2>4 DEF HasReset
  <2> QED
    BY <1>0, <1>6, <2>1, <2>2, <2>3, <2>4, <2>5, LinksKept
<1> QED
  BY <1>13, <1>14, <1>15, <1>16, <1>17 DEF Tables

LEMMA ResetPasswordKeepsTables ==
  ASSUME Tables, NEW b \in Browser, NEW u \in Known, ResetPassword(b, u)
  PROVE  Tables'
<1>0. Typed /\ Rows /\ Admissions /\ Origins /\ Links
  BY DEF Tables
<1>1. u \in UserId /\ users[u] \in User /\ HasReset(u)
  BY <1>0, KnownAccounts DEF ResetPassword, OpenResets, ValidReset, HasReset
<1>2. PICK t : t = users[u].reset
  OBVIOUS
<1>3. PICK row : row = Redeemed(users[u])
  OBVIOUS
<1>4. /\ row \in User /\ row # None
      /\ row.email = users[u].email
      /\ row.origin = users[u].origin
      /\ row.reset = None
  <2>1. row \in User
    BY <1>1, <1>3 DEF Redeemed, User
  <2> QED
    BY <1>1, <1>3, <2>1, NoneIsNoRow DEF Redeemed, User
<1>5. /\ used' = used \cup {t}
      /\ users' = [users EXCEPT ![u] = row]
      /\ UNCHANGED <<made, invites, invited, tokens, session, cli, admitted>>
  BY <1>2, <1>3 DEF ResetPassword
<1>6. users'[u] = row /\ \A v \in UserId : v # u => users'[v] = users[v]
  BY <1>0, <1>1, <1>5 DEF Typed
<1>7. Known' = Known /\ t \in Token
  BY <1>1, <1>2, <1>4, <1>6 DEF Known, HasReset, User
<1>8. Typed'
  BY <1>0, <1>1, <1>4, <1>5, <1>7 DEF Typed
<1>9. Rows'
  <2>1. \A v \in UserId : v > made' => users'[v] = None
    BY <1>0, <1>5, <1>6 DEF Rows, Known
  <2> QED
    BY <1>0, <1>5, <2>1 DEF Rows
<1>10. Admissions' /\ Origins'
  BY <1>0, <1>4, <1>5, <1>6, <1>7, KnownAccounts DEF Admissions, Origins
<1>11. Links'
  <2>1. \A v \in Known' : ~HasReset(v)' \/ (v # u /\ v \in Known /\ users'[v].reset = users[v].reset)
    BY <1>0, <1>4, <1>6, <1>7, KnownAccounts DEF HasReset
  <2>2. LinkSent' => LinkSent /\ cli'.token = cli.token
    BY <1>5 DEF LinkSent
  <2>3. /\ t <= tokens
        /\ \A i \in 1..invited : invites[i].token # t
        /\ LinkSent => cli.token # t
        /\ \A v \in Known : v # u => users[v].reset # t
    BY <1>0, <1>1, <1>2 DEF Links, Made, Apart
  <2>4. \A v \in Known' : HasReset(v)' => users'[v].reset # t
    BY <2>1, <2>3
  <2> QED
    BY <1>0, <1>5, <2>1, <2>2, <2>3, <2>4, LinksKept
<1> QED
  BY <1>8, <1>9, <1>10, <1>11 DEF Tables

\* An invitation is renewed or expires: what it is to, and that it was
\* accepted, stay.
LEMMA InviteChanged ==
  ASSUME Tables, NEW i \in 1..invited, NEW row \in Invite,
         invites' = [invites EXCEPT ![i] = row],
         row.email = invites[i].email,
         row.accepted = invites[i].accepted,
         row.expired = invites[i].expired,
         UNCHANGED <<users, made, invited, session, used, admitted>>,
         tokens' \in 0..MaxTokens,
         cli' \in {cli, Idle}
  PROVE  /\ Typed' /\ Rows' /\ Admissions' /\ Origins'
         /\ invites'[i] = row
         /\ \A j \in 1..invited : j # i => invites'[j] = invites[j]
<1>0. Typed /\ Rows /\ Admissions /\ Origins
  BY DEF Tables
<1>1. \A j \in 1..invited : j \in InviteId
  BY <1>0, AccountsAssumption DEF Typed, InviteId
<1>2. invites'[i] = row /\ \A j \in 1..invited : j # i => invites'[j] = invites[j]
  BY <1>0, <1>1 DEF Typed
<1>3. cli' \in Command /\ (cli'.op = "renew" => cli' = cli)
  BY <1>0 DEF Typed, Command, Idle
<1>4. Typed'
  BY <1>0, <1>1, <1>3 DEF Typed
<1>5. Rows'
  BY <1>0, <1>2, <1>3 DEF Rows
<1>6. Admissions'
  BY <1>0, <1>2 DEF Admissions
<1>7. Origins'
  <2>1. Known' = Known
    BY DEF Known
  <2>2. \A j \in 1..invited : /\ invites'[j].accepted = invites[j].accepted
                              /\ invites'[j].email = invites[j].email
    BY <1>2
  <2> QED
    BY <1>0, <2>1, <2>2 DEF Origins
<1> QED
  BY <1>2, <1>4, <1>5, <1>6, <1>7

\* A new invitation.
LEMMA InviteAdded ==
  ASSUME Tables, NEW e \in Email \cup {None}, NEW t \in Token, NEW admin \in BOOLEAN,
         InviteFits(e), AddInvite(e, t, admin),
         UNCHANGED <<users, made, session, used, admitted>>,
         tokens' \in 0..MaxTokens,
         cli' \in {cli, Idle}
  PROVE  /\ Typed' /\ Rows' /\ Admissions' /\ Origins'
         /\ invited + 1 \in 1..invited'
         /\ invites'[invited + 1].token = t
         /\ \A j \in 1..invited' : j # invited + 1 => j \in 1..invited /\ invites'[j] = invites[j]
<1>0. Typed /\ Rows /\ Admissions /\ Origins
  BY DEF Tables
<1>1. PICK new : new = invited + 1
  OBVIOUS
<1>2. /\ invited' = new /\ new \in InviteId /\ new \in 1..invited' /\ invited' \in 0..MaxInvites
      /\ \A j \in 1..invited' : j \in InviteId
      /\ \A j \in 1..invited' : j # new => j \in 1..invited
      /\ \A j \in 1..invited : j \in 1..invited' /\ j # new
      /\ invited < new
  BY <1>0, <1>1, AccountsAssumption DEF Typed, InviteFits, AddInvite, InviteId
<1>row. PICK row : row = [email |-> e, token |-> t, live |-> TRUE, accepted |-> FALSE,
                          expired |-> FALSE, admin |-> admin, asked |-> admin]
  OBVIOUS
<1>3. row \in Invite /\ row.token = t /\ ~row.accepted
  BY <1>row DEF Invite
<1>4. invites' = [invites EXCEPT ![new] = row]
  BY <1>1, <1>row DEF AddInvite
<1>5. invites'[new] = row /\ \A j \in InviteId : j # new => invites'[j] = invites[j]
  BY <1>0, <1>2, <1>4 DEF Typed
<1>6. admitted[new] = 0
  <2>1. new \in InviteId /\ new > invited
    BY <1>0, <1>2 DEF Typed, InviteId
  <2> QED
    BY <1>0, <2>1 DEF Rows
<1>7. cli' \in Command /\ (cli'.op = "renew" => cli' = cli)
  BY <1>0 DEF Typed, Command, Idle
<1>8. Typed'
  BY <1>0, <1>2, <1>3, <1>4, <1>7 DEF Typed
<1>9. Rows'
  <2>1. \A j \in 1..invited' : invites'[j] \in Invite
    BY <1>0, <1>2, <1>3, <1>5 DEF Rows
  <2>2. \A j \in InviteId : j > invited' => admitted'[j] = 0
    BY <1>0, <1>1, <1>2 DEF Rows, Typed, InviteId
  <2> QED
    BY <1>0, <1>2, <1>7, <2>1, <2>2 DEF Rows
<1>10. Admissions'
  BY <1>0, <1>2, <1>3, <1>5, <1>6 DEF Admissions
<1>11. Origins'
  <2>1. Known' = Known
    BY DEF Known
  <2>2. \A j \in 1..invited : /\ j \in 1..invited'
                              /\ invites'[j] = invites[j]
    BY <1>2, <1>5
  <2> QED
    BY <1>0, <2>1, <2>2 DEF Origins
<1> QED
  BY <1>1, <1>2, <1>3, <1>5, <1>8, <1>9, <1>10, <1>11

LEMMA InviteUserKeepsTables ==
  ASSUME Tables, NEW b \in Browser, NEW e \in Email, InviteUser(b, e)
  PROVE  Tables'
<1>0. Typed /\ Rows /\ Links
  BY DEF Tables
<1>1. PICK t : t = NewToken
  OBVIOUS
<1>2. /\ t \in Token /\ tokens' = t /\ tokens' \in 0..MaxTokens /\ tokens' \in Nat
      /\ tokens <= tokens' /\ t <= tokens'
      /\ Fresh(t)
      /\ UNCHANGED <<users, made, session, cli, used, admitted>>
  BY <1>0, <1>1, NewTokenType, NewTokenIsFresh DEF InviteUser, Links, Typed
<1>3. LinkSent' => LinkSent /\ cli'.token = cli.token /\ cli.token # t
  BY <1>2 DEF LinkSent, Fresh
<1>4. CASE InviteFits(e) /\ AddInvite(e, t, FALSE)
  <2>1. PICK new : new = invited + 1
    OBVIOUS
  <2>2. /\ Typed' /\ Rows' /\ Admissions' /\ Origins'
        /\ new \in 1..invited'
        /\ invites'[new].token = t
        /\ \A j \in 1..invited' : j # new => j \in 1..invited /\ invites'[j] = invites[j]
    BY <1>2, <1>4, <2>1, InviteAdded
  <2>3. Links'
    BY <1>0, <1>2, <1>3, <2>2, InviteGetsToken DEF Fresh, Rows
  <2> QED
    BY <2>2, <2>3 DEF Tables
<1>5. CASE \E i \in Pending(e) : /\ invites' = [invites EXCEPT ![i] = Renewed(@, t)]
                                 /\ UNCHANGED invited
  <2>1. PICK i \in Pending(e) : /\ invites' = [invites EXCEPT ![i] = Renewed(invites[i], t)]
                                /\ UNCHANGED invited
    BY <1>5
  <2>2. i \in 1..invited /\ invites[i] \in Invite
    BY <1>0 DEF Pending, Rows
  <2>3. PICK row : row = Renewed(invites[i], t)
    OBVIOUS
  <2>4. /\ row \in Invite /\ row.token = t
        /\ row.email = invites[i].email
        /\ row.accepted = invites[i].accepted
        /\ row.expired = invites[i].expired
    BY <1>2, <2>2, <2>3 DEF Renewed, Invite
  <2>5. /\ Typed' /\ Rows' /\ Admissions' /\ Origins'
        /\ invites'[i] = row
        /\ \A j \in 1..invited : j # i => invites'[j] = invites[j]
    BY <1>2, <2>1, <2>2, <2>3, <2>4, InviteChanged
  <2>6. Links'
    BY <1>0, <1>2, <1>3, <2>1, <2>2, <2>4, <2>5, InviteGetsToken DEF Fresh, Rows
  <2> QED
    BY <2>5, <2>6 DEF Tables
<1> QED
  BY <1>1, <1>4, <1>5 DEF InviteUser

\* An account's row has the token and is otherwise what it was.
AccountTakes(u, t) == /\ users' \in [UserId -> User \cup {None}]
                      /\ users'[u].reset = t
                      /\ users'[u].email = users[u].email
                      /\ users'[u].origin = users[u].origin
                      /\ Known' = Known
                      /\ \A v \in UserId : v # u => users'[v] = users[v]

LEMMA ResetWritten ==
  ASSUME Typed, NEW u \in Known, NEW t \in Token,
         users' = [users EXCEPT ![u].reset = t, ![u].live = TRUE]
  PROVE  AccountTakes(u, t)
<1>1. u \in UserId /\ users[u] \in User
  BY KnownAccounts
<1>2. PICK row : row = [users[u] EXCEPT !.reset = t, !.live = TRUE]
  OBVIOUS
<1>3. /\ row \in User
      /\ row.reset = t
      /\ row.email = users[u].email
      /\ row.origin = users[u].origin
  BY <1>1, <1>2 DEF User
<1>4. row # None
  BY <1>3, NoneIsNoRow
<1>5. users' = [users EXCEPT ![u] = row]
  BY <1>1, <1>2 DEF Typed
<1>6. users'[u] = row /\ \A v \in UserId : v # u => users'[v] = users[v]
  BY <1>1, <1>5 DEF Typed
<1>7. Known' = Known
  BY <1>1, <1>4, <1>6 DEF Known
<1>8. users' \in [UserId -> User \cup {None}]
  BY <1>1, <1>3, <1>5 DEF Typed
<1> QED
  BY <1>3, <1>6, <1>7, <1>8 DEF AccountTakes

LEMMA AccountTakesKeeps ==
  ASSUME Tables, NEW u \in Known, NEW t \in Token, AccountTakes(u, t),
         \A i \in 1..invited : invites[i].token # t,
         \A v \in Known : HasReset(v) => users[v].reset # t,
         t \notin used,
         LinkSent' => LinkSent /\ cli'.token = cli.token /\ cli.token # t,
         cli' \in {cli, Idle},
         t <= tokens', tokens <= tokens', tokens' \in 0..MaxTokens, tokens' \in Nat,
         UNCHANGED <<made, invites, invited, session, used, admitted>>
  PROVE  Tables'
<1>0. Typed /\ Rows /\ Admissions /\ Origins /\ Links
  BY DEF Tables
<1>1. cli' \in Command /\ (cli'.op = "renew" => cli' = cli)
  BY <1>0 DEF Typed, Command, Idle
<1>2. Typed'
  BY <1>0, <1>1 DEF Typed, AccountTakes
<1>3. Rows'
  <2>1. \A v \in UserId : v > made' => users'[v] = None
    BY <1>0 DEF Rows, AccountTakes, Known
  <2> QED
    BY <1>0, <1>1, <2>1 DEF Rows
<1>4. Admissions' /\ Origins'
  BY <1>0, KnownAccounts DEF Admissions, Origins, AccountTakes
<1>5. Links'
  BY <1>0, KnownAccounts, AccountGetsToken DEF AccountTakes, Rows
<1> QED
  BY <1>2, <1>3, <1>4, <1>5 DEF Tables

LEMMA RequestResetKeepsTables ==
  ASSUME Tables, NEW b \in Browser, NEW e \in Email, RequestReset(b, e)
  PROVE  Tables'
<1>0. Typed /\ Rows /\ Admissions /\ Origins /\ Links
  BY DEF Tables
<1>1. PICK t : t = NewToken
  OBVIOUS
<1>2. /\ t \in Token /\ tokens' = t /\ tokens' \in 0..MaxTokens /\ tokens' \in Nat
      /\ tokens <= tokens' /\ t <= tokens'
      /\ Fresh(t)
      /\ UNCHANGED <<made, invites, invited, session, cli, used, admitted>>
  BY <1>0, <1>1, NewTokenType, NewTokenIsFresh DEF RequestReset, Links, Typed
<1>3. LinkSent' => LinkSent /\ cli'.token = cli.token /\ cli.token # t
  BY <1>2 DEF LinkSent, Fresh
<1>4. PICK u \in Known : users' = [users EXCEPT ![u].reset = t, ![u].live = TRUE]
  BY <1>1 DEF RequestReset
<1>5. AccountTakes(u, t)
  BY <1>0, <1>2, <1>4, ResetWritten
<1> QED
  BY <1>0, <1>2, <1>3, <1>5, AccountTakesKeeps DEF Fresh

\* Roles and agents: the row keeps its address, its origin and its token.
LEMMA AccountField ==
  ASSUME Typed, NEW u \in Known, NEW value \in BOOLEAN,
         \/ users' = [users EXCEPT ![u].admin = value]
         \/ users' = [users EXCEPT ![u].owns = value]
         \/ users' = [users EXCEPT ![u].live = value]
  PROVE  /\ users' \in [UserId -> User \cup {None}]
         /\ \A v \in UserId : v # u => users'[v] = users[v]
         /\ users'[u].email = users[u].email
         /\ users'[u].origin = users[u].origin
         /\ users'[u].reset = users[u].reset
         /\ Known' = Known
<1>1. u \in UserId /\ users[u] \in User
  BY KnownAccounts
<1>2. \/ users' = [users EXCEPT ![u] = [users[u] EXCEPT !.admin = value]]
      \/ users' = [users EXCEPT ![u] = [users[u] EXCEPT !.owns = value]]
      \/ users' = [users EXCEPT ![u] = [users[u] EXCEPT !.live = value]]
  OBVIOUS
<1>3. PICK row : /\ users' = [users EXCEPT ![u] = row]
                 /\ \/ row = [users[u] EXCEPT !.admin = value]
                    \/ row = [users[u] EXCEPT !.owns = value]
                    \/ row = [users[u] EXCEPT !.live = value]
  BY <1>2
<1>4. /\ row \in User
      /\ row.email = users[u].email
      /\ row.origin = users[u].origin
      /\ row.reset = users[u].reset
  BY <1>1, <1>3 DEF User
<1>5. row # None
  BY <1>4, NoneIsNoRow
<1>6. users'[u] = row /\ \A v \in UserId : v # u => users'[v] = users[v]
  BY <1>1, <1>3 DEF Typed
<1>7. Known' = Known
  BY <1>1, <1>5, <1>6 DEF Known
<1>8. users' \in [UserId -> User \cup {None}]
  BY <1>1, <1>3, <1>4 DEF Typed
<1> QED
  BY <1>4, <1>6, <1>7, <1>8

LEMMA AccountFieldKeepsTables ==
  ASSUME Tables, NEW u \in Known, NEW value \in BOOLEAN,
         \/ users' = [users EXCEPT ![u].admin = value]
         \/ users' = [users EXCEPT ![u].owns = value]
         \/ users' = [users EXCEPT ![u].live = value],
         UNCHANGED <<made, invites, invited, tokens, session, used, admitted>>,
         cli' \in {cli, Idle}
  PROVE  Tables'
<1>1. Typed
  BY DEF Tables
<1>2. /\ users' \in [UserId -> User \cup {None}]
      /\ \A v \in UserId : v # u => users'[v] = users[v]
      /\ users'[u].email = users[u].email
      /\ users'[u].origin = users[u].origin
      /\ users'[u].reset = users[u].reset
  BY <1>1, AccountField
<1> QED
  BY <1>2, AccountChanged

\* A signed-in browser acts for an account that exists.
LEMMA CurrentIsKnown ==
  ASSUME NEW b \in Browser, ~Anonymous(b)
  PROVE  Current(b) \in Known
  BY DEF Anonymous, Current

LEMMA ServesKeepsTables ==
  ASSUME Tables, NEW b \in Browser, Serves(b)
  PROVE  Tables'
<1>0. Typed
  BY DEF Tables
<1>1. ASSUME NEW e \in Email, Register(b, e)
      PROVE  Tables'
  BY <1>1, RegisterKeepsTables
<1>2. ASSUME NEW e \in Email, Login(b, e)
      PROVE  Tables'
  <2>1. session' \in [Browser -> UserId \cup {None}]
    BY <1>0, <1>2, KnownAccounts DEF Login, Typed
  <2> QED
    BY <1>2, <2>1, RowsUntouched DEF Login
<1>3. ASSUME NEW e \in Email, InviteUser(b, e)
      PROVE  Tables'
  BY <1>3, InviteUserKeepsTables
<1>4. ASSUME NEW e \in Email, RequestReset(b, e)
      PROVE  Tables'
  BY <1>4, RequestResetKeepsTables
<1>5. ASSUME NEW e \in Email, NEW i \in 1..invited, AcceptInvite(b, i, e)
      PROVE  Tables'
  BY <1>5, AcceptInviteKeepsTables
<1>6. CASE Logout(b)
  <2>1. session' \in [Browser -> UserId \cup {None}]
    BY <1>0, <1>6 DEF Logout, Typed
  <2> QED
    BY <1>6, <2>1, RowsUntouched DEF Logout
<1>7. CASE NewAgent(b)
  <2>1. PICK u \in Known : u = Current(b)
    BY <1>7, CurrentIsKnown DEF NewAgent
  <2> QED
    BY <1>7, <2>1, AccountFieldKeepsTables DEF NewAgent
<1>8. ASSUME NEW u \in Known, ResetPassword(b, u)
      PROVE  Tables'
  BY <1>8, ResetPasswordKeepsTables
<1> QED
  BY <1>1, <1>2, <1>3, <1>4, <1>5, <1>6, <1>7, <1>8 DEF Serves

LEMMA RequestEndsKeepsTables == IInv /\ RequestEnds => Tables'
<1> SUFFICES ASSUME Tables, Requests, RequestEnds
             PROVE  Tables'
  BY DEF IInv
<1>0. Typed
  BY DEF Tables
<1>1. CASE CommitDelete
  <2>1. PICK u \in Known : u = request.user
    BY <1>1 DEF CommitDelete
  <2>2. /\ users' \in [UserId -> User \cup {None}]
        /\ users'[u] = None
        /\ \A v \in UserId : v # u => users'[v] = users[v]
    BY <1>0, <1>1, <2>1, KnownAccounts DEF CommitDelete, Typed
  <2> QED
    BY <1>1, <2>2, AccountChanged DEF CommitDelete
<1>2. CASE CommitToggle
  <2>1. PICK u \in Known, value \in BOOLEAN : u = request.user /\ value = request.admin
    BY <1>2 DEF CommitToggle, Requests, Request
  <2> QED
    BY <1>2, <2>1, AccountFieldKeepsTables DEF CommitToggle
<1>3. CASE RequestFails
  <2>1. session' \in [Browser -> UserId \cup {None}]
    BY <1>0, <1>3 DEF RequestFails, Typed
  <2> QED
    BY <1>3, <2>1, RowsUntouched DEF RequestFails
<1> QED
  BY <1>1, <1>2, <1>3 DEF RequestEnds

\* The command line sends a link, whose token only the command has.
LEMMA CliSendsKeepsTables ==
  ASSUME Tables, NEW command \in Command, CliSends(command), command.token = NewToken,
         command.op = "renew" => command.row \in 1..invited
  PROVE  Tables'
<1>0. Typed /\ Rows /\ Admissions /\ Origins /\ Links
  BY DEF Tables
<1>1. /\ cli' = command /\ tokens' = NewToken /\ NewToken \in 0..MaxTokens
      /\ UNCHANGED <<users, made, invites, invited, session, used, admitted>>
  BY <1>0, NewTokenType DEF CliSends
<1>2. Typed'
  BY <1>0, <1>1 DEF Typed
<1>3. Rows'
  BY <1>0, <1>1 DEF Rows
<1>4. Admissions' /\ Origins'
  BY <1>0, <1>1 DEF Admissions, Origins, Known
<1>5. Links'
  BY <1>0, <1>1, CommandGetsToken DEF CliSends
<1> QED
  BY <1>2, <1>3, <1>4, <1>5 DEF Tables

LEMMA CliNewKeepsTables ==
  ASSUME Tables, NEW e \in Email \cup {None}, NEW admin \in BOOLEAN, CliNew(e, admin)
  PROVE  Tables'
<1>0. Typed
  BY DEF Tables
<1>1. PICK t : t = NewToken
  OBVIOUS
<1>2. t \in Token
  BY <1>0, <1>1, NewTokenType DEF CliNew, CliSends
<1>3. CASE CliSends([op |-> "insert", email |-> e, token |-> t, admin |-> admin])
  <2>1. PICK c : c = [op |-> "insert", email |-> e, token |-> t, admin |-> admin]
    OBVIOUS
  <2>2. c \in Command /\ c.token = t /\ c.op # "renew"
    BY <1>2, <2>1 DEF Command
  <2> QED
    BY <1>1, <1>3, <2>1, <2>2, CliSendsKeepsTables
<1>4. ASSUME NEW i \in Pending(e),
             CliSends([op |-> "renew", row |-> i, token |-> t, admin |-> admin])
      PROVE  Tables'
  <2>1. PICK c : c = [op |-> "renew", row |-> i, token |-> t, admin |-> admin]
    OBVIOUS
  <2>2. i \in 1..invited /\ i \in InviteId
    BY <1>0, AccountsAssumption DEF Pending, Typed, InviteId
  <2>3. c \in Command /\ c.token = t /\ c.row = i
    BY <1>2, <2>1, <2>2 DEF Command
  <2> QED
    BY <1>1, <1>4, <2>1, <2>2, <2>3, CliSendsKeepsTables
<1> QED
  BY <1>1, <1>3, <1>4 DEF CliNew

LEMMA CliResetKeepsTables ==
  ASSUME Tables, NEW u \in Known, CliReset(u)
  PROVE  Tables'
<1>0. Typed
  BY DEF Tables
<1>1. PICK t : t = NewToken
  OBVIOUS
<1>2. t \in Token /\ u \in UserId
  BY <1>0, <1>1, NewTokenType, KnownAccounts DEF CliReset, CliSends
<1>3. PICK c : c = [op |-> "reset", user |-> u, token |-> t]
  OBVIOUS
<1>4. c \in Command /\ c.token = t /\ c.op # "renew"
  BY <1>2, <1>3 DEF Command
<1> QED
  BY <1>1, <1>3, <1>4, CliSendsKeepsTables DEF CliReset

LEMMA CliRoleKeepsTables ==
  ASSUME Tables, NEW u \in Known, NEW promote \in BOOLEAN, CliRole(u, promote)
  PROVE  Tables'
<1>0. Typed /\ Rows /\ Admissions /\ Origins /\ Links
  BY DEF Tables
<1>1. /\ cli' = [op |-> "role", user |-> u, admin |-> promote]
      /\ UNCHANGED <<users, made, invites, invited, tokens, session, used, admitted>>
  BY DEF CliRole
<1>2. cli' \in Command /\ cli'.op = "role"
  BY <1>0, <1>1, KnownAccounts DEF Command
<1>3. Typed'
  BY <1>0, <1>1, <1>2 DEF Typed
<1>4. Rows'
  BY <1>0, <1>1, <1>2 DEF Rows
<1>5. Admissions' /\ Origins'
  BY <1>0, <1>1 DEF Admissions, Origins, Known
<1>6. Links'
  <2>1. ~LinkSent'
    BY <1>2 DEF LinkSent
  <2>2. \A v \in Known' : v \in Known /\ users'[v].reset = users[v].reset
    BY <1>1 DEF Known
  <2> QED
    BY <1>0, <1>1, <2>1, <2>2, LinksKept
<1> QED
  BY <1>3, <1>4, <1>5, <1>6 DEF Tables

\* The token the command has sent is in no row, and after the commit it is
\* only in the row that the command wrote.
LEMMA CliCommitsKeepsTables == Tables /\ CliCommits => Tables'
<1> SUFFICES ASSUME Tables, CliCommits
             PROVE  Tables'
  OBVIOUS
<1>0. Typed /\ Rows /\ Links
  BY DEF Tables
<1>1. cli' = Idle /\ ~LinkSent'
  BY DEF CliCommits, LinkSent, Idle
<1>2. PICK t : t = cli.token
  OBVIOUS
<1>3. LinkSent => /\ t \in Token
                  /\ \A i \in 1..invited : invites[i].token # t
                  /\ \A v \in Known : HasReset(v) => users[v].reset # t
                  /\ t \notin used
                  /\ t <= tokens
  BY <1>0, <1>2, CommandTypes DEF Links, Apart, Dead, Made
<1>4. tokens \in 0..MaxTokens /\ tokens \in Nat /\ tokens <= tokens
  BY <1>0 DEF Typed
<1>5. CASE CommitInsert
  <2>0. cli.email \in Email \cup {None} /\ cli.admin \in BOOLEAN /\ LinkSent
    BY <1>0, <1>5, CommandTypes DEF CommitInsert, LinkSent
  <2>1. PICK new : new = invited + 1
    OBVIOUS
  <2>a. /\ UNCHANGED <<users, made, tokens, session, used, admitted>>
        /\ InviteFits(cli.email) /\ AddInvite(cli.email, t, cli.admin)
    BY <1>2, <1>5 DEF CommitInsert
  <2>2. /\ Typed' /\ Rows' /\ Admissions' /\ Origins'
        /\ new \in 1..invited'
        /\ invites'[new].token = t
        /\ \A j \in 1..invited' : j # new => j \in 1..invited /\ invites'[j] = invites[j]
    BY <1>1, <1>3, <1>4, <2>0, <2>1, <2>a, InviteAdded
  <2>3. Links'
    BY <1>0, <1>1, <1>3, <1>4, <2>0, <2>2, <2>a, InviteGetsToken DEF Rows
  <2> QED
    BY <2>2, <2>3 DEF Tables
<1>6. CASE CommitRenew
  <2>0. cli.row \in 1..invited /\ cli.admin \in BOOLEAN /\ LinkSent
    BY <1>0, <1>6, CommandTypes DEF CommitRenew, LinkSent, Rows
  <2>1. PICK i \in 1..invited : i = cli.row
    BY <2>0
  <2>2. invites[i] \in Invite
    BY <1>0 DEF Rows
  <2>3. PICK row : row = [Renewed(invites[i], t) EXCEPT !.asked = cli.admin]
    OBVIOUS
  <2>4. /\ row \in Invite /\ row.token = t
        /\ row.email = invites[i].email
        /\ row.accepted = invites[i].accepted
        /\ row.expired = invites[i].expired
    BY <1>3, <2>0, <2>2, <2>3 DEF Renewed, Invite
  <2>5. /\ invites' = [invites EXCEPT ![i] = row]
        /\ UNCHANGED <<users, made, invited, tokens, session, used, admitted>>
    BY <1>2, <1>6, <2>1, <2>3 DEF CommitRenew
  <2>6. /\ Typed' /\ Rows' /\ Admissions' /\ Origins'
        /\ invites'[i] = row
        /\ \A j \in 1..invited : j # i => invites'[j] = invites[j]
    BY <1>1, <1>4, <2>4, <2>5, InviteChanged
  <2>7. Links'
    BY <1>0, <1>1, <1>3, <1>4, <2>0, <2>4, <2>5, <2>6, InviteGetsToken DEF Rows
  <2> QED
    BY <2>6, <2>7 DEF Tables
<1>7. CASE CommitRole
  <2>1. PICK u \in Known, value \in BOOLEAN : u = cli.user /\ value = cli.admin
    BY <1>0, <1>7, CommandTypes DEF CommitRole
  <2> QED
    BY <1>1, <1>7, <2>1, AccountFieldKeepsTables DEF CommitRole
<1>8. CASE CommitReset
  <2>1. PICK u \in Known : u = cli.user
    BY <1>8 DEF CommitReset
  <2>2. LinkSent
    BY <1>8 DEF CommitReset, LinkSent
  <2>3. /\ users' = [users EXCEPT ![u].reset = t, ![u].live = TRUE]
        /\ UNCHANGED <<made, invites, invited, tokens, session, used, admitted>>
    BY <1>2, <1>8, <2>1 DEF CommitReset
  <2>4. AccountTakes(u, t)
    BY <1>0, <1>3, <2>2, <2>3, ResetWritten
  <2> QED
    BY <1>1, <1>3, <1>4, <2>2, <2>3, <2>4, AccountTakesKeeps
<1> QED
  BY <1>5, <1>6, <1>7, <1>8 DEF CliCommits

LEMMA TimeKeepsTables == Tables /\ TimeNext => Tables'
<1> SUFFICES ASSUME Tables, TimeNext
             PROVE  Tables'
  OBVIOUS
<1>0. Typed /\ Rows /\ Links
  BY DEF Tables
<1>1. ASSUME NEW i \in 1..invited, ExpireInvite(i)
      PROVE  Tables'
  <2>1. invites[i] \in Invite
    BY <1>0 DEF Rows
  <2>2. PICK row : row = [invites[i] EXCEPT !.live = FALSE]
    OBVIOUS
  <2>3. /\ row \in Invite /\ row.token = invites[i].token
        /\ row.email = invites[i].email
        /\ row.accepted = invites[i].accepted
        /\ row.expired = invites[i].expired
    BY <2>1, <2>2 DEF Invite
  <2>4. /\ invites' = [invites EXCEPT ![i] = row]
        /\ UNCHANGED <<users, made, invited, tokens, session, cli, used, admitted>>
    BY <1>1, <2>2 DEF ExpireInvite
  <2>5. /\ Typed' /\ Rows' /\ Admissions' /\ Origins'
        /\ invites'[i] = row
        /\ \A j \in 1..invited : j # i => invites'[j] = invites[j]
    BY <1>0, <2>3, <2>4, InviteChanged DEF Typed
  <2>6. Links'
    <3>1. \A u \in Known' : u \in Known /\ users'[u].reset = users[u].reset
      BY <2>4 DEF Known
    <3>2. LinkSent' => LinkSent /\ cli'.token = cli.token
      BY <2>4 DEF LinkSent
    <3>3. \A j \in 1..invited : /\ invites'[j].token = invites[j].token
                                /\ invites[j].accepted => invites'[j].accepted
      BY <2>3, <2>5
    <3> QED
      BY <1>0, <2>4, <3>1, <3>2, <3>3, LinksKept
  <2> QED
    BY <2>5, <2>6 DEF Tables
<1>2. ASSUME NEW u \in Known, ExpireReset(u)
      PROVE  Tables'
  BY <1>2, AccountFieldKeepsTables DEF ExpireReset
<1> QED
  BY <1>1, <1>2 DEF TimeNext

LEMMA CliKeepsTables ==
  ASSUME Tables, CliNext
  PROVE  Tables'
<1>1. ASSUME NEW admin \in BOOLEAN, NEW e \in Email, CliNew(Canonical[e], admin)
      PROVE  Tables'
  <2>1. Canonical[e] \in Email \cup {None}
    BY AccountsAssumption
  <2> QED
    BY <1>1, <2>1, CliNewKeepsTables
<1>2. ASSUME NEW admin \in BOOLEAN, CliNew(None, admin)
      PROVE  Tables'
  BY <1>2, CliNewKeepsTables
<1>3. ASSUME NEW u \in Known, CliReset(u)
      PROVE  Tables'
  BY <1>3, CliResetKeepsTables
<1>4. ASSUME NEW u \in Known, NEW promote \in BOOLEAN, CliRole(u, promote)
      PROVE  Tables'
  BY <1>4, CliRoleKeepsTables
<1>5. CASE CliCommits
  BY <1>5, CliCommitsKeepsTables
<1>6. CASE CliFails
  <2>1. session' \in [Browser -> UserId \cup {None}]
    BY <1>6 DEF CliFails, Tables, Typed
  <2> QED
    BY <1>6, <2>1, RowsUntouched DEF CliFails
<1> QED
  BY <1>1, <1>2, <1>3, <1>4, <1>5, <1>6 DEF CliNext

\* The request that is being served.
LEMMA RequestsKept ==
  ASSUME Requests, Typed, [Next]_vars
  PROVE  Requests'
<1>1. CASE request' = NoRequest
  <2>1. request' \in Request
    BY <1>1 DEF NoRequest, Request
  <2> QED
    BY <1>1, <2>1 DEF Requests
<1>2. CASE request' = request /\ request # NoRequest
  <2>1. session' = session
    BY <1>2 DEF Next, WebNext, DeleteUser, ToggleUser, RequestEnds, CommitDelete, CommitToggle,
                RequestFails, CliNext, CliNew, CliReset, CliRole, CliSends, CliCommits,
                CommitInsert, CommitRenew, CommitRole, CommitReset, CliFails, TimeNext,
                ExpireInvite, ExpireReset, vars
  <2> QED
    BY <1>2, <2>1 DEF Requests
<1>3. ASSUME NEW b \in Browser, NEW u \in Known, DeleteUser(b, u) \/ ToggleUser(b, u)
      PROVE  Requests'
  <2>1. u \in UserId /\ users[u].admin \in BOOLEAN /\ session' = session
    BY <1>3, KnownAccounts DEF DeleteUser, ToggleUser, User
  <2>2. session[b] # u
    BY <1>3 DEF DeleteUser, ToggleUser, Administers, Others, Current
  <2>3. request' \in Request /\ request'.browser = b /\ request'.user = u
    <3>1. CASE DeleteUser(b, u)
      BY <2>1, <3>1 DEF DeleteUser, Request
    <3>2. PICK value \in BOOLEAN : value = ~users[u].admin
      OBVIOUS
    <3>3. CASE ToggleUser(b, u)
      <4>1. request' = [op |-> "toggle", browser |-> b, user |-> u, admin |-> value]
        BY <3>2, <3>3 DEF ToggleUser
      <4> QED
        BY <2>1, <4>1 DEF Request
    <3> QED
      BY <1>3, <3>1, <3>3
  <2> QED
    BY <2>1, <2>2, <2>3 DEF Requests
<1>4. CASE WebNext
  BY <1>1, <1>2, <1>3, <1>4 DEF WebNext, RequestEnds
<1>5. CASE UNCHANGED request
  BY <1>1, <1>2, <1>5
<1> QED
  BY <1>4, <1>5 DEF Next, vars

LEMMA NextInv == IInv /\ [Next]_vars => IInv'
<1> SUFFICES ASSUME IInv, [Next]_vars
             PROVE  IInv'
  OBVIOUS
<1>0. Tables /\ Requests /\ Typed
  BY DEF IInv, Tables
<1>1. Requests'
  BY <1>0, RequestsKept
<1>2. CASE WebNext
  <2>1. ASSUME NEW b \in Browser, NEW u \in Known, DeleteUser(b, u) \/ ToggleUser(b, u)
        PROVE  Tables'
    <3>1. session' \in [Browser -> UserId \cup {None}]
      BY <1>0, <2>1 DEF DeleteUser, ToggleUser, Typed
    <3> QED
      BY <1>0, <2>1, <3>1, RowsUntouched DEF DeleteUser, ToggleUser
  <2> QED
    BY <1>0, <1>1, <1>2, <2>1, ServesKeepsTables, RequestEndsKeepsTables DEF WebNext, IInv
<1>3. CASE CliNext
  BY <1>0, <1>1, <1>3, CliKeepsTables DEF IInv
<1>4. CASE TimeNext
  BY <1>0, <1>1, <1>4, TimeKeepsTables DEF IInv
<1>5. CASE UNCHANGED vars
  <2>1. session' \in [Browser -> UserId \cup {None}]
    BY <1>0, <1>5 DEF vars, Typed
  <2> QED
    BY <1>0, <1>1, <1>5, <2>1, RowsUntouched DEF vars, IInv
<1> QED
  BY <1>2, <1>3, <1>4, <1>5 DEF Next

LEMMA InitInv == Init => IInv
<1> SUFFICES ASSUME Init
             PROVE  IInv
  OBVIOUS
<1>1. Requests
  BY DEF Init, Requests, Request, NoRequest
<1> QED
  BY <1>1, InitTables DEF IInv

\* The invariant holds of every reachable state.
THEOREM Invariance == Spec => []IInv
  BY InitInv, NextInv, PTL DEF Spec
-----------------------------------------------------------------------------
(* The properties *)

\* Every table, session and command has its type.
THEOREM TypeCorrect == Spec => []TypeOK
<1>1. IInv => TypeOK
  BY DEF IInv, Tables, Typed, Requests, TypeOK
<1> QED
  BY <1>1, Invariance, PTL

\* An invitation admits at most one account, whatever renews it.
THEOREM InvitationAdmitsOne == Spec => []OneAccountPerInvitation
<1>1. IInv => OneAccountPerInvitation
  <2> SUFFICES ASSUME IInv, NEW i \in InviteId
               PROVE  admitted[i] <= 1
    BY DEF OneAccountPerInvitation
  <2>1. i > invited => admitted[i] = 0
    BY DEF IInv, Tables, Rows
  <2>2. i \in 1..invited => admitted[i] <= 1
    BY DEF IInv, Tables, Admissions
  <2>3. i > invited \/ i \in 1..invited
    BY AccountsAssumption DEF IInv, Tables, Typed, InviteId
  <2> QED
    BY <2>1, <2>2, <2>3
<1> QED
  BY <1>1, Invariance, PTL

\* An invited account has the invited address, and its invitation stays closed.
THEOREM InvitedAccountsMatch == Spec => []AccountsMatchInvitations
<1>1. IInv => AccountsMatchInvitations
  BY DEF IInv, Tables, Origins, Admissions, AccountsMatchInvitations, ValidInvite
<1> QED
  BY <1>1, Invariance, PTL

\* A used link leads nowhere, whatever was sent, renewed or committed since.
THEOREM UsedLinkStaysDead == Spec => []UsedLinkIsDead
<1>1. IInv => UsedLinkIsDead
  BY DEF IInv, Tables, Links, Dead, Admissions, UsedLinkIsDead, ValidInvite, ValidReset, HasReset
<1> QED
  BY <1>1, Invariance, PTL

\* A row that keeps its role keeps an administrator.
LEMMA AdminsKept ==
  ASSUME Typed, Known \subseteq Known',
         \A u \in Known : users'[u].admin = users[u].admin
  PROVE  Admins # {} => Admins' # {}
  BY DEF Admins

\* The last administrator goes by a command, or by a request whose requester a
\* command has demoted since it was checked: one who still is an administrator
\* when the request commits stays one, because the request is about another.
THEOREM LastAdminGoesByCli == Spec => AdminRemains
<1>1. IInv /\ [Next]_vars => [(Admins # {} /\ Admins' = {}) => CommitRole \/ RequesterDemoted]_vars
  <2> SUFFICES ASSUME IInv, Next, Admins # {}, ~CommitRole, ~RequesterDemoted
               PROVE  Admins' # {}
    OBVIOUS
  <2>0. Typed /\ Rows /\ Requests
    BY DEF IInv, Tables
  <2>1. ASSUME UNCHANGED users
        PROVE  Admins' # {}
    BY <2>1 DEF Admins, Known
  <2>2. ASSUME NEW b \in Browser, NEW e \in Email, NEW admin \in BOOLEAN,
               NEW origin \in InviteId \cup {0}, UserFits(e), AddUser(b, e, admin, origin)
        PROVE  Admins' # {}
    <3>1. /\ made + 1 \notin Known /\ Known' = Known \cup {made + 1}
          /\ \A u \in UserId : u # made + 1 => users'[u] = users[u]
      BY <2>0, <2>2, AccountAdded
    <3> QED
      BY <2>0, <3>1, AdminsKept, KnownAccounts
  <2>3. CASE CommitDelete \/ CommitToggle
    <3>0. request # NoRequest
      BY <2>3 DEF CommitDelete, CommitToggle, NoRequest
    <3>1. PICK a \in Admins : a = Current(request.browser)
      BY <3>0 DEF RequesterDemoted
    <3>2. a \in Known /\ users[a].admin /\ a = session[request.browser]
      BY <3>1, NoneIsNoRow DEF Admins, Current, Known
    <3>3. a # request.user
      BY <2>0, <3>0, <3>2 DEF Requests
    <3>4. \/ users' = [users EXCEPT ![request.user] = None]
          \/ users' = [users EXCEPT ![request.user] = [users[request.user] EXCEPT !.admin = request.admin]]
      BY <2>3 DEF CommitDelete, CommitToggle
    <3>5. PICK row : users' = [users EXCEPT ![request.user] = row]
      BY <3>4
    <3>6. users'[a] = users[a]
      BY <2>0, <3>2, <3>3, <3>5, KnownAccounts DEF Typed
    <3> QED
      BY <3>2, <3>6, KnownAccounts DEF Admins, Known
  <2>4. ASSUME NEW u \in Known, NEW row \in User, users' = [users EXCEPT ![u] = row],
               row.admin = users[u].admin
        PROVE  Admins' # {}
    <3>1. row # None
      BY NoneIsNoRow
    <3>2. \A v \in Known : users'[v] = IF v = u THEN row ELSE users[v]
      BY <2>0, <2>4, KnownAccounts DEF Typed
    <3>3. Known \subseteq Known' /\ \A v \in Known : users'[v].admin = users[v].admin
      BY <2>4, <3>1, <3>2 DEF Known
    <3> QED
      BY <2>0, <3>3, AdminsKept
  <2>5. ASSUME NEW u \in Known,
               NEW row, users' = [users EXCEPT ![u] = row],
               \/ row = [users[u] EXCEPT !.owns = TRUE]
               \/ row = [users[u] EXCEPT !.live = FALSE]
               \/ row = Redeemed(users[u])
               \/ \E t \in Token : row = [users[u] EXCEPT !.reset = t, !.live = TRUE]
        PROVE  Admins' # {}
    <3>1. row \in User /\ row.admin = users[u].admin
      BY <2>0, <2>5, KnownAccounts DEF Redeemed, User
    <3> QED
      BY <2>4, <2>5, <3>1
  <2>6. ASSUME NEW b \in Browser, Serves(b)
        PROVE  Admins' # {}
    <3>1. ASSUME NEW e \in Email, Register(b, e)
          PROVE  Admins' # {}
      <4>1. Canonical[e] \in Email
        BY AccountsAssumption
      <4> QED
        BY <2>2, <3>1, <4>1 DEF Register
    <3>2. ASSUME NEW e \in Email, NEW i \in 1..invited, AcceptInvite(b, i, e)
          PROVE  Admins' # {}
      <4>1. i \in InviteId /\ invites[i] \in Invite
        BY <2>0, AccountsAssumption DEF Rows, Typed, InviteId
      <4>2. InviteeAddress(invites[i], e) \in Email /\ invites[i].admin \in BOOLEAN
        BY <4>1 DEF InviteeAddress, Invite
      <4> QED
        BY <2>2, <3>2, <4>1, <4>2 DEF AcceptInvite
    <3>3. ASSUME NEW e \in Email, RequestReset(b, e)
          PROVE  Admins' # {}
      <4>1. NewToken \in Token
        BY <2>0, <3>3, NewTokenType DEF RequestReset
      <4>2. PICK u \in Known :
              users' = [users EXCEPT ![u] = [users[u] EXCEPT !.reset = NewToken, !.live = TRUE]]
        BY <3>3 DEF RequestReset
      <4> QED
        BY <2>5, <4>1, <4>2
    <3>4. CASE NewAgent(b)
      <4>1. PICK u \in Known : u = Current(b)
        BY <3>4, CurrentIsKnown DEF NewAgent
      <4>2. users' = [users EXCEPT ![u] = [users[u] EXCEPT !.owns = TRUE]]
        BY <3>4, <4>1 DEF NewAgent
      <4> QED
        BY <2>5, <4>2
    <3>5. ASSUME NEW u \in Known, ResetPassword(b, u)
          PROVE  Admins' # {}
      <4>1. users' = [users EXCEPT ![u] = Redeemed(users[u])]
        BY <3>5 DEF ResetPassword
      <4> QED
        BY <2>5, <4>1
    <3>6. ASSUME NEW e \in Email, Login(b, e) \/ InviteUser(b, e)
          PROVE  Admins' # {}
      BY <2>1, <3>6 DEF Login, InviteUser
    <3>7. CASE Logout(b)
      BY <2>1, <3>7 DEF Logout
    <3> QED
      BY <2>6, <3>1, <3>2, <3>3, <3>4, <3>5, <3>6, <3>7 DEF Serves
  <2>7. CASE CliCommits
    <3>1. CASE CommitInsert \/ CommitRenew
      BY <2>1, <3>1 DEF CommitInsert, CommitRenew
    <3>2. CASE CommitReset
      <4>1. PICK u \in Known, t \in Token : u = cli.user /\ t = cli.token
        BY <2>0, <3>2, CommandTypes DEF CommitReset, LinkSent
      <4>2. users' = [users EXCEPT ![u] = [users[u] EXCEPT !.reset = t, !.live = TRUE]]
        BY <3>2, <4>1 DEF CommitReset
      <4> QED
        BY <2>5, <4>2
    <3> QED
      BY <2>7, <3>1, <3>2 DEF CliCommits
  <2>8. CASE CliNext /\ ~CliCommits
    <3>1. UNCHANGED users
      BY <2>8 DEF CliNext, CliNew, CliReset, CliRole, CliSends, CliFails
    <3> QED
      BY <2>1, <3>1
  <2>9. CASE TimeNext
    <3>1. ASSUME NEW u \in Known, ExpireReset(u)
          PROVE  Admins' # {}
      <4>1. users' = [users EXCEPT ![u] = [users[u] EXCEPT !.live = FALSE]]
        BY <3>1 DEF ExpireReset
      <4> QED
        BY <2>5, <4>1
    <3>2. ASSUME NEW i \in 1..invited, ExpireInvite(i)
          PROVE  Admins' # {}
      BY <2>1, <3>2 DEF ExpireInvite
    <3> QED
      BY <2>9, <3>1, <3>2 DEF TimeNext
  <2>10. CASE WebNext
    <3>1. ASSUME NEW b \in Browser, NEW u \in Known, DeleteUser(b, u) \/ ToggleUser(b, u)
          PROVE  Admins' # {}
      BY <2>1, <3>1 DEF DeleteUser, ToggleUser
    <3>2. CASE RequestFails
      BY <2>1, <3>2 DEF RequestFails
    <3> QED
      BY <2>3, <2>6, <2>10, <3>1, <3>2 DEF WebNext, RequestEnds
  <2> QED
    BY <2>7, <2>8, <2>9, <2>10 DEF Next
<1> QED
  BY <1>1, Invariance, PTL DEF Spec, AdminRemains
===============================================================================
