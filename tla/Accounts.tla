------------------------------- MODULE Accounts -------------------------------
(***************************************************************************)
(* Accounts, invitations and password resets of natlas-server.  One        *)
(* synchronous web worker serves the browsers one request at a time; a     *)
(* request whose commit breaks a constraint of the database changes        *)
(* nothing and is no step at all, though its link has gone out.  The       *)
(* command line is another process: it reads, sends its link and commits,  *)
(* and the web worker may change the rows in between.  No row is locked,   *)
(* so it may also commit between the check of an administrator's request   *)
(* and its commit: DeleteUser and ToggleUser only read.  The other         *)
(* requests are one step.  An UPDATE writes only the columns assigned.     *)
(***************************************************************************)
EXTENDS Integers

CONSTANTS Browser,      \* browsers, each with its own session
          Email,        \* e-mail addresses as people type them
          Canonical,    \* what email_validator makes of an address
          Lower,        \* str.lower of an address
          None,
          MaxUsers,     \* bound on accounts ever made
          MaxInvites,   \* bound on invitation rows
          MaxTokens     \* bound on links ever made

ASSUME AccountsAssumption == /\ Canonical \in [Email -> Email]
                             /\ Lower \in [Email -> Email]
                             /\ None \notin Email
                             /\ {MaxUsers, MaxInvites, MaxTokens} \subseteq Nat

VARIABLES users,     \* table user; made so far are the ids 1..made
          made,
          invites,   \* table user_invitation, the ids 1..invited
          invited,
          tokens,    \* tokens made so far
          session,   \* the account a browser's session names
          request,   \* the deletion or change of role the web worker is serving
          cli,       \* the command that is running, with what it will commit
          used,      \* tokens that have served their purpose (history)
          admitted   \* accounts made from each invitation (history)

vars == <<users, made, invites, invited, tokens, session, request, cli, used, admitted>>

UserId == 1..MaxUsers
InviteId == 1..MaxInvites
Token == 1..MaxTokens

\* origin (history) is the invitation the account was made from, 0 for none.
User == [email : Email, admin : BOOLEAN, reset : Token \cup {None},
         live : BOOLEAN, owns : BOOLEAN, origin : InviteId \cup {0}]

\* live: the expiration date lies in the future.  asked (history): the role
\* that the last command for this invitation asked for.
Invite == [email : Email \cup {None}, token : Token, live : BOOLEAN,
           accepted : BOOLEAN, expired : BOOLEAN, admin : BOOLEAN, asked : BOOLEAN]

\* A column that is NULL, a row that is not there, nobody.
ASSUME NoneIsNoRow == None \notin User \cup Invite \cup UserId

\* A change of role carries the role read, turned over.
Request == [op : {"none"}]
           \cup [op : {"delete"}, browser : Browser, user : UserId]
           \cup [op : {"toggle"}, browser : Browser, user : UserId, admin : BOOLEAN]

NoRequest == [op |-> "none"]

Command == [op : {"idle"}]
           \cup [op : {"insert"}, email : Email \cup {None}, token : Token, admin : BOOLEAN]
           \cup [op : {"renew"}, row : InviteId, token : Token, admin : BOOLEAN]
           \cup [op : {"role"}, user : UserId, admin : BOOLEAN]
           \cup [op : {"reset"}, user : UserId, token : Token]

Idle == [op |-> "idle"]

TypeOK == /\ users \in [UserId -> User \cup {None}]
          /\ made \in 0..MaxUsers
          /\ invites \in [InviteId -> Invite \cup {None}]
          /\ invited \in 0..MaxInvites
          /\ tokens \in 0..MaxTokens
          /\ session \in [Browser -> UserId \cup {None}]
          /\ request \in Request
          /\ cli \in Command
          /\ used \subseteq Token
          /\ admitted \in [InviteId -> 0..MaxUsers]

Init == /\ users = [u \in UserId |-> None]
        /\ made = 0
        /\ invites = [i \in InviteId |-> None]
        /\ invited = 0
        /\ tokens = 0
        /\ session = [b \in Browser |-> None]
        /\ request = NoRequest
        /\ cli = Idle
        /\ used = {}
        /\ admitted = [i \in InviteId |-> 0]
-----------------------------------------------------------------------------
(* Accounts and sessions *)

Known == {u \in UserId : users[u] # None}
Exists(e) == \E u \in Known : users[u].email = e
Admins == {u \in Known : users[u].admin}

\* current_user, None for an anonymous one: a session may name an account
\* that has been deleted.
Current(b) == IF session[b] \in Known THEN session[b] ELSE None

Anonymous(b) == Current(b) = None
IsAdmin(b) == Current(b) \in Admins

NewToken == tokens + 1
TokenLeft == tokens < MaxTokens

\* The unique index on user.email.
UserFits(e) == made < MaxUsers /\ ~Exists(e)

\* db.session.add(new_user), and login_user after the commit.
AddUser(b, e, admin, origin) ==
    /\ users' = [users EXCEPT ![made + 1] =
                    [email |-> e, admin |-> admin, reset |-> None,
                     live |-> FALSE, owns |-> FALSE, origin |-> origin]]
    /\ made' = made + 1
    /\ session' = [session EXCEPT ![b] = made + 1]

\* The form looks the address up in lower case.
Registrable(e) == ~Exists(Lower[e])

\* The account is stored under the canonical address.
Register(b, e) ==
    /\ Anonymous(b)
    /\ Registrable(e)
    /\ UserFits(Canonical[e])
    /\ AddUser(b, Canonical[e], FALSE, 0)
    /\ UNCHANGED <<invites, invited, tokens, cli, used, admitted>>

\* The account is looked for under the canonical address.
Login(b, e) ==
    /\ Anonymous(b)
    /\ \E u \in Known : /\ users[u].email = Canonical[e]
                        /\ session' = [session EXCEPT ![b] = u]
    /\ UNCHANGED <<users, made, invites, invited, tokens, cli, used, admitted>>

Logout(b) ==
    /\ session[b] # None
    /\ session' = [session EXCEPT ![b] = None]
    /\ UNCHANGED <<users, made, invites, invited, tokens, cli, used, admitted>>

\* An agent of one's own: a row that refers to the account for good.
NewAgent(b) ==
    /\ ~Anonymous(b)
    /\ users' = [users EXCEPT ![Current(b)].owns = TRUE]
    /\ UNCHANGED <<made, invites, invited, tokens, session, cli, used, admitted>>
-----------------------------------------------------------------------------
(* Administration of accounts *)

\* Mutant: any account of one's choice.
Others_any(b) == Known

Others(b) == Known \ {Current(b)}

\* The requester is an administrator and the account another's, when read.
Administers(b, u) == IsAdmin(b) /\ u \in Others(b)

DeleteUser(b, u) ==
    /\ Administers(b, u)
    /\ request' = [op |-> "delete", browser |-> b, user |-> u]
    /\ UNCHANGED <<users, made, invites, invited, tokens, session, cli, used, admitted>>

ToggleUser(b, u) ==
    /\ Administers(b, u)
    /\ request' = [op |-> "toggle", browser |-> b, user |-> u, admin |-> ~users[u].admin]
    /\ UNCHANGED <<users, made, invites, invited, tokens, session, cli, used, admitted>>

\* SQLAlchemy clears user_id in the agents and rescans of the account, which
\* the database refuses.
CommitDelete ==
    /\ request.op = "delete"
    /\ request.user \in Known
    /\ ~users[request.user].owns
    /\ users' = [users EXCEPT ![request.user] = None]
    /\ UNCHANGED <<made, invites, invited, tokens, session, cli, used, admitted>>

CommitToggle ==
    /\ request.op = "toggle"
    /\ request.user \in Known
    /\ users' = [users EXCEPT ![request.user].admin = request.admin]
    /\ UNCHANGED <<made, invites, invited, tokens, session, cli, used, admitted>>

\* The database refuses the commit, or the worker dies before it.
RequestFails ==
    /\ request # NoRequest
    /\ UNCHANGED <<users, made, invites, invited, tokens, session, cli, used, admitted>>

RequestEnds == (CommitDelete \/ CommitToggle \/ RequestFails) /\ request' = NoRequest
-----------------------------------------------------------------------------
(* Invitations *)

\* What new_invite finds for an address: the unaccepted invitation to it.
Pending(e) == {i \in 1..invited : /\ e # None
                                  /\ invites[i].email = e
                                  /\ ~invites[i].accepted}

\* Mutant: the renewed invitation starts from scratch.
Renewed_revived(row, token) == [row EXCEPT !.token = token, !.live = TRUE,
                                           !.expired = FALSE, !.accepted = FALSE]

Renewed(row, token) == [row EXCEPT !.token = token, !.live = TRUE]

\* The unique index on user_invitation.email admits any number of NULLs.
InviteFits(e) == /\ invited < MaxInvites
                 /\ \A i \in 1..invited : e # None => invites[i].email # e

AddInvite(e, token, admin) ==
    /\ invites' = [invites EXCEPT ![invited + 1] =
                      [email |-> e, token |-> token, live |-> TRUE, accepted |-> FALSE,
                       expired |-> FALSE, admin |-> admin, asked |-> admin]]
    /\ invited' = invited + 1

\* The page looks the address up as typed.
Invitable(e) == ~Exists(e)

\* The page does not ask for a role.  The address is stored as typed.
InviteUser(b, e) ==
    /\ IsAdmin(b)
    /\ Invitable(e)
    /\ TokenLeft
    /\ tokens' = NewToken
    /\ \/ /\ Pending(e) = {}
          /\ InviteFits(e)
          /\ AddInvite(e, NewToken, FALSE)
       \/ \E i \in Pending(e) : /\ invites' = [invites EXCEPT ![i] = Renewed(@, NewToken)]
                                /\ UNCHANGED invited
    /\ UNCHANGED <<users, made, session, cli, used, admitted>>

Accepted(row) == [row EXCEPT !.accepted = TRUE, !.expired = TRUE, !.live = FALSE]

\* Mutants: the address in the form, or that of the invitation, always counts.
InviteeAddress_typed(row, e) == e
InviteeAddress_row(row, e) == row.email

InviteeAddress(row, e) == IF row.email = None THEN e ELSE row.email

ValidInvite(row) == row.live /\ ~row.expired

\* The invitations that a link leads to.
OpenInvites == {i \in 1..invited : ValidInvite(invites[i])}

\* An invitation without an address takes the one in the form, whose
\* validation looks for an account in lower case; one with an address does
\* not look.
AcceptInvite(b, i, e) ==
    /\ Anonymous(b)
    /\ i \in OpenInvites
    /\ invites[i].email = None => Registrable(e)
    /\ UserFits(InviteeAddress(invites[i], e))
    /\ AddUser(b, InviteeAddress(invites[i], e), invites[i].admin, i)
    /\ invites' = [invites EXCEPT ![i] = Accepted(@)]
    /\ used' = used \cup {invites[i].token}
    /\ admitted' = [admitted EXCEPT ![i] = @ + 1]
    /\ UNCHANGED <<invited, tokens, cli>>

\* 48 hours pass.
ExpireInvite(i) ==
    /\ invites[i].live
    /\ invites' = [invites EXCEPT ![i].live = FALSE]
    /\ UNCHANGED <<users, made, invited, tokens, session, cli, used, admitted>>
-----------------------------------------------------------------------------
(* Password resets *)

ValidReset(u) == users[u].reset # None /\ users[u].live

\* The accounts whose password a link sets.
OpenResets == {u \in Known : ValidReset(u)}

\* A token that is still valid is sent again.
RequestReset(b, e) ==
    /\ Anonymous(b)
    /\ TokenLeft
    /\ \E u \in Known :
          /\ users[u].email = Canonical[e]
          /\ ~ValidReset(u)
          /\ users' = [users EXCEPT ![u].reset = NewToken, ![u].live = TRUE]
    /\ tokens' = NewToken
    /\ UNCHANGED <<made, invites, invited, session, cli, used, admitted>>

\* Mutant: the token stays.
Redeemed_kept(user) == user

Redeemed(user) == [user EXCEPT !.reset = None, !.live = FALSE]

ResetPassword(b, u) ==
    /\ Anonymous(b)
    /\ u \in OpenResets
    /\ used' = used \cup {users[u].reset}
    /\ users' = [users EXCEPT ![u] = Redeemed(@)]
    /\ UNCHANGED <<made, invites, invited, tokens, session, cli, admitted>>

ExpireReset(u) ==
    /\ users[u].live
    /\ users' = [users EXCEPT ![u].live = FALSE]
    /\ UNCHANGED <<made, invites, invited, tokens, session, cli, used, admitted>>
-----------------------------------------------------------------------------
(* The command line *)

CliSends(command) ==
    /\ cli = Idle
    /\ TokenLeft
    /\ tokens' = NewToken
    /\ cli' = command
    /\ UNCHANGED <<users, made, invites, invited, session, used, admitted>>

\* The command "new", with or without an address.
CliNew(e, admin) ==
    /\ e # None => ~Exists(e)
    /\ \/ /\ Pending(e) = {}
          /\ invited < MaxInvites
          /\ CliSends([op |-> "insert", email |-> e, token |-> NewToken, admin |-> admin])
       \/ \E i \in Pending(e) :
             CliSends([op |-> "renew", row |-> i, token |-> NewToken, admin |-> admin])

\* A command finds an account by the canonical address of what is typed.
Named(u) == \E e \in Email : users[u].email = Canonical[e]

\* The command "reset-password"; a token that is still valid is only sent.
CliReset(u) ==
    /\ ~ValidReset(u)
    /\ CliSends([op |-> "reset", user |-> u, token |-> NewToken])

\* The command "role".
CliRole(u, promote) ==
    /\ cli = Idle
    /\ users[u].admin # promote
    /\ cli' = [op |-> "role", user |-> u, admin |-> promote]
    /\ UNCHANGED <<users, made, invites, invited, tokens, session, used, admitted>>

CommitInsert ==
    /\ cli.op = "insert"
    /\ InviteFits(cli.email)
    /\ AddInvite(cli.email, cli.token, cli.admin)
    /\ UNCHANGED <<users, made, tokens, session, used, admitted>>

\* Token and expiration date are written, the role is not.
CommitRenew ==
    /\ cli.op = "renew"
    /\ invites' = [invites EXCEPT ![cli.row] = [Renewed(@, cli.token) EXCEPT !.asked = cli.admin]]
    /\ UNCHANGED <<users, made, invited, tokens, session, used, admitted>>

CommitRole ==
    /\ cli.op = "role"
    /\ cli.user \in Known
    /\ users' = [users EXCEPT ![cli.user].admin = cli.admin]
    /\ UNCHANGED <<made, invites, invited, tokens, session, used, admitted>>

CommitReset ==
    /\ cli.op = "reset"
    /\ cli.user \in Known
    /\ users' = [users EXCEPT ![cli.user].reset = cli.token, ![cli.user].live = TRUE]
    /\ UNCHANGED <<made, invites, invited, tokens, session, used, admitted>>

CliCommits == (CommitInsert \/ CommitRenew \/ CommitRole \/ CommitReset) /\ cli' = Idle

\* The commit fails, or the process dies after its link was sent.
CliFails ==
    /\ cli # Idle
    /\ cli' = Idle
    /\ UNCHANGED <<users, made, invites, invited, tokens, session, used, admitted>>
-----------------------------------------------------------------------------
\* The requests that are one step.
Serves(b) == \/ \E e \in Email : \/ Register(b, e)
                                \/ Login(b, e)
                                \/ InviteUser(b, e)
                                \/ RequestReset(b, e)
                                \/ \E i \in 1..invited : AcceptInvite(b, i, e)
             \/ Logout(b)
             \/ NewAgent(b)
             \/ \E u \in Known : ResetPassword(b, u)

WebNext == \/ /\ request = NoRequest
              /\ \E b \in Browser : \/ Serves(b) /\ UNCHANGED request
                                    \/ \E u \in Known : DeleteUser(b, u) \/ ToggleUser(b, u)
           \/ RequestEnds

CliNext == \/ \E admin \in BOOLEAN :
                 \/ \E e \in Email : CliNew(Canonical[e], admin)
                 \/ CliNew(None, admin)
           \/ \E u \in Known : /\ Named(u)
                               /\ \/ CliReset(u)
                                  \/ \E promote \in BOOLEAN : CliRole(u, promote)
           \/ CliCommits
           \/ CliFails

TimeNext == \/ \E i \in 1..invited : ExpireInvite(i)
            \/ \E u \in Known : ExpireReset(u)

Next == WebNext \/ ((CliNext \/ TimeNext) /\ UNCHANGED request)

Spec == Init /\ [][Next]_vars
-----------------------------------------------------------------------------
(* Properties *)

\* An invitation admits one account in its life, even when the command line
\* renews it while it is being accepted.
OneAccountPerInvitation == \A i \in InviteId : admitted[i] <= 1

\* Whoever was invited by address has the account of that address, and the
\* invitation an account came from is never open again.
AccountsMatchInvitations ==
    \A u \in Known : LET i == users[u].origin IN
        i # 0 => /\ invites[i].email \in {None, users[u].email}
                 /\ invites[i].accepted
                 /\ ~ValidInvite(invites[i])

\* "Tokens expire after 48 hours or upon use" (models/user.py): no row is
\* reachable by a link that was used, whatever was sent or renewed since.
UsedLinkIsDead ==
    \A t \in used : /\ \A i \in 1..invited : ValidInvite(invites[i]) => invites[i].token # t
                    /\ \A u \in Known : ValidReset(u) => users[u].reset # t

\* A command may demote the administrator whose request is being served.
RequesterDemoted == request # NoRequest /\ Current(request.browser) \notin Admins

\* Administrators may delete and demote each other in any order: the last one
\* goes only by the command line, or by a request that was an administrator's
\* when it was checked (wrappers.py) and no longer is when it commits.
AdminRemains ==
    [][(Admins # {} /\ Admins' = {}) => CommitRole \/ RequesterDemoted]_vars

\* "Whether the user will be invited as an admin or not is handled by the
\* --admin flag" (README): an open invitation has the role that the last
\* command asked for.
RoleAsInvited == \A i \in 1..invited : ~invites[i].accepted => invites[i].admin = invites[i].asked
=============================================================================
