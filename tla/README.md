# A TLA+ model of Natlas

Natlas scans networks continuously. A server (`natlas-server/`, Flask, a SQL
database and Elasticsearch) decides what is to be scanned and keeps the results;
agents (`natlas-agent/`) fetch work, run nmap and submit what it finds. This
directory models the parts of it whose correctness depends on the order of
things: what is checked here is the code under `src/`, and every definition that
models code is mapped to its lines in `PROJECT.json`.

## Inventory

| Component | State | Operations | What is hard |
|---|---|---|---|
| Rescan queue | `rescan_task` rows; two lists cached in `ScopeManager`; whether their objects are detached or expired | `rescan_host`, `getwork`, `submit` / `mark_scan_completed`, restart | lists cached across requests, objects of closed sessions, failing commits, restarts, lost and repeated requests |
| Scan result store | `history` and `latest` indices; what their last refresh made searchable | `new_result`, `delete_scan`, `delete_host` | several requests per operation, any may fail; searches lag; submissions repeat |
| Scope and scan manager | `scope_item` rows; the sets and the manager cached per `ScanGroup`; the address cycle | add, delete, toggle, import (web and command line), `update`, `get_next_ip`, `is_acceptable_target` | database and cache disagree; a manager that cannot be rebuilt; cycles restart |
| Elasticsearch connection | `status`, `esversion`, `lastReconnectAttempt`; which indices exist | start-up, index creation, every query, reconnection | outages during start-up and after it, an age that wraps at a day |
| Agent | threads, bounded queue of manual targets, scan directories, the services file and each thread's hash of it | fetch, scan, take screenshots, submit with backoff, clean up, manual mode | retries, giving up, exceptions, threads that end, `join` on unfinished items, one file written by all threads |
| Configuration and services | `agent_config`, `natlas_services` and its hash; the agent's copy | edit, hand out with work, download, verify | two requests that should agree, and the server may change in between |
| Accounts | users, invitations, reset tokens, sessions, agents | register, log in, invite, accept, expire, reset, delete, toggle; the command line | tokens that expire or are used, three forms of one address, unique e-mails, rows that are referred to, a second process |
| Browsing, search, processing of certificates and screenshots, set-up, migrations, web front end | none of their own, or fixed at start | read-only or done once | nothing that depends on order |

How they interact: `getwork` takes a waiting rescan, or else the next address of
the scan manager; `submit` completes a rescan, asks the scope whether the result
is wanted and stores it; the pages for users request rescans and delete results;
the pages for administrators change the scope and the configuration. The
production server is one synchronous gunicorn worker
(`src/natlas-server/Dockerfile`), so a request is handled from beginning to end
before the next one begins; gunicorn replaces a worker that hangs or dies, the
sockets stay. The command line is another process with its own caches.

What makes each component correct: the cached view of the queue is the table, a
target has at most one open request, a request ends with the scan that answered
it (queue); the latest index is the newest document of each host, deleted
results stay deleted, accepted ones are kept (store); no address outside the
scope is handed out or stored, and each one inside is handed out once per cycle
(scope and scan manager); a server that serves is initialized, and sends its queries
again after an outage (connection); "Finished scanning" is true when it is said, files
survive an unanswered submission when asked to, a wrong services file is noticed
(agent); a token opens one door once (accounts).

## Modules

| Module | Models |
|---|---|
| `RescanLifecycle` | What the rescan queue promises: a request waits, is handed out, may be put back, is answered by one scan. Abstract. |
| `RescanQueue` | The queue as the code implements it, with the agents' side of a submission. |
| `RescanQueueProofs` | Its inductive invariant and theorems. |
| `RescanAnswerProofs` | The proofs that a request is answered by a scan of its target, and that a stored scan ends its request. |
| `MCRescanQueue` | Its instances for TLC. |
| `ScanStore` | The two Elasticsearch indices and the operations on them. |
| `ScanStoreProofs` | Its inductive invariants, with and without faults, and theorems. |
| `MCScanStore` | Its instances for TLC. |
| `ScanScope` | The scope's table, what the server caches of it, the work handed out and the check of submissions. |
| `ScanScopeProofs` | Its inductive invariant and theorems. |
| `MCScanScope` | Its instances for TLC. |
| `AddressCycle` | What a scan manager promises: each address once per cycle. Abstract. |
| `ScanManager` | The numbering of address blocks, the cycle of numbers and the bisection. |
| `ScanManagerProofs` | The proof that numbering and bisection keep that promise. |
| `MCScanManager` | Its instances for TLC: lists of blocks. |
| `ElasticClient` | The connection to Elasticsearch, from the server's start-up on. |
| `ElasticClientProofs` | Its inductive invariant and theorems. |
| `Agent` | The agent process: its threads, its queue, the services file. |
| `AgentProofs` | Its inductive invariant and theorems. |
| `Accounts` | Accounts, invitations, password resets and the user commands. |
| `AccountsProofs` | Its inductive invariant and theorems. |
| `MCAccounts` | Its instances for TLC. |

`RescanQueue` implements `RescanLifecycle`, and `ScanManager` implements
`AddressCycle`, each by INSTANCE with a refinement mapping and a temporal property.
`ScanScope` uses a scan manager as `AddressCycle` describes it: any order, each
address once per cycle.

### RescanQueue

`task` is the table: a row has its target, `dispatched`, `date` (when), `complete`
and the unique `scan`; a row without a target is not in use. `pendCache` and
`dispCache` are `ScopeManager.pendingRescans` and `dispatchedRescans`, as
sequences of rows. The Python objects in those lists belong to the session of
the request that read them; afterwards they are detached, keep the values they
were loaded with and are written to the database only if a handler adds them to
its session. A rollback expires the objects of its session, and reading an
expired detached object raises: `expired` holds the rows whose cached object is
in that state.

| Action | Code |
|---|---|
| `RequestRescan`, `ReportOutstanding`, `RefreshStale` | the three ways through `rescan_host` |
| `GetRescan`, `GetRescanFails`, `GetAutoWork` | `getwork`: a rescan, an error on the way, or an address of the scan manager |
| `FinishScan`, `TimeOut`, `AgentCrash` | the agent thread: `execute_scan`, the timeout of a request, a thread that ends or a scan with nothing to submit |
| `SubmitUnmatched`, `SubmitCompletes`, `SubmitConflict`, `SubmitDetached` | `submit`: `mark_scan_completed` finds nothing, completes a row, fails to commit, meets an expired object; then the result is stored, refused or lost |
| `ServerRestart`, `Tick` | a new worker with empty lists; time |

The queries have no ORDER BY, so a list is any permutation of its rows
(`Listings`). A request the agent gave up waiting for may still be handled later:
it stays in `posts`. `Faults` selects what may go wrong: `restart`, `commit`
(a commit fails and rolls back), `elastic` (a request to Elasticsearch fails),
`network` (requests and replies are lost or late), `agent` (a thread ends in the
middle). `assigned`, `stored` and `refreshed` are observations the properties
need; no guard reads `stored` or `refreshed`, and `assigned` keeps scan ids
distinct, as `get_unique_scan_id` does.

After `mark_scan_completed` an answered submission is `StoreResult`, and one that an
exception ends is `StoreFails` (Elasticsearch, or no scope to judge the result by).
The handler of a 500 rolls back, which expires the objects of the list just read; that
of a 503 does not; `SubmitCompletes` takes either.

### ScanStore

`history` is a set of documents, each with its scan id, host and time stamp;
`latest` has a document per host. `seenHistory` and `seenLatest` are the indices
as of their last refresh, which is all a search, or the search half of
`delete_by_query`, can see. `op` is the operation the server is in the middle of:
`IndexHistory`, `IndexLatest` are `new_result`; `SearchLatest`, `SearchHistory`,
`PurgeScan`, `Migrate` are `delete_scan`; `DeleteHost` is `delete_host`.
`denied` records the scans of which the page said that they could not be deleted
although they were: the page counts deleted documents (`Successful`). `FaultSets`
holds the sets of faults a behaviour may choose from: `elastic` (a request fails and
the handler ends there), `retry` (a result is submitted again under the same scan
id), `lag` (operations begin before the indices were refreshed).

### ScanScope

`rows` is the table `scope_item`. `scope` and `blacklist` are the sets a
`ScanGroup` caches of it, `effective` the size the pages show and `manager` the
`IPScanManager`, with the addresses it walks and those left of the current cycle.
Work is a job of an agent thread: an address and why it was given.

| Action | Code |
|---|---|
| `AddItem`, `DeleteItem`, `ToggleItem`, `ImportItems` | the pages of `admin/routes.py`; each ends with `ScopeManager.update` (`Update`) |
| `ImportOnCommandLine` | `flask scope import`, another process: the table changes and the caches do not |
| `RestartServer` | `create_app` on the table as it is (`Load`) |
| `GetRescan`, `GetAuto`, `GetNothing`, `GetManual`, `GetManualRefused` | `getwork`: a waiting rescan, the manager's next address, 404, a target given to the agent by hand |
| `SubmitHost`, `SubmitNoHost`, `Abandon` | `submit` with a host, which is checked against the scope; with none, which is not; or nothing arrives or is accepted |

An update of a scope that is empty raises: at start-up that is logged and there
is no manager; later the manager in use is kept, the table and the cached sets
are already those of the change, and the page fails (`Raises`). `behind` records
that the command line changed the table since the last update; only the
conditions of properties read it. The order of a cycle, which the code draws at
random, is any order; the rescan queue is reduced to the set of waiting targets.

### ScanManager

`networks` is the list of blocks the manager keeps, each a first address and a
size; `index` the number of the first address of each block numbered so far.
`NumberBlock` and `StartCycle` are `initialize_manager`. `GetNextIp` draws a number
that `CyclicPRNG` has not returned in this cycle, in any order; `SearchLeft`,
`SearchRight` and `Found` are the calls of `binarysearch`, with the slice it was
given as `lo .. hi - 1` of the whole list. `handed` remembers what was handed out;
the mapping to `AddressCycle` is the set of addresses less those.

### ElasticClient

`stage` is where `create_app` is: stopped, reading the version, initializing one
of the two indices, or serving. `Start`, `ReadVersion`, `CreateIndex`, `PutMapping`
and `InitializeFails` are start-up, one request to Elasticsearch each, and
Elasticsearch may come or go between any two (`Flip`). Later `Query` is a query
over a good connection, `RefuseQuery` and `RetryConnection` the two outcomes of
`_attempt_reconnect`. `since` is `delta.seconds` of the last attempt, which is its
age modulo a day (`Aged`): after an outage of a day and a little, a query waits
again.

### Agent

| Action | Code |
|---|---|
| `Start`, `SkipTarget`, `GetTarget`, `Put`, `AllFed`, `Join` | `main`: the services file is looked at, threads start; in manual mode the targets are put into a queue that holds as many items as there are threads, and then it is joined |
| `GetWork`, `EndThread`, `TakeItem` | `ThreadScan.get_work`: work from the server, a refusal that ends the thread, an item of the queue |
| `FetchServices`, `OpenFile`, `WriteFile`, `VerifyFile` | `get_services_file`: the download, the file truncated, written, and hashed again |
| `StartScan`, `ScanReports`, `ScanHasNoReport`, `ScanRaises` | `execute_scan` up to nmap's report |
| `TakeScreenshots`, `ScreenshotTimesOut` | `get_web_screenshots`: a tool that times out is killed and not waited for |
| `SubmitAnswered`, `SubmitFails` | one attempt of `backoff_request` with `MaxRetries` |
| `CleanUp`, `CleanUpFails` | `cleanup_files` and `complete`, in the order of the code, on the way of an exception too |
| `Exit`, `Restart` | `os._exit` when the server forbids the agent, and its container's restart |
| `UpdateServices` | the administrator's page on the server |

A thread remembers the hash of the services as a content (`sha`), and a hash that
does not match is any other value. Two threads that write the file at once leave
one content or a mixture (`Overlaid`). `lost` and `replied` are observations. The server always has
services to send: a migration inserts the row and nothing deletes it, so the 404 of
`/api/natlas-services` is not modelled.
`FaultSets` as above: `raise`, `linger` (a screenshot tool times out), `refuse`,
`forbid`.

### Accounts

`users` and `invites` are the two tables, `tokens` the tokens drawn, `session` the
account that a browser's cookie names, which may be deleted. Time is two
actions, `ExpireInvite` and `ExpireReset`. The addresses are the interesting part:
an address as typed, its canonical form (`email_validator`) and its lower case are
three strings, and each form and page compares and stores another one of them
(`Registrable`, `Invitable`, `InviteeAddress`, `Named`).

The production server handles one web request at a time, but the command line is
another process: a command reads (`CliNew`, `CliReset`, `CliRole`), sends its link and
commits (`CliCommits`) or does not (`CliFails`), and the web may change the rows in
between. No row is locked, so the converse matters too: a command may commit between
the check of an administrator's request and its commit. `DeleteUser` and `ToggleUser`
therefore only read (`is_admin`, the account) and put what they are going to write into
`request`; `RequestEnds` commits it (`CommitDelete`, `CommitToggle`) or fails
(`RequestFails`). The other web requests are one step: a command that commits
in the middle of one comes to the same as the command before or after it, up to a link
or an expiration date that one of the two overwrites. A request whose commit
breaks a unique index changes nothing and is no step. SQLAlchemy writes the columns a command assigned and
no others. `used`, `admitted`, `origin` and `asked` are observations.

## Runs

| Run | Question | Answer |
|---|---|---|
| `queue_safety` | Do exactness of the lists, one open request per target, completion by a scan of the target and the lifecycle survive all faults together? | yes |
| `queue_progress` | Is every request completed when nothing fails? | yes |
| `queue_retries` | Are waiting requests handed out although replies are lost and submissions repeat, and does a stored result end its request? | yes |
| `queue_refresh` | Is a request that was reported as refreshed waiting again? | no: the change of a detached object is not committed |
| `store` | Do submissions and deletions keep the two indices consistent and say so to the administrator when nothing fails, and is an accepted result kept whatever fails? | yes |
| `scope` | Do the caches fit the table, is work and what is stored in scope, and is every address scanned, through changes, imports, restarts and updates that raise? | yes, as long as there is a scope |
| `scope_empty` | Does work stop when the last address leaves the scope? | no: the old manager is kept and goes on |
| `scan_manager` | Does numbering the blocks and bisecting them hand out each address once per cycle, and does the bisection stay in the list and end? | yes |
| `elastic` | Is a serving server initialized however Elasticsearch came and went, and are queries sent again after an outage? | yes |
| `agent` | Is a manual run finished when it says so and does it end, do unanswered scans keep their files, is a wrong services file noticed and replaced? | yes, with the exceptions below |
| `accounts` | Does an invitation admit one account, that of its address; are used links dead; does an administrator remain unless a command intervenes? | yes |
| `accounts_role` | Is an open invitation for the role that was asked for last? | no: a renewed invitation keeps the role of the first |

A run that answers "no" is a disagreement between the code and its own words; the
words and their place are quoted under `findings` in `PROJECT.json`.

### What the properties leave out

The conditions of some properties mark states the code does reach and nobody
promised anything about, or promised too much. They are listed under `hazards` with
the property that comes closest; in short:

- The scan id of a completed request may lead nowhere: a request is completed before
  the result is examined, and the result may be refused or fail to be stored.
- After a restart of the server the list of dispatched requests starts empty; the
  result of a rescan that was out is stored and its request stays dispatched, until
  a user asks again.
- A deletion that does not see the last submission yet can make a host with results
  disappear from the latest index, as nothing is migrated; so can a failure between deleting and
  migrating. A scan submitted twice can be migrated back by its own deletion, and its
  deletion is reported as a failure (one document more than the page counts on).
  `LatestIsNewest`, `DeletedScanIsGone` and `DeletionIsReported` are therefore claimed
  without faults.
- In manual mode an exception in a scan, in the parsing of what a killed screenshot
  tool left, or in the removal of a directory that tool still writes to, loses the
  item: `join` never returns. `ManualRunEnds` excludes those faults.
- With `save_fails`, files are kept when no answer came (`UnansweredFilesAreKept`); a
  submission the server refused is an answer, and its files go, although the agent's
  README promises to save what "fails to upload for whatever reason".
- `flask user role --demote` can commit while the administrator it demotes is having the
  only other one deleted or demoted; the request then commits all the same, and no
  administrator is left. `AdminRemains` names this as the one way besides the command
  itself.
- A stale request is one whose `delta.seconds` is large, so it stops being stale for a
  while after each whole day; the model has the remainder, but the clock of the runs
  reaches no whole day and no property is about it.
- A request whose reply was lost stays dispatched until a user asks for it again.
- Two threads that truncate the services file in each other's checks can do so for
  ever. `ServicesArrive` says that the file is right again and again, not for good.
- When all automatic threads were refused work, the agent sleeps for ever.
- An address is stored as typed by the invitation page and looked for in its canonical
  form at login; an invited account whose two forms differ cannot log in again.
- An invitation cannot be sent a second time to the address of a deleted user who
  accepted one: the link goes out and the commit fails.

### Bounds

Two targets, scan ids and agent threads are enough for the queue's
hazards, which all involve a list with another row in it, a row refreshed and
handed out a second time, or one submission racing another. `queue_safety` has
three rows, so that a further request can meet a list that still holds others
while the second list is read again; the other runs have two. `queue_progress`
has four scan ids, one for each dispatch the rows and the clock allow, because
`get_unique_scan_id` never runs out. `MaxRetries` is 2 where repeated submissions
matter. The clock has one tick, enough for a request to become stale
(`ScanWindow` is 0), and `Day` is small so that the remainder `timedelta.seconds`
computes can wrap. The store has three scans of one host, enough for a newest, a
second and a further document, and one of another host, and three documents in all
(`MaxDocs`), so that a scan can be submitted twice next to another; its behaviours choose
between no fault and all faults together. The scope has a network
of two addresses, one of them as an item of its own, and an address apart, so
that an item can be shadowed by another, blacklisted inside a network or be the
last one; three events (`MaxEvents`: changes, imports, requests, restarts) are
enough to empty a scope, fill it and change it while an address is out. The
number of addresses and threads does not enter the safety properties, which are
proved for all of them.

The scan manager's lists have one to five blocks of one, two and four addresses,
adjacent and apart: every shape of a bisection two levels deep. For the connection an
`Interval` of 3 and a `Day` of 7 let the age wrap on either side of the interval; the
server is stopped from outside at most twice (`MaxStops`). The agent has two threads,
which is what it takes to overwrite a file or fill a queue of two; three targets
(`MaxTargets`), so that the main thread blocks on the third; two contents of the
services file and two changes of it (`MaxUpdates`), so that it can return to what a
thread remembers; two attempts at a submission. The accounts have two interchangeable
browsers, one mailbox typed in two ways (so that lower case and canonical form
matter), three accounts, two invitations and three tokens: enough to invite by either
form and without an address, to renew an invitation and accept it, to delete an
administrator who invited another, and to use a link that another one replaced.

### Fairness

`FairSpec` asks that an agent thread that can fetch a rescan does so (the threads of
`ThreadScan.run` loop for ever and `backoff_request` without `giveup` never stops),
that scans end (`subprocess.run` has a timeout) and that the server handles
submissions it received. In `ScanScope` it asks that an idle thread gets its work, and
that a scan ends in a submission or is given up: the same loops. Addresses are handed
out again and again once the changes stop, which `MaxEvents` makes them do; the
property asks for it only then. In `ScanManager` a search that began goes on. In
`Agent` the main thread and each worker take the steps they can (the operating system
schedules them, `backoff_request` repeats what is not a submission until it succeeds,
tools have timeouts); nothing is asked of raising scans, refusals and exits. In
`ElasticClient` start-up goes on, after an exit too (the container is started again),
and time passes. `RetryConnection` is strongly fair: the age is above the interval
again and again, and agents that keep asking for work at random intervals make a query
at such a time eventually; weak fairness would not do, as the age wraps. In
`RescanQueue`, `ScanScope`, `ScanManager` and `Agent` nothing is asked of users, of
the clock or of faults.

## Proofs

Every safety property that a passing run checks, invariant or action property, is also
a theorem, for every value of the constants; both refinements are. Each proof module
has an inductive invariant `IInv`, the lemmas `Init => IInv` and
`IInv /\ [Next]_vars => IInv'`, the theorem `Invariance`, and then one theorem per
property. Under the step lemma there is a lemma per action, or one that a group of
actions shares because they leave the same variables alone. TLC checked each `IInv`
as an invariant of the component's instance before it was proved.

### The rescan queue

`RescanQueueProofs` proves, under every set of faults, that the queue is well typed
(`TypeCorrect`), that a cached list that is not empty is exactly the result of its
query (`CachesAreExact`), that a target has at most one open request
(`OneOpenRequest`) and that `RescanQueue` implements `RescanLifecycle`
(`Refinement`). The assumptions are `ConstantsAssumption`: finitely many rows, `None`
is no row, no target and no scan id, and the numbers are natural.

The inductive invariant is `TypeOK /\ CachesExact /\ OneOpenRequestPerTarget /\
UnusedRows`. One open request per target is not inductive alone: `rescan_host`
decides from the cached lists, so it needs to know that the lists it does not read
again are exact; and a new row must not carry a scan id or a dispatch of its own
(`UnusedRows`), or it would enter the wrong list. The refinement needs `CachesExact` a
second time: only so is the row `getwork` hands out waiting, and the one
`mark_scan_completed` completes dispatched.

`RescanAnswerProofs` proves that a completed request names a scan that was drawn
for a request of the same target (`AnsweredByScanOfTarget`). The code compares
addresses, not scans, so the invariant `Drawn` follows an address: what a thread
scans, what it has submitted, however often and late, and what a row was completed
with is a scan drawn for a row of that very address. It rests on two facts no step
takes back: a row keeps its target, and a scan id keeps the row it was drawn for.

The same module proves that a stored scan leaves no request dispatched without
another scan (`StoredScanEnds`), on the hypothesis that the worker is not replaced and
with every other fault. Without restarts the dispatched list is exact even when it is
empty (`DispatchedExact`), so a submission that finds no request in it finds none in
the table; with `Drawn` the scan was drawn for a row of the submitted address, and
`OneOpenRequestPerTarget` leaves no second one there. The hypothesis is necessary:
with `restart` the property fails, see "What the properties leave out".

### The scan result store

`ScanStoreProofs` proves for any hosts, scans and number of documents that the store
is well typed and, under every set of faults, that an accepted result stays until it is
deleted (`AcceptedScanStays`). Both follow from `Base`: besides these two it says that
stamps only grow and are distinct, that a document is of the host its scan was made of
and that a submission puts into the latest index what is in the history already
(`Stamps`).

For behaviours without faults it proves `LatestShowsNewest`, `DeletedScanStaysGone` and
`DeletionReported`. Each is about the end of an operation, so the
invariant `FaultFree` follows an operation through its requests: a scan has one
document (`OneDocument`); each host's latest document is the newest of its history,
except the host whose operation is half done, and never one the history has lost
(`LatestFits`); what the two searches of `delete_scan` found is still there when it
deletes (`SearchesFit`); and when it migrates, the scan is gone, the latest index has
nothing of the host and the document it found is the newest that remains
(`MigrationFits`). The assumptions: finitely many scans and hosts, each scan is of one
host, `None` is no document. (That there are finitely many hosts makes the count
of deleted documents a number.)

### Scope and scan manager

`ScanScopeProofs` proves for every set of items, networks, addresses, threads and
events that the cached sets are the table (`GroupStaysTable`), that manager and
size fit them (`GroupStaysTogether`), that work no user asked for is in scope
(`WorkStaysInScope`) and that a host is stored only if it is in scope at its
submission (`StoredHostIsInScope`). The assumptions: finitely many addresses,
`Covers` gives each item its addresses, `None` is no manager. `TypeOK`,
`GroupIsTable` and `GroupFitsTogether` together are inductive; the third is what
remains true of the manager when the command line has changed the table, and what
makes the two action properties provable: the manager that hands out an address
walks the table's effective scope whenever there is one.

`ScanManagerProofs` proves for every list of blocks, of any number and sizes, that
`binarysearch` always has a slice that spans its number (`BisectionStaysInList`) and
that the manager implements `AddressCycle` (`Refinement`). The assumption,
`ScopesAssumption`, is what the code guarantees of the list: its blocks are those of an
`IPSet`, which are disjoint, and an empty one raises before anything is numbered. The invariant is the numbering: the blocks numbered so far
partition `1..total`, and each begins where the one before it ends (`Numbering`).
From that each half of the bisection gets the half the number is in. `CycleOfNumbers`
relates numbers to addresses: a number is still to be drawn, being looked for, or
handed out with its own address, and never two of these. That two numbers never
have one address, which the refinement needs to see that an address is handed out
once, follows from the disjoint blocks.

### The connection to Elasticsearch

`ElasticClientProofs` proves that a server that serves has the version and both
indices with their mappings (`ServerIsInitialized`), for any number of stops and any
order of outages. `Progress` is what start-up knows at each stage: it comes to the
second index only with a version and with the first one's mapping, which no later
step takes back; a start that reads the version again has none yet.

### The agent

`AgentProofs` proves for any number of threads, targets and attempts and every set of
faults: a manual run that says it is finished is (`FinishedRunIsFinished`), a wrong
services file is noticed (`WrongFileNoticed`) and with `save_fails` an unanswered
scan keeps its files (`UnansweredFilesKept`). The assumptions: finitely many threads,
at least one, at least one attempt, and the markers for the states of the file are no
contents.

For the first the invariant counts: the unfinished tasks of the queue are those in it,
those that threads hold and those that exceptions lost (`Items`), so that `join`, which
waits for none, waits for all three. For the second, when no thread is writing, some
thread remembers the hash of the file as it is or that verification failed
(`FileIsRemembered`): the last thread to write the file hashed it after every other
had finished writing. It holds at any number of threads because each hashes after it
writes. For the third, an answer that ends the retries is remembered until the
clean-up (`Replies`, `Attempts`).

### Accounts

`AccountsProofs` proves for any addresses, whatever the canonical and the lower-case
form make of them, and any numbers of browsers, accounts, invitations and tokens: an
invitation admits at most one account (`InvitationAdmitsOne`), that of its address
(`InvitedAccountsMatch`), a used link is dead (`UsedLinkStaysDead`), and the last
administrator goes only by a command or by a request whose requester is no longer an
administrator when it commits (`LastAdminGoesByCli`). The assumptions: the two forms of
an address are addresses, `None` is neither an address nor a row.

The invariant follows tokens (`Links`): each was drawn, is in one place at most, one
invitation, one account, or the command that is going to commit it (`Made`, `Apart`),
and a used one is nowhere but in the invitation it accepted (`Dead`). The command line
makes it necessary: it may renew an invitation that the web accepts in between, and
the invitation must then stay accepted and expired although it gets a new token
(`Admissions`). For the last theorem `Requests` says that a request in progress is about
another account than the one that is signed in, which nobody changes while the worker
is serving it: a requester who is an administrator when it commits is one afterwards.

### What is only model-checked

- Liveness, under the fairness above: `EveryRequestCompletes`,
  `WaitingRequestIsHandedOut`, `EveryAddressIsScanned`, `SearchEnds`, `OutageEnds`,
  `ManualRunEnds`, `ServicesArrive`. The prover handles neither ENABLED nor the
  well-founded arguments these need.
- The findings are runs whose property TLC refutes; nothing is proved about them.

## Plan

1. Done: `RescanLifecycle`, `RescanQueue`, `ScanStore`, `ScanScope`, `AddressCycle`,
   `ScanManager`, `ElasticClient`, `Agent`, `Accounts`, and the proofs of all their
   safety properties.
2. Proofs that could follow: under faults, what remains true of the store when a
   submission repeats or a request fails (that a latest document of a host is never of
   another host, that what was deleted only comes back through a migration); that the
   queue's stale-request finding is the only way a request reported as refreshed is not
   waiting; that an exited or finished agent leaves the services file in a state the
   next start detects.
3. Further models: the tags of scope items, which `submit` copies to results; queue and
   scope composed, for rescans handed out after their target left the scope; the scan
   options and scripts handed out with work.

## Not modelled

Pages that only read, the parsing of certificates and image files of a single request,
the wiring and tracing of the application's set-up, migrations and the web front end
keep no state that depends on order. Tags, scripts and scan options are stored and
passed through; no other state depends on them. Passwords, display settings and the
keys of agents are left out of `Accounts`. `flask scope import` skips duplicates with an
`OR IGNORE` prefix that exists for SQLite and MySQL only; on another database its
behaviour is not modelled. Elasticsearch is modelled from how the code uses it: an
index, its refresh and the version check of `delete_by_query`. The threaded
development server, in which handlers overlap, is not modelled: the production
command starts one synchronous worker.
