# strongswan-manager in TLA+

strongswan-manager is a web service that keeps IPsec tunnels, routes and iptables rules in
PostgreSQL and installs them on a fleet of strongSwan servers and in a Terragrunt repository.
Its promise is that three things agree: what the database says, what the servers and the
infrastructure hold, and what a client was told. Everything that makes the promise hard is
between a read and a commit: requests interleave at every `await`, servers fail one by one, SSM
commands outlive the wait for them, and the process may stop at any point.

This directory holds TLA+ models of that core, the TLC runs that check them, and TLAPS proofs
about them for any number of tunnels, servers, routes and requests.

| file | what it is |
|---|---|
| `TunnelContract.tla` | abstract: what a client of the tunnels API may rely on |
| `TunnelSync.tla` | tunnels to servers: requests, lock, fan-outs, engine switch, fleet |
| `MCTunnelSync.tla`, `TunnelSync_*.cfg` | its small instances and runs |
| `TunnelSyncProofs.tla` | types, mutual exclusion, unique names, and that TunnelSync implements TunnelContract |
| `TunnelSyncFleetProofs.tla` | what confirmed servers hold; confirmed deletes; that rows match the fleet |
| `RouteContract.tla` | abstract: what a client of the route API may rely on |
| `RouteOps.tla` | asynchronous route operations: requests, tasks, git, plan, apply, crash |
| `MCRouteOps.tla`, `RouteOps_*.cfg` | its small instances and runs |
| `RouteOpsProofs.tla` | types, uniqueness, no orphans, none stuck, what serial operations apply, and that RouteOps implements RouteContract |
| `IptablesSync.tla` | rules to the kernels of two instances: requests, two locks, SSM commands, cascades |
| `MCIptablesSync.tla`, `IptablesSync_*.cfg` | its small instance and runs |
| `IptablesSyncProofs.tla` | types, mutual exclusion, that synced rules run, that kernels are saved and match the rows |
| `ProcessClock.tla` | the clock of the process, which the caches compare with |
| `JwksCache.tla`, `JwksCacheProofs.tla` | the signing keys of the OIDC provider; that fresh keys are fresh |
| `AwsSession.tla` | the session under the assumed global role and its one client per service |
| `AwsClients.tla` | the clients per role and region that the SSM transport uses |
| `AwsClientsProofs.tla` | that sessions and clients outlive the commands they are used for |
| `Accounts.tla`, `AccountsProofs.tla` | users, login stamps, row locks, updates of users |
| `TunnelStatus.tla` | the status check of a tunnel against a PATCH of its status |
| `Process.tla` | keys, session, clients, accounts and status checks composed: the API process outside its three large services |
| `MCProcess.tla`, `Process_*.cfg` | its small instance and runs |
| `ProcessProofs.tla` | the status check, and that each part keeps its specification in Process |
| `PROJECT.json` | components, runs, source lines of each definition, hazards, findings, theorems |

## 1. The system

One uvicorn process (`scripts/start.sh` gives it no `--workers`) runs FastAPI. A request is an
asyncio task with one database session; a route request also launches a background task with a
session of its own. Nothing runs in parallel, everything interleaves at `await`.

Facts of the session layer that the models rest on (`db/session.py`, `locks.py`):

- PostgreSQL runs READ COMMITTED; every query sees what others have committed by then.
- `expire_on_commit=False`, and an object that was loaded is never reloaded: a handler works on
  the row as it was when it read it. A flush writes only the columns whose value differs from the
  loaded one (`Put`).
- `get_db` never commits. A handler that raises, or only flushes, loses its changes.
- The advisory locks are `pg_try_advisory_xact_lock`: held to the end of the transaction, freed
  by any commit as well as by a rollback; `require_lock` refuses instead of waiting.
- A transaction also ends when its database connection does. The lock is free from then on, and the
  coroutine does not know: it goes on with its servers or instances until its next query fails.

| component | state | operations | interacts through | hard behaviour |
|---|---|---|---|---|
| tunnels (`tunnel_service.py`) | `tunnels` rows with `sync_status`, `sync_details` | create, update, delete, retry, status | `LOCK_IPSEC_CONFIG`, KMS, fan-out, cascades to rules and routes | row read before the lock; partial fan-outs; late index errors |
| servers, fan-out (`server_service.py`, `fan_out.py`) | `servers` rows | add, change, retire, engine switch; push, delete, rename on all | gathers one task per active server | engine switch pushes every tunnel again |
| transports (`transport/`) | files on the servers | SSH/SFTP or SSM edit scripts | SSM polling | a command given up on may still run |
| routes (`route_service.py`, `main.py`) | `routes`, `async_operations` | create, delete, retry, poll | background tasks, `LOCK_TERRAGRUNT`, startup recovery | stages commit and free the lock; crash recovery |
| git, Terragrunt (`terragrunt.py`) | one working tree, two branches, a plan file, the infrastructure | clone, edit, commit, sync release, plan, apply | subprocesses; terragrunt runs under a timeout, git does not | one tree for all tasks |
| iptables (`iptables_service.py`, `ssm.py`) | `iptables_rules`, running and saved rules of two instances | create, update, retry, delete, cascade | two locks, SSM; a cascade takes another lock | appends are not idempotent; a commit after the commands |
| tunnel status (`tunnel_service.py:637-835`) | `status` | status, check | `ipsec statusall` on all servers | aggregation of partial answers |
| AWS clients (`aws_client.py`, `aws_session.py`) | client and credential caches | get, refresh | shared by KMS, SSM, executor threads | credentials that expire under a command; one marker for all services |
| users, auth (`user_service.py`, `auth/`) | `users`, JWKS cache | login, stamp, roles, update | a dependency of every route | row locks kept to the end of a request; changes only flushed; overlapping fetches of keys |
| audit | `audit_log` | insert | in the request's transaction | none |
| routers, schemas | none | validation, dispatch | | none |
| frontend | query cache | views, polling | GET until a final state | polls end only if the server ends them |

What makes each of the first ones correct: at most one request edits the fleet; live names are
unique; a confirmed server really holds what was confirmed until the outcome is committed; a row
called synced matches the fleet; a row is deleted only after every server has lost its files; an
accepted route operation is always worked on and always answered; a deleted route stays deleted;
a synced route is routed; a synced iptables rule runs on both instances and outlives their reboots;
cached keys and credentials are never used past their time; a tunnel is called up when a server said so.

## 2. The modules and the code

### TunnelSync and TunnelContract

`tun`, `rule`, `srv` are the committed tables, `files` the configuration files per server (a
function from path and name to what the renderer put there: the settings, and for the files with
secrets the key), `fw` the kernel rules, `lock` the holder of `LOCK_IPSEC_CONFIG`, `late` the SSM
edits given up on, `cut` what each request that has lost its database connection had read by then, and `req` one record per request: where it stands, the row it loaded (`old`), the
body of the request (`patch`), and the outcomes of the servers (`out`).

A request goes `idle -> (loaded ->) checked -> locked -> fanout | repush -> idle`:

- `BeginCreate/Update/Delete/Retry/Engine` read and check *before* the lock. `CheckName` is
  the second query of a rename.
- `TakeLock`, `LockDenied`: `require_lock`.
- Under the lock a request may end before it reaches a server: `IndexRejects` (the flush meets the
  partial unique index), `UpdateQuiet` (no rendered column changed), `RenameWithoutPsk`,
  `KmsFails`, `NoServers`. Each follows the code's own choice between a commit of the partly
  changed row and a rollback.
- `StartFanOut`, then per server `ServerOk` or `ServerFails` (after any prefix of the edits, which
  for SSM may land later), then `FinishSync`, `FinishDelete` or `DeleteAborted`.
- `StartRepush`, `RepushOk`, `RepushFails`, `Cleanup`, `FinishEngine`: the engine switch reads all live
  rows and pushes one after another; after each push that succeeded it removes the files of the old
  engine (`gone`) one by one. No `wait_for` is around these removals: each may be done, fail, land
  late over SSM, or not come back at all over SSH.
- `BeginRule`, `FinishRule`: an iptables rule as the tunnel delete meets it. `CreateServer`,
  `SetActive`, `DeleteServer`: the fleet changes, which take no lock.
- `Abort`: the process dies, or an exception nobody catches ends the request; the transaction is rolled back.
- `Disconnect`: the database connection is lost. The lock is free at once and another request may take it,
  while this one goes on with its rules, servers or re-pushes, working with what it has read (`Row`, `Engine`),
  until `CutEnds`: the query that fails.

Abstractions: names, settings and keys are atoms with equality only; a file is whole or absent
(a write that breaks off inside one file is a write not made); a tunnel has at most one rule; the
cascade of `delete_tunnel` to routes is in RouteOps; a PATCH changes name, settings as a whole, and
key. Ciphertexts always differ, so a PSK in a request is always written (`SavedPsk`).

`TunnelContract` is the view of a client: `shown`, the rows as the tunnels list has them, and `job`, the one
thing the fleet is being asked to do (push a tunnel, remove one, switch an engine) with the answers given so
far. There are no requests, locks, loaded copies or files in it. Its promises: a job begins only when there is
none, and no row changes while it runs; the status a push leaves is the verdict (`Verdict`) of the servers
that push asked, and each column is as pushed or as it was; a tunnel goes only after every server its
delete asked has said so, and for good; the name a row takes is free. TunnelSync implements it under the
mapping at the end of `TunnelSync.tla`: the holder of the lock, once in its fan-out, is the job.
What the contract leaves open is what the code leaves open: a push may come after the delete of its tunnel,
and a row that was loaded as failed may keep a better status (`Unsynced`; both in section 5).

### RouteOps and RouteContract

`route`, `op`, `tunnel` are committed rows; `pc` and `tries` the request or task of an operation;
`lock` the holder of `LOCK_TERRAGRUNT`; `git` the tree (`head`, the uncommitted `file`, the two
branches), `plan` the plan file, `infra` what is applied. An operation goes
`none -> asked -> start -> lock -> cloning, clone -> pushing, edit, commit, release -> planning, plan
-> applying, apply -> finish -> done`, and through `fail` on any error. `Stage` is
`_update_route_stage`: it commits, and so frees the lock. `MarkFailed` writes both rows in a session
of its own, and may itself fail (`unrecorded`). `DbFails` is an error of the database in one of the task's own
statements, from `Start` to `Finish`: the handler marks the operation failed, a pending one too, and the
lock stays with the failed session until then or is gone with its connection. A commit whose answer is lost
is not modelled. `LoadTunnel`, `CloseTunnel`, `KeepTunnel` are the
steps of `delete_tunnel` that concern routes. `Crash` loses every task and session; `Restart` is the
lifespan handler.

The remote repository is folded into the local one: the code fetches and resets before it works, and
nothing else writes the remote here.

`RouteContract` is the view of a client: the status of its operation and what the list shows.
RouteOps implements it under the mapping at the end of `RouteOps.tla` (stages and `pending` are
"working", a deleted row is "gone"); lock attempts, git and terragrunt steps are stutters.

### IptablesSync

`rows` is the table, `kernel` and `saved` count the copies of each rule text that an instance runs and
that its `rules.v4` holds, `lock` has the two locks of `iptables_service.py` and the one of
`delete_tunnel`, `late` the SSM commands given up on, and `req` one record per request: the step, the
rows it loaded, the text it writes. `kernel` counts copies, because iptables does: `-A` always adds one,
`-D` removes one.

- `BeginCreate/Update/Retry/Delete/Cascade` load rows before any lock. `TakeLock` and `TakeSecondary`
  are the two `require_lock` calls, `LockDenied` the refusal of either, `CreateRefused` the flush of
  `create_rule`.
- `CommandDone`, `CommandRefused`, `CommandLost` (done, but not known), `CommandLate` and `LateRuns`
  are one command on one instance; `Onward` is the order `remove -> add -> save`, primary before
  secondary, and what a failure skips.
- `Commit` writes the columns that differ from the loaded ones; `UpdateRefused` is the unique index
  that `update_rule` meets after its commands. `CommitCascade` and `CascadeFails` end `delete_tunnel`
  after its server fan-out, which TunnelSync has in detail.
- `Crash`: the process dies, or a step raises what nobody catches; no further command is sent.
  `Disconnect`: the database connection is lost, and both locks with it, while the request goes on with its
  commands (it makes no query between them) until `CutEnds`, where it would commit.
- `Reboot` of an instance, which loads `rules.v4`.

`seen` is a history variable: the kinds of disturbance (overlaps, refusals, lost answers, reboots ...)
that have happened. A property names the disturbances under which it is promised, so that one run
checks each property under exactly what the code can bear, and the proofs state it the same way.

### Process: JwksCache, AwsSession, AwsClients, Accounts, TunnelStatus

Five parts that live in the API process, with `ProcessClock` as the only thing in common.

- **JwksCache** (`auth/oidc.py`): `fetch` slots for requests between the clock they read
  (`StartFetch`) and the entry they store (`StoreKeys`), with an await for the discovery document and
  one for the keys; `Rotate` is the provider, `ForgetKeys` a restart or `clear_jwks_cache`. A fetch that
  fails lets its request go on with the old entry (`FetchFails`).
- **AwsSession** (`aws_session.py` with a role to assume): `creds`, `limit`, `clients`, `mark` are the module
  variables. `get_client` runs in executor threads, so that its steps, `GetSession` to `Return`, interleave, one
  step for each read or write of a module variable, with two exceptions: the check of the credentials and of
  their limit counts as one read (the credentials never become `None` again, so that the value of the limit
  decides), and so do the three subscripts of the credentials in `MakeSession` (a torn read among them is not
  modelled). `Return` reads the client again, which another thread may have replaced.
- **AwsClients** (`aws_client.py` under `ssm_transport.py`): `cache` is the module variable. `LoadServer` takes
  a copy of role and region, as a request loads its server once; `GetForServer`, once per command, works on that copy
  and is one step, as `get_client_for_server` has no await and runs on the event loop. A command and its polls
  last at most `Poll` ticks (`CommandDue`). `UpdateServer` changes role or region of the row under any request that
  has loaded it, and invalidates nothing, as the code does.
- **Accounts** (`auth/dependencies.py`, `routers/auth.py`, `user_service.py`): `Authenticate` reads the
  row of the caller once; in oidc mode `Stamp` then writes it and keeps the row lock until its transaction ends
  (`Gone`: with the process or the connection, too);
  `ReadTarget`, `Flush`, `EndPatch` are `update_user`, whose change no caller commits; `Abort` is
  PostgreSQL's answer to a deadlock. Passwords and tokens are abstracted to who the caller is.
- **TunnelStatus** (`check_tunnel_status`): a check loads the tunnel, asks each server at its own
  moment, `Parse`s and `Aggregate`s and commits; `Patch` is an operator's change meanwhile; `Flip` is
  a connection that comes or goes. `Within` lists the names that are part of other names, since the parser
  looks for a substring.

`Process` composes them. As the parts share the clock only, a behaviour follows one of them, `focus`,
while the others rest in an initial state; no order of steps is lost that a property could tell.

Definitions that begin "Mutant of" are altered versions of the action below them; they are in
no next-state relation and exist to show that each property can fail.

## 3. The runs

| run | what it asks | bounds |
|---|---|---|
| `tunnelsync_race` | types, `OneWriter`, `OkMeansDone`, `UniqueLiveNames`, `DeleteConfirmed`, and the refinement `KeepsContract` | 2 concurrent requests, 3 arrivals, 2 tunnels, 2 names, 2 servers (one joins later), server failures; 397 k states |
| `tunnelsync_serial` | `DbMatchesFleet` when requests do not overlap | 1 request at a time, 4 arrivals, 2 names, 2 settings, a mixed fleet that may shrink, KMS and server failures; 1.8 M states |
| `tunnelsync_live` | `Answered`, and `OneWriter` when requests die or lose their connection | 2 requests, 2 arrivals, one SSM and one SSH server that may be switched off, every fault, 1 late edit; 108 k states |
| `routeops_race` | types, `UniqueLiveRoutes`, `NoOrphanOps`, `NoStuckRoute` | 3 operations, 2 in flight, 2 routes that compete for a CIDR, every step and the database may fail; 858 k states |
| `routeops_ends` | `NoOrphanOps`, `OpsEnd`, and the refinement `KeepsContract` | 2 operations, 1 crash, every step and the database may fail; 158 k states |
| `routeops_serial` | `RoutesApplied`, `NoResurrection` | 3 operations one after another, tunnel deletes, 1 crash, failures recorded or not; 2.3 M states |
| `iptablessync_race` | types, `OneRuleWriter`, `AppliedUnderLock`, `SyncedApplied`, `KernelSaved`, `KernelMatchesRows` | 3 requests, 2 in flight, 2 rules, 2 texts of which one is indexed, 1 tunnel, 1 late command, 1 reboot, every kind of disturbance, at most 2 kinds in one behaviour; 834 k states |
| `process_caches` | types of the five parts, `FreshKeys`, `SessionOutlives`, `ServerClientRight`, `OneRequestPerUser`, `UpMeansUp`, `StatusRules` | 5 ticks; credentials live 4, buffer 2, command 1; key TTL 2, 3 keys, 2 fetches; 2 threads, 2 services; 2 callers, 1 server, 1 role and the default chain, 1 region; 3 persons, 2 requests, both modes; 2 tunnels with one name in the other, 2 servers, 1 check; 1.1 M states |
| `tunnelsync_orphan`, `routeops_lock`, `iptablessync_copies`, `process_stale` | violations: see section 5 | |

Why the bounds are enough for what they look for: a race needs two writers and a third request to
meet what they left; an index conflict needs two rows and two names; a partial outcome needs two
servers, and a mixed fleet one of each engine; a rename followed by a retry and an engine switch is
four arrivals. Requests are interchangeable, and so are names, settings, keys and tunnels, of which
only equality is used: the safety runs declare these symmetries, the liveness runs declare none.
The behaviours of two writers, one of which has lost its lock with its connection, are in `tunnelsync_live`.
For iptables, a late command counts as two kinds of disturbance, `lost` and `late`, so that the run has it alone;
the proofs have no such bound. A failed attempt, its retry and a delete are three requests, and a stale write needs two
in flight; two texts tell a changed rule from an unchanged one, and two rules of one text show that
removals count copies. For the caches, 5 ticks hold two lives of a key entry and one whole life of the
credentials with a refresh in it; the ratios `Poll < Buffer < Life` are those of the code (60 s, 300 s,
3600 s) and are an assumption of the proofs.

The caps are `MaxArrivals`, `MaxLate`, `MaxBusy`, `MaxCrashes`, `MaxRequests`, `MaxCopies`, `MaxReboots`,
`MaxSeen`, `MaxKeys` and `MaxTime`; `MaxLockRetries = 5` is the code's. Deadlock is not checked because a
bounded workload that has been answered, and a clock at its bound, stop.

Fairness. `FairSpec` of TunnelSync has weak fairness of each request's own steps, except where it waits at
`AtRemote`. `wait_for` bounds each push and removal of a fan-out and each re-push, the SSM poll makes a finite
number of attempts, `require_lock` never waits, and the event loop starves nobody. `AtRemote` is what nothing
bounds: an engine switch that removes the files of the old engine over SSH (`conn.run` in
`ssh_transport.py:201`, called from `server_service.py:1050` and `1079` outside any `wait_for`). `Answered` therefore says
that a request is answered or waits there for ever; it says this of requests that lost their connection, too.
Clients that begin requests, fleet changes, aborts, lost connections and late landings have no fairness.

`FairSpec` of RouteOps has weak fairness per operation of the request's commit or refusal and of the task's
next step, except at `AtRemote`, and of `Restart`, since a container that died is started again. Terragrunt runs
under a timeout (`terragrunt.py:400`, `458`) and the lock attempts are counted; clone, pull, fetch and push run in an
executor thread that nothing bounds, and these steps are `AtRemote`. `OpsEnd` says that an operation ends or waits
there for ever. Crashes and tunnel deletes have no fairness.

## 4. The proofs

Assumptions on the constants: `None` is no request, tunnel, name, setting, key, server, engine,
operation or route; the bounds are natural numbers; the maps have their types. Nothing is assumed to
be finite.

- **Types** (`TypeCorrect`, both). For TunnelSync the type invariant includes `Coherent`, which
  ties the kind of a request to the row it names and the program counter to the kind: without it
  `Commit` could write to a row that does not exist.
- **Mutual exclusion** (`MutualExclusion`). `OneWriter` speaks of the requests whose connection lives
  (`Connected`), also while others go on without theirs. It is inductive with the types: only
  `TakeLock` enters the critical section, with the lock free; `EndOf` and `Disconnect` leave it with the lock.
- **Unique names** (`NamesUnique`). Inductive: `NamesInv` = types, `OneWriter`,
  `FreshIds` (a create's id has no row and belongs to no other request), `NameHeld` (a connected request in its
  fan-out has passed the index, and still would) and the property. The check before the lock is not
  used: the index and the lock suffice. `NameHeld` is what turns the index check at the flush into a
  fact at the commit.
- **What was confirmed stays** (`OkStays`, `DeletedOnceConfirmed`; under `Steady`: no SSM, no lost
  connection). Both hypotheses are needed: a command that lands late, or a request that goes on after its lock is
  gone, undoes what a server confirmed to the next request. `FleetInv` = types, `OneWriter`, `Known` and the property. `Known` says that
  rows and jobs have real names, that a fan-out asked only registered servers (so none of them can be
  registered anew with another engine), that nothing lands late, and that every request is connected (`StayConnected`). The heart is `EditedDone` with
  `WorkDistinct`: the edits of one job go to files that all differ, a rename included, so that each
  edit survives the ones after it. `DeletedOnceConfirmed` adds that only `FinishDelete` turns a live
  row into a deleted one.
- **The tunnels contract** (`TunnelContractKept`; every fleet, SSM included, every fault and overlap).
  `ContractInv` = `NamesInv` and `Informed`: every row that exists and every request that loaded one has a
  name, settings and a key (`RowsFilled`, `JobFilled`), and a fan-out belongs to a request on a tunnel. One lemma
  per group of actions shows a contract step or a stutter: before and after the fan-out a request is
  invisible (`ContractQuiet`); a commit under the lock makes the row take values the contract allows, under a
  free name because `NameHeld` carried the index check across the fan-out (`ContractRow`).
- **Rows match the fleet** (`DbHoldsOnFleet`, `DbHoldsInSequence`). The strengthening `DbInv`: the copy a request
  loaded has what the row has (`Current`); what a synced or partial row claims of a server is installed there
  unless the request in its fan-out is rewriting that very tunnel (`ClaimsCurrent`, `Reworked`); what an engine
  switch has still to remove belongs to the old engine of its server (`Cleaning`); and an edit under another name harms no claim (`Harmless`), which is where unique names are used. Two hypotheses,
  both needed. `Calm`, on the constants: `Steady`, no process that dies, and deletes only where servers do not fail
  (section 5, item 7, breaks it otherwise). `Apart`, on the behaviour: two requests that are about the same
  tunnel at the same time are both retries (two overlapping updates break it: the second pushes the columns
  it loaded). Requests about different tunnels, engine switches and fleet changes overlap freely.
  `DbHoldsInSequence` has no hypothesis on the behaviour: one request at a time, the
  workload of `tunnelsync_serial`.
- **Routes** (`UniqueRoutes`, `DeletedForGood`, `NoneOrphaned`, `NoneStuck`, `ContractKept`, `AppliedSerially`). `Inv` =
  types, `StatusFits` (the status of an operation fits where its task stands) and `RowsFit` (an accepted
  operation's row exists, a create's id is fresh, loaded closings are existing rows).
  `NoneOrphaned` and `NoneStuck` assume that failures can be recorded (`"unrecorded" \notin Faults`): `_mark_operation_failed`
  swallows its own errors, and then the operation does stay running. Any other failure of the database is allowed. `NoneStuck` also assumes
  `MaxCrashes = 0`, since the recovery at startup forgets the route; its strengthening `Attended` says
  that each route in a working state has an operation that will yet write it. `ContractKept` maps
  every action to a contract step or a stutter, through one lemma per group of actions.
  `AppliedSerially` proves `RoutesApplied` for `MaxBusy = 1` (operations follow one another) and `OwnCidrs`
  (no two rows share a CIDR; the routes file is keyed by CIDR alone). Its `SerialInv` says that the CIDR of
  a synced route is in both branches, the work tree, the infrastructure and any plan that waits (`Served`),
  and that of a removed one in none of them; that the request at work touches neither (`Untouched`); and
  how far the one task has brought its own CIDR (`Onway`). An edit that a failed task left behind concerns
  a CIDR that is not settled, so whoever carries it along does no harm.
- **Rules** (`Typed`, `OneWriter`, `WorksUnderLock`, `SyncedIsApplied`, `RestIsSaved`). `TypedInv` adds
  to the types the order of a request's steps (`Ordered`); `LockInv` says who holds which lock at each step,
  and gives mutual exclusion of the requests whose connection lives; `AppliedInv` follows a rule from its first
  command to the commit, in behaviours without a cascade under it, a late command, a reboot or a lost
  connection; `OwedInv` says of an undisturbed fleet which saves are owed; `SyncInv`, with `Apart` (rules of different
  texts), carries a synced rule through refused and lost commands.
  `KernelIsTable` says that the counts match while nothing has failed or overlapped: its `MatchInv` holds for the
  request at work which rules its commands have already brought to the new text on each instance (`Runs`), so
  that the count of a text is at every step the number of rules that hold it (`Holding`, `Counted`). Only adding
  or removing one rule is ever counted, by the library's theorems on the cardinality of a finite set with one
  element more or less.
- **Keys** (`KeysTyped`, `KeysFresh`). `KeysInv` with `TakenAt`: an entry or an answer holds a key that was
  the current one at a moment not before the clock its fetch had read. That the clock is read
  *before* the await is what makes overlapping fetches harmless.
- **Session and clients** (`SessionTyped`, `SessionsOutlive`, `ClientsTyped`, `ServerClientsRight`). The
  invariant of the session follows a thread between its reads and writes: the limit is at most `Poll` ahead of the
  expiry of the credentials, as no thread is slower than that between storing one and the other (`Near`). `ClientsInv` has `Covered` (a command's credentials last beyond its polls) and
  `Kept` (a cache entry is of the scope it is kept under).
- **Accounts** (`AccountsTyped`, `RequestsOneByOne`). `AccountsInv` with `Owns`: a request
  past its stamp holds the row of its user.
- **Status** (`StatusTyped`, `UpIsUp`, `ChecksFollowRules`). `StatusInv` with `Parsed`: each
  answer is the parse of what was seen.
- **Process** (`ProcessSafe`). `ProcessKeepsKeys`, `ProcessKeepsSession`, `ProcessKeepsClients` and
  `ProcessKeepsAccounts` show that ProcessSpec implies the specification of each part, so each part's theorems hold of it.

Model-checked only: liveness (`Answered`, `OpsEnd`), since fairness and `ENABLED` are beyond the prover.
Every safety property, action property and refinement that a passing run checks is the
subject of a theorem. No module uses `RECURSIVE`.

## 5. Where the code departs from what it says

Each of the first four is a run that finds the counterexample; `PROJECT.json` quotes the lines.

1. `tunnelsync_orphan`: a rename refused for want of a PSK is answered as not supported, but the
   row keeps the new name; the next delete removes files of the new name and leaves the old ones.
2. `routeops_lock`: the first stage commit frees `LOCK_TERRAGRUNT`, so two tasks share the tree.
3. `iptablessync_copies`: a retry appends a second copy on the instance where the failed attempt had
   succeeded; the delete, all of whose commands succeed, leaves one copy running.
4. `process_stale`: after a refresh of the credentials the first service asked moves the one marker for
   all; another service is handed its old client, whose credentials then expire.

Five more have no run. The first four can be reproduced with the properties that are in the modules and these
values; the first three use `MCTunnelSync` with `Tunnels = {t1}`, `Psks = {p1}`, `Ssm = {}`, `FleetOps = {}`, `MaxLate = 0`:

5. `PushesLiveTunnel` (`tunnel_service.py:298`): `update_tunnel` looks for its row before the lock only;
   a delete that commits in between is overtaken, and a deleted tunnel is pushed to every server.
   `Requests = {r1, r2}`, two names and settings, `Servers = {s1}`, `InitEngine <- OneStroke`,
   `Kinds = {"create", "update", "delete"}`, no faults, `MaxArrivals = 3`.
6. `DeleteCascades` (`tunnel_service.py:419`): a rule created while its tunnel is being deleted stays
   live. The same with one setting and `Kinds = {"create", "delete", "rule"}`.
7. `DbMatchesFleet` with deletes (`tunnel_service.py:517`): a delete that fails on one server means to
   persist that fact, then raises (line 525); the session closes without a commit and the row goes on
   saying synced. `Requests = {r1}`, `Servers = {s1, s2}`, `InitEngine <- TwoEngines`,
   `Kinds = {"create", "delete"}`, `Faults = {"infra"}`.
8. `NoStuckRoute` with a crash (`main.py:64`): the recovery at startup fails the operation and forgets
   the route, which stays in a stage that no retry accepts. `RouteOps_race.cfg` with `Ops = {o1}`,
   `Kinds = {"create"}`, `MaxCrashes = 1`.

9. `update_user` (`user_service.py:86-94`, `141`; `routers/users.py:67`, `76-80`) is documented, and tested against a
   mocked service (`tests/test_users_router.py:138-185`), to update a user's role and `is_active`. It only
   flushes, and no caller commits: the answer shows the change, `get_db` rolls it back. `EndPatch` of Accounts is this
   rollback, after which `users` is what it was. No property is stated about it: one that says the update is kept
   fails at the first one, and one that says roles never change would only repeat `EndPatch`.

`DbMatchesFleet` and `RoutesApplied` are therefore checked for requests and operations that do not
overlap, the first without tunnel deletes: that is where the code can and does keep them. (The proofs go a
little further: `DbHoldsOnFleet` lets requests about different tunnels overlap, and deletes where no server fails.) Each property of
IptablesSync names in the same way the disturbances it does not bear.

Other behaviour that the models contain, or that was met while writing them. But for the docstring of
`get_client_for_server`, quoted where it applies, no statement of the repository forbids it:

- A rename or change that is refused for want of a PSK or of KMS ends its row as `failed`. If the row was loaded
  as `failed` and a retry made it synced meanwhile, the column has not changed for the session and is not written
  (`CommitUnsynced`): the row shows `synced` with a name or settings that no server was given.
- Two retries that overlap may leave `sync_status` of the second and `sync_details` of the first, when the
  second ends with the details it had loaded (`Put` in `FinishSync`).
- An update of a rule meets the unique index after its commands: the instances then have the new rule
  and the row the old one (`UpdateRefused`). A retry loaded before an update appends the old text and
  marks the new one synced. A cascade works on the instances without the iptables locks, and the rules it
  removed are not put back when the fan-out fails (`CascadeFails`).
- A request that has lost its database connection goes on with its fan-out while another may take the lock: with
  `"cut"` in `Faults`, `OkMeansDone` and `DeleteConfirmed` fail. For iptables rules likewise (`AppliedUnderLock` names
  `cut`): the late `-D` of a delete lands on the second instance after a retry has appended there and before it commits.
- An SSH server that stops answering during an engine switch keeps the request, and with it `LOCK_IPSEC_CONFIG`,
  for ever, and every change of a tunnel is refused until the process restarts (`AtRemote` of TunnelSync). A git remote
  that stops answering keeps an operation running for ever (`AtRemote` of RouteOps).
- A request goes on with the role and region its server had when it was loaded (`LoadServer`).
  `get_client_for_server` asks callers to invalidate before they save; nobody does, and it is harmless, as the role
  and the region are in the key of the cache.
- In oidc mode all requests of one user wait for each other (`OneRequestPerUser`), and two administrators who
  update each other deadlock; PostgreSQL ends one of them.
- A status check overwrites what an operator patched meanwhile, and replaces the `active` that
  `create_rule` and `create_route` ask for.
- When the OIDC provider does not answer, keys older than their TTL are used; a new key is refused until
  the TTL of the old entry is over.
- The cache of instance ids (`ssm.py:62`) never forgets an id; two tunnels that route one CIDR share
  one entry in the routes file (`terragrunt.py:265`).

## 6. Not modelled

- Rendering of the configuration files beyond which of settings and key each carries; schemas, routers,
  audit rows, logging, and the ciphers: data that no property here tells apart.
- Server connection tests and server status checks: reads, and one timestamp.
- The order of rules in a chain, and the `position` column: no command of the service reads it.
- Passwords, tokens and their signatures: who the caller is, is an input of Accounts.
- The cache of instance ids: it has no second writer and no expiry.
- The cascade of `delete_tunnel` appears three times, each time with what one component sees of it: the files
  in TunnelSync, the rules in IptablesSync, the routes in RouteOps. The three are not composed.
- The frontend, except for what its polling relies on (`OpsEnd`, `NoStuckRoute`, `RouteContract`).
- The migrations, which run once and offline; of the schema the columns and unique indexes are modelled.

## 7. Plan

Done: TunnelSync, RouteOps and their contracts with runs and proofs; IptablesSync; the caches, accounts and
status checks of the process; the proofs of section 4.

Next, in this order:

1. The largest workload on which `DbMatchesFleet` still holds when updates of one tunnel overlap, where a
   stale column is pushed and the newer one kept in the row.
2. `SyncedApplied` and `KernelMatchesRows` for requests about different rules that overlap.
3. IptablesSync with two tunnels whose cascades overlap rule requests of the other.
