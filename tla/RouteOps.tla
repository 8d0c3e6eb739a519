------------------------------ MODULE RouteOps ------------------------------
(***************************************************************************)
(* The asynchronous route operations of app/services/route_service.py and  *)
(* app/services/terragrunt.py.  A request commits a route row and an       *)
(* operation row and launches a background task; the task edits the shared *)
(* git working tree, plans and applies, and writes its stage into the row  *)
(* after every step.  app/main.py recovers the operations of a process     *)
(* that died.                                                              *)
(*                                                                         *)
(* One element of Ops is one request, the operation it creates and the     *)
(* task it launches.                                                       *)
(***************************************************************************)
EXTENDS Naturals, FiniteSets

CONSTANTS
    Ops,          \* operations, with their requests and tasks
    Routes,       \* primary keys of the routes table
    Tunnels,
    TunnelOf,     \* the tunnel and the CIDR of each route
    CidrOf,
    MaxBusy,      \* operations that may be in flight at the same time
    Faults,       \* infra: git or terragrunt fails; db: a statement or a commit
                  \* of a task fails; unrecorded: so does the one that says so
    Kinds,        \* the operations of the workload
    MaxCrashes,   \* bound: crashes in one behaviour
    None

MaxLockRetries == 5   \* _MAX_LOCK_RETRIES

Cidrs == {CidrOf[r] : r \in Routes}

ASSUME MapsAssumption == TunnelOf \in [Routes -> Tunnels] /\ MaxCrashes \in Nat
ASSUME NoneAssumption == None \notin Ops \cup Routes

VARIABLES
    route,    \* the routes table, as committed
    tunnel,   \* the tunnels that are live
    closing,  \* routes a tunnel delete has loaded, else None
    op,       \* the async_operations table, and what each is for
    pc,       \* where the request or the task of an operation stands
    tries,    \* lock attempts of a task
    lock,     \* holder of LOCK_TERRAGRUNT
    git,      \* the working tree and the two branches of the repository
    plan,     \* the plan file
    infra,    \* the CIDRs the infrastructure routes
    up,       \* the process runs
    crashes

db    == <<route, tunnel, closing, op>>
world == <<git, plan, infra>>
vars  == <<route, tunnel, closing, op, pc, tries, lock, git, plan, infra, up, crashes>>

Stages  == {"cloning", "pushing", "planning", "applying"}
Working == Stages \cup {"clone", "edit", "commit", "release", "plan", "apply", "finish"}
Alive   == Working \cup {"start", "lock", "fail"}

(* The work that follows the commit of each stage.                         *)
WorkOf == [cloning |-> "clone", pushing |-> "edit", planning |-> "plan",
           applying |-> "apply"]

NoOp == [st |-> "none", kind |-> "none", r |-> None]

Live(r)      == route[r].st = "live"
Conflict(r)  == \E q \in Routes \ {r} : /\ Live(q)
                                         /\ TunnelOf[q] = TunnelOf[r]
                                         /\ CidrOf[q] = CidrOf[r]

Init ==
    /\ route   = [r \in Routes |-> [st |-> "none", sync |-> "none"]]
    /\ tunnel  = Tunnels
    /\ closing = [t \in Tunnels |-> None]
    /\ op      = [o \in Ops |-> NoOp]
    /\ pc      = [o \in Ops |-> "none"]
    /\ tries   = [o \in Ops |-> 0]
    /\ lock    = None
    /\ git     = [head |-> "base", file |-> {}, base |-> {}, release |-> {}]
    /\ plan    = {}
    /\ infra   = {}
    /\ up      = TRUE
    /\ crashes = 0

Goto(o, l) == pc' = [pc EXCEPT ![o] = l]
At(o, l)   == pc[o] = l

(* A commit or the end of the session frees the transaction's locks.       *)
Unlock(o) == lock' = IF lock = o THEN None ELSE lock

-----------------------------------------------------------------------------
(* Requests: read and check, then write.                                   *)

Busy == {o \in Ops : pc[o] \in Alive \cup {"asked"}}

Ask(o, kind, r) ==
    /\ up
    /\ kind \in Kinds
    /\ op[o] = NoOp
    /\ Cardinality(Busy) < MaxBusy
    /\ op' = [op EXCEPT ![o] = [st |-> "none", kind |-> kind, r |-> r]]
    /\ Goto(o, "asked")
    /\ UNCHANGED <<route, tunnel, closing, tries, lock, world, up, crashes>>

AskCreate(o, r) == /\ route[r].st = "none"
                   /\ \A p \in Ops : op[p].r # r
                   /\ TunnelOf[r] \in tunnel
                   /\ ~Conflict(r)
                   /\ Ask(o, "create", r)

AskDelete(o, r) == Live(r) /\ Ask(o, "delete", r)

AskRetry(o, r)  == Live(r) /\ route[r].sync = "failed" /\ Ask(o, "retry", r)

(* Mutant of Accept: the unique index is missing.                          *)
AcceptDuplicate(o) ==
    /\ At(o, "asked")
    /\ route' = [route EXCEPT ![op[o].r] =
                    IF op[o].kind = "delete" THEN [st |-> "deleted", sync |-> "pending_delete"]
                    ELSE [st |-> "live", sync |-> "pending"]]
    /\ op' = [op EXCEPT ![o].st = "pending"]
    /\ Goto(o, "start")
    /\ UNCHANGED <<tunnel, closing, tries, lock, world, up, crashes>>

(* The commit of the request; the task starts in the same step, since no   *)
(* await lies between.                                                     *)
Accept(o) ==
    LET r == op[o].r
        row == CASE op[o].kind = "create" -> [st |-> "live", sync |-> "pending"]
                 [] op[o].kind = "retry"  -> [route[r] EXCEPT !.sync = "pending"]
                 [] op[o].kind = "delete" -> [st |-> "deleted", sync |-> "pending_delete"]
    IN  /\ At(o, "asked")
        /\ op[o].kind = "create" => ~Conflict(r)
        /\ route' = [route EXCEPT ![r] = row]
        /\ op' = [op EXCEPT ![o].st = "pending"]
        /\ Goto(o, "start")
        /\ UNCHANGED <<tunnel, closing, tries, lock, world, up, crashes>>

(* The unique index refuses the row.                                       *)
Refuse(o) ==
    /\ At(o, "asked")
    /\ op[o].kind = "create" /\ Conflict(op[o].r)
    /\ Goto(o, "done")
    /\ UNCHANGED <<db, tries, lock, world, up, crashes>>

(* tunnel_service.delete_tunnel: it loads the live routes, and its commit  *)
(* soft-deletes them with the tunnel, without any route operation.         *)
LoadTunnel(t) ==
    /\ up /\ "tunnel" \in Kinds
    /\ t \in tunnel /\ closing[t] = None
    /\ closing' = [closing EXCEPT ![t] = {r \in Routes : Live(r) /\ TunnelOf[r] = t}]
    /\ UNCHANGED <<route, tunnel, op, pc, tries, lock, world, up, crashes>>

CloseTunnel(t) ==
    /\ up
    /\ closing[t] # None
    /\ tunnel' = tunnel \ {t}
    /\ closing' = [closing EXCEPT ![t] = None]
    /\ route' = [r \in Routes |-> IF r \in closing[t]
                                  THEN [st |-> "deleted", sync |-> "pending_delete"]
                                  ELSE route[r]]
    /\ UNCHANGED <<op, pc, tries, lock, world, up, crashes>>

(* The delete is refused or a server fails: a rollback.                    *)
KeepTunnel(t) ==
    /\ up
    /\ closing[t] # None
    /\ closing' = [closing EXCEPT ![t] = None]
    /\ UNCHANGED <<route, tunnel, op, pc, tries, lock, world, up, crashes>>

-----------------------------------------------------------------------------
(* The background task.                                                    *)

Start(o) ==
    /\ At(o, "start")
    /\ op' = [op EXCEPT ![o].st = "running"]
    /\ Goto(o, "lock")
    /\ UNCHANGED <<route, tunnel, closing, tries, lock, world, up, crashes>>

TakeLock(o) ==
    /\ At(o, "lock")
    /\ lock = None
    /\ lock' = o
    /\ Goto(o, "cloning")
    /\ UNCHANGED <<db, tries, world, up, crashes>>

(* Mutant of LockBusy: one attempt too many.                               *)
LockBusyOnceMore(o) ==
    /\ At(o, "lock")
    /\ lock # None
    /\ tries' = [tries EXCEPT ![o] = @ + 1]
    /\ Goto(o, IF tries[o] = MaxLockRetries THEN "fail" ELSE "lock")
    /\ UNCHANGED <<db, lock, world, up, crashes>>

(* Sleep and try again; the last attempt sleeps and raises.                *)
LockBusy(o) ==
    /\ At(o, "lock")
    /\ lock # None
    /\ tries' = [tries EXCEPT ![o] = @ + 1]
    /\ Goto(o, IF tries[o] + 1 = MaxLockRetries THEN "fail" ELSE "lock")
    /\ UNCHANGED <<db, lock, world, up, crashes>>

(* _update_route_stage commits, and the commit frees the advisory lock.    *)
Stage(o) ==
    /\ pc[o] \in Stages
    /\ route' = [route EXCEPT ![op[o].r].sync = pc[o]]
    /\ Goto(o, WorkOf[pc[o]])
    /\ Unlock(o)
    /\ UNCHANGED <<tunnel, closing, op, tries, world, up, crashes>>

Tip(g)   == IF g.head = "base" THEN g.base ELSE g.release
Clean(g) == g.file = Tip(g)

Tree(o, g, l) == /\ git' = g
                 /\ Goto(o, l)
                 /\ UNCHANGED <<db, tries, lock, plan, infra, up, crashes>>

(* Checkout of the base branch: an uncommitted edit is carried over when   *)
(* both branches agree on the file, else git refuses.                      *)
EnsureRepo(o) ==
    /\ At(o, "clone")
    /\ \/ /\ Clean(git)
          /\ Tree(o, [git EXCEPT !.head = "base", !.file = git.base], "pushing")
       \/ /\ ~Clean(git) /\ Tip(git) = git.base
          /\ Tree(o, [git EXCEPT !.head = "base"], "pushing")
       \/ ~Clean(git) /\ Tip(git) # git.base /\ Tree(o, git, "fail")

EditRoutes(o) ==
    LET c == CidrOf[op[o].r]
    IN  /\ At(o, "edit")
        /\ Tree(o, [git EXCEPT !.file = IF op[o].kind = "delete"
                                        THEN @ \ {c} ELSE @ \cup {c}], "commit")

(* The commit goes to whichever branch is checked out by then.             *)
CommitRoutes(o) ==
    /\ At(o, "commit")
    /\ Tree(o, IF git.head = "base" THEN [git EXCEPT !.base = git.file]
                                    ELSE [git EXCEPT !.release = git.file], "release")

(* Mutant of SyncRelease: the release branch is not reset.                 *)
CheckoutRelease(o) ==
    /\ At(o, "release")
    /\ Tree(o, [git EXCEPT !.head = "release", !.file = git.release], "planning")

(* Checkout of the release branch, reset --hard to the base branch.        *)
SyncRelease(o) ==
    /\ At(o, "release")
    /\ IF Clean(git) \/ Tip(git) = git.release
       THEN Tree(o, [git EXCEPT !.head = "release", !.release = git.base,
                                !.file = git.base], "planning")
       ELSE Tree(o, git, "fail")

RunPlan(o) ==
    /\ At(o, "plan")
    /\ plan' = git.file
    /\ Goto(o, "applying")
    /\ UNCHANGED <<db, tries, lock, git, infra, up, crashes>>

RunApply(o) ==
    /\ At(o, "apply")
    /\ infra' = plan
    /\ Goto(o, "finish")
    /\ UNCHANGED <<db, tries, lock, git, plan, up, crashes>>

(* Mutant of StepFails: the exception kills the task unrecorded.           *)
StepFailsUnseen(o) ==
    /\ "infra" \in Faults
    /\ pc[o] \in {"clone", "edit", "commit", "release", "plan", "apply"}
    /\ Goto(o, "done")
    /\ UNCHANGED <<db, tries, lock, world, up, crashes>>

(* git or terragrunt fails or times out; an apply may have been carried    *)
(* out all the same.                                                       *)
StepFails(o) ==
    /\ "infra" \in Faults
    /\ pc[o] \in {"clone", "edit", "commit", "release", "plan", "apply"}
    /\ infra' \in IF At(o, "apply") THEN {infra, plan} ELSE {infra}
    /\ Goto(o, "fail")
    /\ UNCHANGED <<db, tries, lock, git, plan, up, crashes>>

(* Only a create or a retry writes the row again.                          *)
Finish(o) ==
    /\ At(o, "finish")
    /\ op' = [op EXCEPT ![o].st = "completed"]
    /\ route' = IF op[o].kind = "delete" THEN route
                ELSE [route EXCEPT ![op[o].r].sync = "synced"]
    /\ Goto(o, "done")
    /\ Unlock(o)
    /\ UNCHANGED <<tunnel, closing, tries, world, up, crashes>>

(* The database refuses or loses the status, the lock query, a stage or    *)
(* the end: a rollback.  The session that may hold the lock closes only    *)
(* after the failure has been marked, unless its connection is gone.       *)
DbFails(o) ==
    /\ "db" \in Faults
    /\ pc[o] \in Stages \cup {"start", "lock", "finish"}
    /\ Goto(o, "fail")
    /\ Unlock(o) \/ UNCHANGED lock
    /\ UNCHANGED <<db, tries, world, up, crashes>>

(* Mutants of MarkFailed: only one of the two rows is marked.              *)
MarkRouteOnly(o) ==
    /\ At(o, "fail")
    /\ route' = [route EXCEPT ![op[o].r].sync = "failed"]
    /\ Goto(o, "done")
    /\ Unlock(o)
    /\ UNCHANGED <<tunnel, closing, op, tries, world, up, crashes>>

MarkOperationOnly(o) ==
    /\ At(o, "fail")
    /\ op' = [op EXCEPT ![o].st = "failed"]
    /\ Goto(o, "done")
    /\ Unlock(o)
    /\ UNCHANGED <<route, tunnel, closing, tries, world, up, crashes>>

(* _mark_operation_failed, in a session of its own; an error in it is      *)
(* swallowed and leaves both rows as they were.                            *)
MarkFailed(o) ==
    /\ At(o, "fail")
    /\ \/ /\ op' = [op EXCEPT ![o].st = "failed"]
          /\ route' = [route EXCEPT ![op[o].r].sync = "failed"]
       \/ "unrecorded" \in Faults /\ UNCHANGED <<op, route>>
    /\ Goto(o, "done")
    /\ Unlock(o)
    /\ UNCHANGED <<tunnel, closing, tries, world, up, crashes>>

-----------------------------------------------------------------------------
(* The process dies and comes back.                                        *)

Crash ==
    /\ up /\ crashes < MaxCrashes
    /\ up' = FALSE
    /\ crashes' = crashes + 1
    /\ pc' = [o \in Ops |-> IF pc[o] = "none" THEN "none" ELSE "done"]
    /\ closing' = [t \in Tunnels |-> None]
    /\ lock' = None
    /\ UNCHANGED <<route, tunnel, op, tries, world>>

(* Mutant of Restart: an operation whose task never ran is forgotten.      *)
RestartRunning ==
    /\ ~up
    /\ up' = TRUE
    /\ op' = [o \in Ops |-> IF op[o].st = "running"
                            THEN [op[o] EXCEPT !.st = "failed"] ELSE op[o]]
    /\ UNCHANGED <<route, tunnel, closing, pc, tries, lock, world, crashes>>

(* Mutant of Restart: every operation is failed, the completed ones too.   *)
RestartAll ==
    /\ ~up
    /\ up' = TRUE
    /\ op' = [o \in Ops |-> IF op[o].st = "none" THEN op[o]
                            ELSE [op[o] EXCEPT !.st = "failed"]]
    /\ UNCHANGED <<route, tunnel, closing, pc, tries, lock, world, crashes>>

(* The lifespan handler fails what the last process left pending.          *)
Restart ==
    /\ ~up
    /\ up' = TRUE
    /\ op' = [o \in Ops |-> IF op[o].st \in {"pending", "running"}
                            THEN [op[o] EXCEPT !.st = "failed"] ELSE op[o]]
    /\ UNCHANGED <<route, tunnel, closing, pc, tries, lock, world, crashes>>

-----------------------------------------------------------------------------
Task(o) == \/ Start(o) \/ TakeLock(o) \/ LockBusy(o) \/ Stage(o)
           \/ EnsureRepo(o) \/ EditRoutes(o) \/ CommitRoutes(o) \/ SyncRelease(o)
           \/ RunPlan(o) \/ RunApply(o) \/ StepFails(o)
           \/ Finish(o) \/ DbFails(o) \/ MarkFailed(o)

Next == \/ \E o \in Ops : \/ \E r \in Routes : \/ AskCreate(o, r)
                                               \/ AskDelete(o, r)
                                               \/ AskRetry(o, r)
                          \/ Accept(o) \/ Refuse(o)
                          \/ Task(o)
        \/ \E t \in Tunnels : LoadTunnel(t) \/ CloseTunnel(t) \/ KeepTunnel(t)
        \/ Crash
        \/ Restart

Spec == Init /\ [][Next]_vars

(* git clones, pulls, fetches and pushes in an executor thread that        *)
(* nothing bounds: a remote that does not answer keeps the task there.     *)
AtRemote(o) == pc[o] \in {"clone", "commit", "release"}

(* The event loop runs every task, terragrunt runs under a timeout (git    *)
(* does not), and a process that died is started again.                    *)
FairSpec == /\ Spec
            /\ \A o \in Ops : /\ WF_vars(Accept(o)) /\ WF_vars(Refuse(o))
                              /\ WF_vars(~AtRemote(o) /\ Task(o))
            /\ WF_vars(Restart)

-----------------------------------------------------------------------------
SyncStates == {"none", "pending", "synced", "failed", "pending_delete"} \cup Stages

(* Every variable stays in its type, and every operation knows its route.  *)
TypeOK ==
    /\ route \in [Routes -> [st : {"none", "live", "deleted"}, sync : SyncStates]]
    /\ tunnel \subseteq Tunnels
    /\ closing \in [Tunnels -> {None} \cup SUBSET Routes]
    /\ op \in [Ops -> [st : {"none", "pending", "running", "completed", "failed"},
                       kind : {"none", "create", "delete", "retry"},
                       r : Routes \cup {None}]]
    /\ \A o \in Ops : pc[o] # "none" => op[o].r \in Routes /\ op[o].kind # "none"
    /\ pc \in [Ops -> Alive \cup {"none", "asked", "done"}]
    /\ tries \in [Ops -> 0..MaxLockRetries]
    /\ lock \in Ops \cup {None}
    /\ git \in [head : {"base", "release"}, file : SUBSET Cidrs,
                base : SUBSET Cidrs, release : SUBSET Cidrs]
    /\ plan \subseteq Cidrs
    /\ infra \subseteq Cidrs
    /\ up \in BOOLEAN
    /\ crashes \in 0..MaxCrashes

(* No two live routes of a tunnel share a CIDR, although two requests may  *)
(* both have found it free: the partial unique index decides.              *)
UniqueLiveRoutes == \A r \in Routes : Live(r) => ~Conflict(r)

(* While the process runs, an operation a client polls as pending or       *)
(* running has a task that works for it, and a task works for no other:    *)
(* none is lost by a failure, a lost lock race or a restart (main.py:48,   *)
(* "Recover orphaned async operations").                                   *)
NoOrphanOps == up => \A o \in Ops : op[o].st \in {"pending", "running"} <=> pc[o] \in Alive

(* A soft-deleted route stays deleted: no task, no retry accepted late     *)
(* and no tunnel delete brings its row back to life.                       *)
NoResurrection ==
    [][\A r \in Routes : route[r].st = "deleted" => route'[r].st = "deleted"]_vars

(* A live route shows a stage or "pending" only while a task works on it,  *)
(* so the polling of useRoutes.js:12 ends and a failed route can be        *)
(* retried.                                                                *)
NoStuckRoute ==
    up => \A r \in Routes :
             Live(r) /\ (\A o \in Ops : pc[o] \in Alive => op[o].r # r)
             => route[r].sync \in {"synced", "failed"}

(* When no operation is in flight, a live route that says synced is        *)
(* routed, and a route whose delete completed last is not.                 *)
Quiet == \A o \in Ops : pc[o] \in {"none", "done"}
RoutesApplied ==
    Quiet => /\ \A r \in Routes : Live(r) /\ route[r].sync = "synced" => CidrOf[r] \in infra
             /\ \A o \in Ops : op[o].kind = "delete" /\ op[o].st = "completed"
                    => CidrOf[op[o].r] \notin infra

(* The work tree, the plan file and the apply belong to one task at a      *)
(* time (locks.py:1, "serializing infrastructure operations").             *)
TerragruntExclusive ==
    \A o, p \in Ops : pc[o] \in Working /\ pc[p] \in Working => o = p

(* What the routes list shows of a row, and the contract over it.          *)
Shown(r) == IF route[r].st = "none"    THEN "absent"
            ELSE IF route[r].st = "deleted" THEN "gone"
            ELSE IF route[r].sync \in {"synced", "failed"} THEN route[r].sync
            ELSE "working"

Contract == INSTANCE RouteContract WITH
    status <- [o \in Ops |-> op[o].st],
    target <- [o \in Ops |-> IF op[o].st = "none" THEN None ELSE op[o].r],
    shown  <- [r \in Routes |-> Shown(r)]

(* Requests, tasks, tunnel deletes, crashes and restarts keep the promise  *)
(* made to clients: operations move forward only, to one final answer that *)
(* reaches the row in the same step, and deleted routes stay deleted.      *)
KeepsContract == Contract!Spec

(* Every operation a client was told to poll ends, unless its own git      *)
(* command never does: a remote that hangs holds nobody else up, although  *)
(* all tasks share a lock and a work tree (terragrunt.py:328-357 has no    *)
(* timeout, terragrunt.py:400, 458 do).                                    *)
OpsEnd == \A o \in Ops :
    op[o].st \in {"pending", "running"}
        ~> (op[o].st \in {"completed", "failed"} \/ []AtRemote(o))

=============================================================================
