--------------------------- MODULE RouteOpsProofs ---------------------------
(* Proofs about RouteOps for any number of operations, routes and tunnels. *)
EXTENDS RouteOps, FiniteSetTheorems, TLAPS

(* A task that still tries to lock has attempts left.                      *)
TriesLeft == \A o \in Ops :
    pc[o] \in {"none", "asked", "start", "lock"} => tries[o] < MaxLockRetries

(* The status of an operation is the one its request or task last wrote,   *)
(* and nothing is at work while the process is down.                       *)
StatusFits == \A o \in Ops :
    /\ ~up => pc[o] \in {"none", "done"}
    /\ pc[o] \in {"none", "asked"} => op[o].st = "none"
    /\ pc[o] = "start" => op[o].st = "pending"
    /\ pc[o] = "fail" => op[o].st \in {"pending", "running"}
    /\ pc[o] \in Alive \ {"start", "fail"} => op[o].st = "running"

(* A create that is not committed owns an id nobody else has; any other    *)
(* request found its row in the table.                                     *)
Engaged(o)  == pc[o] \in Alive \cup {"asked"}
Creating(o) == pc[o] = "asked" /\ op[o].kind = "create"
RowsFit ==
    /\ \A o \in Ops : Engaged(o) =>
          IF Creating(o)
          THEN /\ route[op[o].r].st = "none"
               /\ \A p \in Ops \ {o} : op[p].r # op[o].r
          ELSE route[op[o].r].st # "none"
    /\ \A t \in Tunnels : closing[t] # None =>
          \A r \in closing[t] : route[r].st # "none"

Typed == TypeOK /\ TriesLeft
Inv   == Typed /\ StatusFits /\ RowsFit

-----------------------------------------------------------------------------
(* Types.                                                                  *)

Labels == Alive \cup {"none", "asked", "done"}
Repos  == [head : {"base", "release"}, file : SUBSET Cidrs,
           base : SUBSET Cidrs, release : SUBSET Cidrs]

(* The part of Typed that speaks of the tasks.                             *)
TasksOK == /\ pc \in [Ops -> Labels]
           /\ \A o \in Ops : pc[o] # "none" => op[o].r \in Routes /\ op[o].kind # "none"
           /\ TriesLeft

LEMMA GotoType ==
    ASSUME Typed, NEW o \in Ops, NEW l \in Labels \ {"none", "asked", "start", "lock"},
           pc[o] # "none", Goto(o, l),
           op' = op \/ \E st : op' = [op EXCEPT ![o].st = st],
           tries' = tries
    PROVE  TasksOK'
<1>1. pc' \in [Ops -> Labels]  BY DEF Goto, Typed, TypeOK, Labels
<1>2. ASSUME NEW p \in Ops, pc'[p] # "none"
      PROVE  op'[p].r \in Routes /\ op'[p].kind # "none"
  <2>1. pc[p] # "none"  BY <1>2 DEF Goto, Typed, TypeOK
  <2>2. op'[p].r = op[p].r /\ op'[p].kind = op[p].kind  BY DEF Typed, TypeOK
  <2> QED  BY <2>1, <2>2 DEF Typed, TypeOK
<1>3. TriesLeft'  BY DEF Goto, Typed, TypeOK, TriesLeft
<1> QED  BY <1>1, <1>2, <1>3 DEF TasksOK

LEMMA AskType ==
    ASSUME Typed, NEW o \in Ops, NEW r \in Routes,
           NEW kind \in {"create", "delete", "retry"}, Ask(o, kind, r)
    PROVE  Typed'
<1> USE DEF Typed, TypeOK
<1>1. pc[o] = "none"  BY DEF Ask, NoOp
<1>2. op' = [op EXCEPT ![o] = [st |-> "none", kind |-> kind, r |-> r]]
      /\ pc' = [pc EXCEPT ![o] = "asked"]
  BY DEF Ask, Goto
<1>3. /\ op' \in [Ops -> [st : {"none", "pending", "running", "completed", "failed"},
                         kind : {"none", "create", "delete", "retry"},
                         r : Routes \cup {None}]]
      /\ pc' \in [Ops -> Alive \cup {"none", "asked", "done"}]
  BY <1>2
<1>4. \A p \in Ops : pc'[p] # "none" => op'[p].r \in Routes /\ op'[p].kind # "none"
  BY <1>2
<1>5. TriesLeft'  BY <1>1, <1>2 DEF TriesLeft, Ask
<1> QED  BY <1>3, <1>4, <1>5 DEF Ask, world

LEMMA TreeType ==
    ASSUME Typed, NEW o \in Ops, NEW g \in Repos,
           NEW l \in Labels \ {"none", "asked", "start", "lock"},
           pc[o] # "none", Tree(o, g, l)
    PROVE  Typed'
<1>1. TasksOK'  BY GotoType DEF Tree, db
<1> QED  BY <1>1 DEF Tree, db, Typed, TypeOK, TasksOK, Labels, Repos

RouteRows == [Routes -> [st : {"none", "live", "deleted"}, sync : SyncStates]]

LEMMA RowsType ==
    ASSUME Typed, NEW r \in Routes, NEW s \in SyncStates,
           route' = [route EXCEPT ![r].sync = s]
    PROVE  route' \in RouteRows
<1>1. route[r] \in [st : {"none", "live", "deleted"}, sync : SyncStates]
  BY DEF Typed, TypeOK
<1>2. [route[r] EXCEPT !.sync = s] \in [st : {"none", "live", "deleted"}, sync : SyncStates]
  BY <1>1
<1> QED  BY <1>2 DEF Typed, TypeOK, RouteRows

LEMMA UnlockType ==
    ASSUME Typed, NEW o, Unlock(o)
    PROVE  lock' \in Ops \cup {None}
BY DEF Unlock, Typed, TypeOK

LEMMA StatusType ==
    ASSUME Typed, NEW o \in Ops,
           NEW st \in {"none", "pending", "running", "completed", "failed"},
           op' = [op EXCEPT ![o].st = st]
    PROVE  op' \in [Ops -> [st : {"none", "pending", "running", "completed", "failed"},
                           kind : {"none", "create", "delete", "retry"},
                           r : Routes \cup {None}]]
BY DEF Typed, TypeOK

LEMMA TypedInit ==
    ASSUME Init
    PROVE  Typed
BY MapsAssumption DEF Init, Typed, TypeOK, TriesLeft, NoOp, SyncStates, MaxLockRetries, Cidrs

LEMMA TypedRequest ==
    ASSUME Typed, NEW o \in Ops, Accept(o) \/ Refuse(o)
    PROVE  Typed'
<1> DEFINE r == op[o].r
<1>1. At(o, "asked") /\ r \in Routes /\ op[o].kind \in {"create", "delete", "retry"}
  BY DEF Accept, Refuse, At, Typed, TypeOK
<1>2. CASE Refuse(o)
  <2>1. TasksOK'  BY <1>1, <1>2, GotoType DEF Refuse, At, Labels, db
  <2> QED  BY <1>2, <2>1 DEF Refuse, db, world, Typed, TypeOK, TasksOK, Labels
<1>3. CASE Accept(o)
  <2> DEFINE row == CASE op[o].kind = "create" -> [st |-> "live", sync |-> "pending"]
                      [] op[o].kind = "retry"  -> [route[r] EXCEPT !.sync = "pending"]
                      [] op[o].kind = "delete" -> [st |-> "deleted", sync |-> "pending_delete"]
  <2>1. route[r] \in [st : {"none", "live", "deleted"}, sync : SyncStates]
    BY <1>1 DEF Typed, TypeOK
  <2>2. row \in [st : {"none", "live", "deleted"}, sync : SyncStates]
    BY <1>1, <2>1 DEF SyncStates
  <2>3. route' = [route EXCEPT ![r] = row]  BY <1>3 DEF Accept
  <2> HIDE DEF row, r
  <2>4. route' \in RouteRows  BY <2>2, <2>3 DEF Typed, TypeOK, RouteRows
  <2>5. op' \in [Ops -> [st : {"none", "pending", "running", "completed", "failed"},
                         kind : {"none", "create", "delete", "retry"},
                         r : Routes \cup {None}]]
    BY <1>3, StatusType DEF Accept
  <2>6. /\ pc' = [pc EXCEPT ![o] = "start"]
        /\ op' = [op EXCEPT ![o].st = "pending"]
        /\ UNCHANGED <<tunnel, closing, tries, lock, world, up, crashes>>
    BY <1>3 DEF Accept, Goto
  <2>7. TriesLeft'  BY <1>1, <2>6 DEF TriesLeft, Typed, TypeOK, At
  <2>8. \A p \in Ops : pc'[p] # "none" => op'[p].r \in Routes /\ op'[p].kind # "none"
    BY <1>1, <2>6 DEF Typed, TypeOK, r, At
  <2>9. pc' \in [Ops -> Labels]  BY <2>6 DEF Typed, TypeOK, Labels, Alive
  <2> QED  BY <2>4, <2>5, <2>6, <2>7, <2>8, <2>9 DEF Typed, TypeOK, world, RouteRows, Labels
<1> QED  BY <1>2, <1>3

LEMMA TypedTunnel ==
    ASSUME Typed, NEW t \in Tunnels, LoadTunnel(t) \/ CloseTunnel(t) \/ KeepTunnel(t)
    PROVE  Typed'
<1> DEFINE del == [st |-> "deleted", sync |-> "pending_delete"]
<1>1. del \in [st : {"none", "live", "deleted"}, sync : SyncStates]  BY DEF SyncStates
<1>2. TriesLeft'  BY DEF LoadTunnel, CloseTunnel, KeepTunnel, Typed, TriesLeft
<1>3. closing' \in [Tunnels -> {None} \cup SUBSET Routes]
  <2>1. closing \in [Tunnels -> {None} \cup SUBSET Routes]
    BY DEF Typed, TypeOK
  <2>2. PICK c \in {None} \cup SUBSET Routes : closing' = [closing EXCEPT ![t] = c]
    <3>1. {r \in Routes : Live(r) /\ TunnelOf[r] = t} \in SUBSET Routes
      OBVIOUS
    <3> QED
      BY <3>1 DEF LoadTunnel, CloseTunnel, KeepTunnel
  <2> QED  BY <2>1, <2>2
<1>4. route' = route \/ route' = [r \in Routes |-> IF r \in closing[t] THEN del ELSE route[r]]
  BY DEF LoadTunnel, CloseTunnel, KeepTunnel
<1> HIDE DEF del
<1>5. route' \in RouteRows  BY <1>1, <1>4 DEF RouteRows, Typed, TypeOK
<1>6. tunnel' \subseteq Tunnels  BY DEF LoadTunnel, CloseTunnel, KeepTunnel, Typed, TypeOK
<1>7. UNCHANGED <<op, pc, tries, lock, world, up, crashes>>
  BY DEF LoadTunnel, CloseTunnel, KeepTunnel
<1> QED  BY <1>2, <1>3, <1>5, <1>6, <1>7 DEF Typed, TypeOK, world, RouteRows

LEMMA TypedLocking ==
    ASSUME Typed, NEW o \in Ops, Start(o) \/ TakeLock(o) \/ LockBusy(o)
    PROVE  Typed'
<1>1. pc[o] # "none" /\ tries[o] < MaxLockRetries
  BY DEF Start, TakeLock, LockBusy, At, Typed, TriesLeft
<1>2. op' \in [Ops -> [st : {"none", "pending", "running", "completed", "failed"},
                       kind : {"none", "create", "delete", "retry"},
                       r : Routes \cup {None}]]
  BY StatusType DEF Start, TakeLock, LockBusy, Typed, TypeOK, db
<1>3. \A p \in Ops : op'[p].r = op[p].r /\ op'[p].kind = op[p].kind
  BY DEF Start, TakeLock, LockBusy, Typed, TypeOK, db
<1>4. /\ pc' \in [Ops -> Labels]
      /\ \A p \in Ops : pc'[p] # "none" => pc[p] # "none"
  BY <1>1 DEF Start, TakeLock, LockBusy, Typed, TypeOK, Goto, Labels, Alive, Working, Stages
<1>5. tries' \in [Ops -> 0..MaxLockRetries]
  BY <1>1 DEF Start, TakeLock, LockBusy, Typed, TypeOK, MaxLockRetries
<1>6. TriesLeft'
  <2>1. CASE Start(o)  BY <1>1, <2>1 DEF Start, Goto, Typed, TypeOK, TriesLeft
  <2>2. CASE TakeLock(o)  BY <2>2 DEF TakeLock, Goto, Typed, TypeOK, TriesLeft
  <2>3. CASE LockBusy(o)
    BY <1>1, <2>3 DEF LockBusy, Goto, Typed, TypeOK, TriesLeft, MaxLockRetries
  <2> QED  BY <2>1, <2>2, <2>3
<1>7. lock' \in Ops \cup {None}  BY DEF Start, TakeLock, LockBusy, Typed, TypeOK
<1>8. UNCHANGED <<route, tunnel, closing, world, up, crashes>>
  BY DEF Start, TakeLock, LockBusy, db
<1> QED  BY <1>2, <1>3, <1>4, <1>5, <1>6, <1>7, <1>8 DEF Typed, TypeOK, world, Labels

LEMMA TypedRows ==
    ASSUME Typed, NEW o \in Ops, Stage(o) \/ Finish(o) \/ DbFails(o) \/ MarkFailed(o)
    PROVE  Typed'
<1> DEFINE r == op[o].r
<1>1. pc[o] # "none" /\ r \in Routes
  BY DEF Stage, Finish, DbFails, db, MarkFailed, At, Stages, Typed, TypeOK
<1>2. Stages \subseteq SyncStates /\ {"synced", "failed"} \subseteq SyncStates
  BY DEF SyncStates
<1>3. route' = route \/ \E s \in SyncStates : route' = [route EXCEPT ![r].sync = s]
  BY <1>2 DEF Stage, Finish, DbFails, db, MarkFailed
<1> HIDE DEF r
<1>4. route' \in RouteRows  BY <1>1, <1>3, RowsType DEF Typed, TypeOK, RouteRows
<1>5. op' \in [Ops -> [st : {"none", "pending", "running", "completed", "failed"},
                       kind : {"none", "create", "delete", "retry"},
                       r : Routes \cup {None}]]
  BY StatusType DEF Stage, Finish, DbFails, db, MarkFailed, Typed, TypeOK
<1>6. lock' \in Ops \cup {None}
  <2>1. Unlock(o) \/ lock' = lock  BY DEF Stage, Finish, DbFails, MarkFailed
  <2> QED  BY <2>1, UnlockType DEF Typed, TypeOK
<1>7. \A s \in Stages : WorkOf[s] \in {"clone", "edit", "plan", "apply"}
  BY DEF Stages, WorkOf
<1>8. TasksOK'
  <2>1. op' = op \/ \E st : op' = [op EXCEPT ![o].st = st]
    BY DEF Stage, Finish, DbFails, db, MarkFailed
  <2>2. \E l \in Labels \ {"none", "asked", "start", "lock"} : Goto(o, l)
    BY <1>7 DEF Stage, Finish, DbFails, db, MarkFailed, Labels, Alive, Working
  <2>3. tries' = tries  BY DEF Stage, Finish, DbFails, db, MarkFailed
  <2> QED  BY <1>1, <2>1, <2>2, <2>3, GotoType
<1>9. UNCHANGED <<tunnel, closing, tries, world, up, crashes>>
  BY DEF Stage, Finish, DbFails, db, MarkFailed
<1> QED  BY <1>4, <1>5, <1>6, <1>8, <1>9 DEF Typed, TypeOK, TasksOK, world, RouteRows, Labels

LEMMA TypedTree ==
    ASSUME Typed, NEW o \in Ops,
           EnsureRepo(o) \/ EditRoutes(o) \/ CommitRoutes(o) \/ SyncRelease(o)
    PROVE  Typed'
<1>1. pc[o] # "none" /\ op[o].r \in Routes
  BY DEF EnsureRepo, EditRoutes, CommitRoutes, SyncRelease, At, Typed, TypeOK
<1>2. git \in Repos /\ CidrOf[op[o].r] \in Cidrs  BY <1>1 DEF Typed, TypeOK, Repos, Cidrs
<1>3. {"pushing", "commit", "release", "planning", "fail"}
         \subseteq Labels \ {"none", "asked", "start", "lock"}
  BY DEF Labels, Alive, Working, Stages
<1>4. CASE EnsureRepo(o)
  <2>1. [git EXCEPT !.head = "base", !.file = git.base] \in Repos
        /\ [git EXCEPT !.head = "base"] \in Repos
    BY <1>2 DEF Repos
  <2> QED  BY <1>1, <1>2, <1>3, <1>4, <2>1, TreeType DEF EnsureRepo
<1>5. CASE EditRoutes(o)
  <2>1. PICK F \in SUBSET Cidrs : Tree(o, [git EXCEPT !.file = F], "commit")
    <3> DEFINE c == CidrOf[op[o].r]
               F == IF op[o].kind = "delete" THEN git.file \ {c} ELSE git.file \cup {c}
    <3>1. F \in SUBSET Cidrs  BY <1>2 DEF Repos
    <3>2. Tree(o, [git EXCEPT !.file = F], "commit")  BY <1>5 DEF EditRoutes
    <3> QED  BY <3>1, <3>2
  <2>2. [git EXCEPT !.file = F] \in Repos  BY <1>2 DEF Repos
  <2> QED  BY <1>1, <1>3, <2>1, <2>2, TreeType
<1>6. CASE CommitRoutes(o)
  <2>1. [git EXCEPT !.base = git.file] \in Repos /\ [git EXCEPT !.release = git.file] \in Repos
    BY <1>2 DEF Repos
  <2> QED  BY <1>1, <1>3, <1>6, <2>1, TreeType DEF CommitRoutes
<1>7. CASE SyncRelease(o)
  <2>1. [git EXCEPT !.head = "release", !.release = git.base, !.file = git.base] \in Repos
    BY <1>2 DEF Repos
  <2> QED  BY <1>1, <1>2, <1>3, <1>7, <2>1, TreeType DEF SyncRelease
<1> QED  BY <1>4, <1>5, <1>6, <1>7

LEMMA TypedInfra ==
    ASSUME Typed, NEW o \in Ops, RunPlan(o) \/ RunApply(o) \/ StepFails(o)
    PROVE  Typed'
<1>1. pc[o] # "none"  BY DEF RunPlan, RunApply, StepFails, At
<1>2. {"applying", "finish", "fail"} \subseteq Labels \ {"none", "asked", "start", "lock"}
  BY DEF Labels, Alive, Working, Stages
<1>3. TasksOK'  BY <1>1, <1>2, GotoType DEF RunPlan, RunApply, StepFails, db
<1>4. plan' \subseteq Cidrs /\ infra' \subseteq Cidrs
  BY DEF RunPlan, RunApply, StepFails, Typed, TypeOK, world
<1>5. UNCHANGED <<route, tunnel, closing, op, tries, lock, git, up, crashes>>
  BY DEF RunPlan, RunApply, StepFails, db, world
<1> QED  BY <1>3, <1>4, <1>5 DEF Typed, TypeOK, TasksOK, Labels

LEMMA TypedCrash ==
    ASSUME Typed, Crash \/ Restart
    PROVE  Typed'
<1>1. CASE Crash
  <2>1. crashes' \in 0..MaxCrashes  BY <1>1, MapsAssumption DEF Crash, Typed, TypeOK
  <2> QED  BY <1>1, <2>1 DEF Crash, Typed, TypeOK, TriesLeft, world
<1>2. CASE Restart
  <2>1. op' \in [Ops -> [st : {"none", "pending", "running", "completed", "failed"},
                         kind : {"none", "create", "delete", "retry"},
                         r : Routes \cup {None}]]
    BY <1>2 DEF Restart, Typed, TypeOK
  <2>2. \A p \in Ops : op'[p].r = op[p].r /\ op'[p].kind = op[p].kind
    BY <1>2 DEF Restart, Typed, TypeOK
  <2> QED  BY <1>2, <2>1, <2>2 DEF Restart, Typed, TypeOK, TriesLeft, world
<1> QED  BY <1>1, <1>2

LEMMA TypedStep ==
    ASSUME Typed, [Next]_vars
    PROVE  Typed'
<1>1. CASE UNCHANGED vars  BY <1>1 DEF vars, Typed, TypeOK, TriesLeft
<1>2. ASSUME NEW o \in Ops, NEW r \in Routes,
             AskCreate(o, r) \/ AskDelete(o, r) \/ AskRetry(o, r)
      PROVE  Typed'
  BY <1>2, AskType DEF AskCreate, AskDelete, AskRetry
<1>3. ASSUME NEW o \in Ops, Task(o)
      PROVE  Typed'
  BY <1>3, TypedLocking, TypedRows, TypedTree, TypedInfra DEF Task
<1> QED  BY <1>1, <1>2, <1>3, TypedRequest, TypedTunnel, TypedCrash DEF Next

(* Every state of RouteOps is well typed, for any tables, tasks and faults *)
(* (route_service.py, terragrunt.py and the recovery in main.py).          *)
THEOREM TypeCorrect == Spec => []TypeOK
<1>1. Init => Typed  BY TypedInit
<1>2. Typed /\ [Next]_vars => Typed'  BY TypedStep
<1>3. Typed => TypeOK  BY DEF Typed
<1> QED  BY <1>1, <1>2, <1>3, PTL DEF Spec

-----------------------------------------------------------------------------
(* The invariant that ties operations, tasks and rows together.            *)

LEMMA LabelFacts ==
    /\ "asked" \notin Alive /\ "none" \notin Alive /\ "done" \notin Alive
    /\ "start" \in Alive /\ "lock" \in Alive /\ "fail" \in Alive
    /\ Working \subseteq Alive /\ Stages \subseteq Working
    /\ {"clone", "edit", "commit", "release", "plan", "apply", "finish"} \subseteq Working
    /\ "start" \notin Working /\ "lock" \notin Working /\ "fail" \notin Working
BY DEF Alive, Working, Stages

LEMMA SyncOnly ==
    ASSUME Typed, NEW r \in Routes, NEW s \in SyncStates, route' = [route EXCEPT ![r].sync = s]
    PROVE  \A q \in Routes : /\ route'[q].st = route[q].st
                             /\ route'[q].sync = IF q = r THEN s ELSE route[q].sync
<1>1. route \in RouteRows  BY DEF Typed, TypeOK, RouteRows
<1>2. \A q \in Routes : route[q] \in [st : {"none", "live", "deleted"}, sync : SyncStates]
  BY <1>1 DEF RouteRows
<1> DEFINE row == [route[r] EXCEPT !.sync = s]
<1>3. row.st = route[r].st /\ row.sync = s  BY <1>2
<1>4. \A q \in Routes : route'[q] = IF q = r THEN row ELSE route[q]
  BY <1>1 DEF RouteRows
<1> HIDE DEF row
<1> QED  BY <1>3, <1>4

(* What every step of a task leaves alone.                                 *)
LEMMA TaskShape ==
    ASSUME Typed, NEW o \in Ops, Task(o)
    PROVE  /\ pc[o] \in Alive /\ op[o].r \in Routes
           /\ \E l \in Labels \ {"none", "asked", "start"} : Goto(o, l)
           /\ op' = op \/ \E st : op' = [op EXCEPT ![o].st = st]
           /\ \A r \in Routes : route'[r].st = route[r].st
           /\ UNCHANGED <<closing, up>>
<1>1. \A s \in Stages : WorkOf[s] \in {"clone", "edit", "plan", "apply"}
  BY DEF Stages, WorkOf
<1>2. CASE Start(o) \/ TakeLock(o) \/ LockBusy(o)
  BY <1>2, LabelFacts DEF Start, TakeLock, LockBusy, At, db, world, Labels, Working, Stages,
     Typed, TypeOK
<1>3. CASE Stage(o) \/ Finish(o) \/ DbFails(o) \/ MarkFailed(o)
  <2>1. pc[o] \in Alive  BY <1>3, LabelFacts DEF Stage, Finish, DbFails, db, MarkFailed, At
  <2>2. \E l \in Labels \ {"none", "asked", "start"} : Goto(o, l)
    BY <1>1, <1>3, LabelFacts DEF Stage, Finish, DbFails, db, MarkFailed, Labels
  <2>3. op' = op \/ \E st : op' = [op EXCEPT ![o].st = st]
    BY <1>3 DEF Stage, Finish, DbFails, db, MarkFailed
  <2>4. route' = route \/ \E s \in SyncStates : route' = [route EXCEPT ![op[o].r].sync = s]
    <3>1. Stages \subseteq SyncStates /\ {"synced", "failed"} \subseteq SyncStates
      BY DEF SyncStates
    <3> QED  BY <1>3, <3>1 DEF Stage, Finish, DbFails, db, MarkFailed
  <2>5. op[o].r \in Routes  BY <2>1, LabelFacts DEF Typed, TypeOK
  <2>6. \A r \in Routes : route'[r].st = route[r].st
    <3> DEFINE r0 == op[o].r
    <3>1. r0 \in Routes /\ (route' = route \/ \E s \in SyncStates :
                                                  route' = [route EXCEPT ![r0].sync = s])
      BY <2>4, <2>5
    <3> HIDE DEF r0
    <3> QED  BY <3>1, SyncOnly
  <2>7. UNCHANGED <<closing, up>>  BY <1>3 DEF Stage, Finish, DbFails, db, MarkFailed
  <2> QED  BY <2>1, <2>2, <2>3, <2>5, <2>6, <2>7
<1>4. CASE EnsureRepo(o) \/ EditRoutes(o) \/ CommitRoutes(o) \/ SyncRelease(o)
  <2>1. pc[o] \in Alive
    BY <1>4, LabelFacts DEF EnsureRepo, EditRoutes, CommitRoutes, SyncRelease, At
  <2>2. \E g, l : Tree(o, g, l) /\ l \in Labels \ {"none", "asked", "start"}
    BY <1>4, LabelFacts
    DEF EnsureRepo, EditRoutes, CommitRoutes, SyncRelease, Labels, Working, Stages
  <2> QED  BY <2>1, <2>2, LabelFacts DEF Tree, db, Typed, TypeOK
<1>5. CASE RunPlan(o) \/ RunApply(o) \/ StepFails(o)
  BY <1>5, LabelFacts DEF RunPlan, RunApply, StepFails, At, db, world, Labels, Working, Stages,
     Typed, TypeOK
<1> QED  BY <1>2, <1>3, <1>4, <1>5 DEF Task

(* The task and its operation move together.                               *)
LEMMA TaskStatus ==
    ASSUME Typed, StatusFits, NEW o \in Ops, Task(o)
    PROVE  /\ op[o].st \in {"pending", "running"}
           /\ pc[o] \notin {"start", "fail"} => op[o].st = "running"
           /\ pc'[o] = "fail" => op'[o].st \in {"pending", "running"}
           /\ pc'[o] \in Alive \ {"fail"} => op'[o].st = "running"
<1>1. /\ op[o].st \in {"pending", "running"}
      /\ pc[o] \notin {"start", "fail"} => op[o].st = "running"
  BY TaskShape DEF StatusFits
<1>2. CASE Start(o)
  <2>1. op'[o].st = "running"
    BY <1>2, TaskShape DEF Start, Typed, TypeOK
  <2> QED  BY <1>1, <2>1
<1>3. CASE Finish(o) \/ MarkFailed(o)
  <2>1. pc'[o] = "done"  BY <1>3, TaskShape DEF Finish, MarkFailed, Goto, Typed, TypeOK
  <2> QED  BY <1>1, <2>1, LabelFacts
<1>4. CASE DbFails(o)
  <2>1. pc'[o] = "fail" /\ op' = op  BY <1>4 DEF DbFails, Goto, db, Typed, TypeOK
  <2> QED  BY <1>1, <2>1
<1>5. CASE ~(Start(o) \/ Finish(o) \/ DbFails(o) \/ MarkFailed(o))
  <2>1. op' = op
    BY <1>5 DEF Task, TakeLock, LockBusy, Stage, EnsureRepo, EditRoutes, CommitRoutes,
       SyncRelease, RunPlan, RunApply, StepFails, Tree, db
  <2>2. pc[o] \notin {"start", "fail"}
    BY <1>5 DEF Task, TakeLock, LockBusy, Stage, Stages, EnsureRepo, EditRoutes, CommitRoutes,
       SyncRelease, RunPlan, RunApply, StepFails, At
  <2> QED  BY <1>1, <2>1, <2>2
<1> QED  BY <1>2, <1>3, <1>4, <1>5

(* A step that creates no row and asks for nothing keeps RowsFit.          *)
LEMMA RowsKept ==
    ASSUME Typed, RowsFit,
           \A r \in Routes : route'[r].st = "none" <=> route[r].st = "none",
           \A p \in Ops : op'[p].r = op[p].r /\ op'[p].kind = op[p].kind,
           \A p \in Ops : Engaged(p)' => Engaged(p) /\ (pc'[p] = "asked" <=> pc[p] = "asked"),
           \A t \in Tunnels : closing'[t] # None =>
              closing'[t] \subseteq {r \in Routes : route[r].st # "none"}
    PROVE  RowsFit'
<1>1. \A p \in Ops : Engaged(p) => op[p].r \in Routes
  BY LabelFacts DEF Engaged, Typed, TypeOK
<1>2. \A p \in Ops : Engaged(p)' => (Creating(p)' <=> Creating(p))
  BY DEF Creating
<1>3. ASSUME NEW p \in Ops, Engaged(p)'
      PROVE  IF Creating(p)'
             THEN /\ route'[op'[p].r].st = "none"
                  /\ \A x \in Ops \ {p} : op'[x].r # op'[p].r
             ELSE route'[op'[p].r].st # "none"
  <2>1. Engaged(p)  BY <1>3
  <2> QED  BY <1>1, <1>2, <1>3, <2>1 DEF RowsFit, Engaged
<1> QED  BY <1>3 DEF RowsFit, Engaged

LEMMA InvInit ==
    ASSUME Init
    PROVE  Inv
<1>1. \A o \in Ops : pc[o] = "none" /\ op[o].st = "none"  BY DEF Init, NoOp
<1>2. StatusFits  BY <1>1, LabelFacts DEF Init, StatusFits
<1>3. RowsFit  BY <1>1, LabelFacts DEF Init, RowsFit, Engaged
<1> QED  BY <1>2, <1>3, TypedInit DEF Inv

LEMMA InvAsk ==
    ASSUME Inv, NEW o \in Ops, NEW r \in Routes,
           AskCreate(o, r) \/ AskDelete(o, r) \/ AskRetry(o, r)
    PROVE  StatusFits' /\ RowsFit'
<1> DEFINE kinds == {"create", "delete", "retry"}
<1>1. PICK kind \in kinds :
         /\ Ask(o, kind, r)
         /\ IF kind = "create"
            THEN route[r].st = "none" /\ \A p \in Ops : op[p].r # r
            ELSE route[r].st # "none"
  BY DEF AskCreate, AskDelete, AskRetry, Live
<1>2. /\ pc[o] = "none" /\ pc' = [pc EXCEPT ![o] = "asked"]
      /\ op' = [op EXCEPT ![o] = [st |-> "none", kind |-> kind, r |-> r]]
      /\ UNCHANGED <<route, closing, up>> /\ up
  BY <1>1 DEF Ask, Goto, NoOp, Inv, Typed, TypeOK
<1>3. StatusFits'  BY <1>2, LabelFacts DEF StatusFits, Inv, Typed, TypeOK
<1>4. ASSUME NEW p \in Ops, Engaged(p)'
      PROVE  IF Creating(p)'
             THEN /\ route'[op'[p].r].st = "none"
                  /\ \A x \in Ops \ {p} : op'[x].r # op'[p].r
             ELSE route'[op'[p].r].st # "none"
  <2>1. CASE p = o  BY <1>1, <1>2, <2>1 DEF Creating, Inv, Typed, TypeOK
  <2>2. CASE p # o
    <3>1. Engaged(p) /\ (Creating(p)' <=> Creating(p)) /\ op'[p] = op[p]
      BY <1>2, <1>4, <2>2 DEF Engaged, Creating, Inv, Typed, TypeOK
    <3>2. IF Creating(p) THEN /\ route[op[p].r].st = "none"
                              /\ \A x \in Ops \ {p} : op[x].r # op[p].r
                         ELSE route[op[p].r].st # "none"
      BY <3>1 DEF Inv, RowsFit, Engaged
    <3>3. Creating(p) => op[p].r # r  BY <1>1, <3>2
    <3>4. \A x \in Ops : op'[x].r = IF x = o THEN r ELSE op[x].r
      BY <1>2 DEF Inv, Typed, TypeOK
    <3> QED  BY <1>2, <3>1, <3>2, <3>3, <3>4
  <2> QED  BY <2>1, <2>2
<1>5. RowsFit'  BY <1>2, <1>4 DEF RowsFit, Engaged, Inv
<1> QED  BY <1>3, <1>5

Accepted(o) ==
    LET r == op[o].r
    IN  /\ r \in Routes /\ op[o].kind \in {"create", "delete", "retry"}
        /\ op[o].st = "none" /\ pc[o] = "asked"
        /\ op' = [op EXCEPT ![o].st = "pending"]
        /\ pc' = [pc EXCEPT ![o] = "start"]
        /\ UNCHANGED <<closing, up>>
        /\ \A q \in Routes \ {r} : route'[q] = route[q]
        /\ route[r].st = "none" <=> op[o].kind = "create"
        /\ op[o].kind = "create" => route'[r] = [st |-> "live", sync |-> "pending"]
        /\ op[o].kind = "retry"  => route'[r].st = route[r].st /\ route'[r].sync = "pending"
        /\ op[o].kind = "delete" => route'[r] = [st |-> "deleted", sync |-> "pending_delete"]

LEMMA AcceptShape ==
    ASSUME Inv, NEW o \in Ops, Accept(o)
    PROVE  Accepted(o)
<1>1. pc[o] = "asked" /\ op[o].st = "none"  BY DEF Accept, At, Inv, StatusFits
<1>2. op[o].r \in Routes /\ op[o].kind \in {"create", "delete", "retry"}
  BY <1>1 DEF Inv, Typed, TypeOK
<1>3. IF op[o].kind = "create" THEN route[op[o].r].st = "none" ELSE route[op[o].r].st # "none"
  BY <1>1 DEF Inv, RowsFit, Creating, Engaged
<1> DEFINE r == op[o].r
           row == CASE op[o].kind = "create" -> [st |-> "live", sync |-> "pending"]
                    [] op[o].kind = "retry"  -> [route[r] EXCEPT !.sync = "pending"]
                    [] op[o].kind = "delete" -> [st |-> "deleted", sync |-> "pending_delete"]
<1>4. route' = [route EXCEPT ![r] = row]  BY DEF Accept
<1>5. route[r] \in [st : {"none", "live", "deleted"}, sync : SyncStates]
  BY <1>2 DEF Inv, Typed, TypeOK
<1>6. op[o].kind = "retry" => row.st = route[r].st /\ row.sync = "pending"  BY <1>5
<1>7. /\ op[o].kind = "create" => row = [st |-> "live", sync |-> "pending"]
      /\ op[o].kind = "delete" => row = [st |-> "deleted", sync |-> "pending_delete"]
  OBVIOUS
<1> HIDE DEF row
<1>8. route'[r] = row /\ \A q \in Routes \ {r} : route'[q] = route[q]
  BY <1>2, <1>4 DEF Inv, Typed, TypeOK
<1>9. /\ op' = [op EXCEPT ![o].st = "pending"]
      /\ pc' = [pc EXCEPT ![o] = "start"]
      /\ UNCHANGED <<closing, up>>
  BY DEF Accept, Goto
<1> QED  BY <1>1, <1>2, <1>3, <1>6, <1>7, <1>8, <1>9 DEF Accepted

LEMMA InvAccept ==
    ASSUME Inv, NEW o \in Ops, Accept(o)
    PROVE  StatusFits' /\ RowsFit'
<1> DEFINE r == op[o].r
<1>0. Accepted(o)  BY AcceptShape
<1>1. StatusFits'
  BY <1>0, LabelFacts DEF Accepted, StatusFits, Inv, Typed, TypeOK
<1>2. \A p \in Ops : /\ op'[p].r = op[p].r /\ op'[p].kind = op[p].kind
                     /\ p # o => pc'[p] = pc[p]
                     /\ pc'[o] = "start"
  BY <1>0 DEF Accepted, Inv, Typed, TypeOK
<1>3. r \in Routes /\ route'[r].st # "none"
  BY <1>0 DEF Accepted
<1>4. \A q \in Routes : route[q].st # "none" => route'[q].st # "none"
  BY <1>0, <1>3 DEF Accepted
<1>5. ASSUME NEW p \in Ops, Engaged(p)'
      PROVE  IF Creating(p)'
             THEN /\ route'[op'[p].r].st = "none"
                  /\ \A x \in Ops \ {p} : op'[x].r # op'[p].r
             ELSE route'[op'[p].r].st # "none"
  <2>1. CASE p = o  BY <1>2, <1>3, <2>1 DEF Creating
  <2>2. CASE p # o
    <3>1. Engaged(p) /\ (Creating(p)' <=> Creating(p)) /\ op[p].r \in Routes
      BY <1>2, <1>5, <2>2, LabelFacts DEF Engaged, Creating, Inv, Typed, TypeOK
    <3>2. IF Creating(p) THEN /\ route[op[p].r].st = "none"
                              /\ \A x \in Ops \ {p} : op[x].r # op[p].r
                         ELSE route[op[p].r].st # "none"
      BY <3>1 DEF Inv, RowsFit, Engaged
    <3>3. Creating(p) => route'[op[p].r] = route[op[p].r]
      BY <1>0, <2>2, <3>1, <3>2 DEF Accepted
    <3> QED  BY <1>2, <1>4, <3>1, <3>2, <3>3
  <2> QED  BY <2>1, <2>2
<1>6. \A t \in Tunnels : closing'[t] # None => \A q \in closing'[t] : route'[q].st # "none"
  BY <1>0, <1>4 DEF Accepted, Inv, RowsFit, Typed, TypeOK
<1>7. RowsFit'  BY <1>5, <1>6 DEF RowsFit, Engaged
<1> QED  BY <1>1, <1>7

LEMMA InvOther ==
    ASSUME Inv,
           \/ \E o \in Ops : Refuse(o) \/ Task(o)
           \/ \E t \in Tunnels : LoadTunnel(t) \/ CloseTunnel(t) \/ KeepTunnel(t)
           \/ Crash \/ Restart
    PROVE  StatusFits' /\ RowsFit'
<1> DEFINE Loaded(C) == \A t \in Tunnels : C[t] # None =>
                           C[t] \subseteq {r \in Routes : route[r].st # "none"}
<1> USE DEF Inv
<1>0. Loaded(closing)  BY DEF RowsFit, Typed, TypeOK
<1>1. ASSUME NEW o \in Ops, Task(o)
      PROVE  StatusFits' /\ RowsFit'
  <2>1. \A p \in Ops : op'[p].r = op[p].r /\ op'[p].kind = op[p].kind
                       /\ (p # o => op'[p] = op[p] /\ pc'[p] = pc[p])
    BY <1>1, TaskShape DEF Typed, TypeOK, Goto
  <2>2. pc[o] \in Alive /\ pc'[o] \notin {"none", "asked", "start"}
    BY <1>1, TaskShape DEF Typed, TypeOK, Goto
  <2>3. StatusFits'
    <3>1. up /\ up'  BY <1>1, <2>2, LabelFacts, TaskShape DEF StatusFits
    <3>2. /\ pc'[o] = "fail" => op'[o].st \in {"pending", "running"}
          /\ pc'[o] \in Alive \ {"fail"} => op'[o].st = "running"
      BY <1>1, TaskStatus
    <3> QED  BY <2>1, <2>2, <3>1, <3>2, LabelFacts DEF StatusFits
  <2>4. \A p \in Ops : Engaged(p)' => Engaged(p) /\ (pc'[p] = "asked" <=> pc[p] = "asked")
    BY <2>1, <2>2, LabelFacts DEF Engaged
  <2> QED  BY <1>0, <1>1, <2>1, <2>3, <2>4, TaskShape, RowsKept
<1>2. ASSUME NEW o \in Ops, Refuse(o)
      PROVE  StatusFits' /\ RowsFit'
  <2>1. pc' = [pc EXCEPT ![o] = "done"] /\ UNCHANGED <<route, op, closing, up>>
    BY <1>2 DEF Refuse, Goto, db
  <2>2. StatusFits'  BY <2>1, LabelFacts DEF StatusFits, Typed, TypeOK
  <2>3. \A p \in Ops : Engaged(p)' => Engaged(p) /\ (pc'[p] = "asked" <=> pc[p] = "asked")
    BY <2>1, LabelFacts DEF Engaged, Typed, TypeOK
  <2> QED  BY <1>0, <2>1, <2>2, <2>3, RowsKept
<1>3. ASSUME NEW t \in Tunnels, LoadTunnel(t) \/ CloseTunnel(t) \/ KeepTunnel(t)
      PROVE  StatusFits' /\ RowsFit'
  <2>1. UNCHANGED <<op, pc, up>>  BY <1>3 DEF LoadTunnel, CloseTunnel, KeepTunnel
  <2>2. Loaded(closing')
    BY <1>0, <1>3 DEF LoadTunnel, CloseTunnel, KeepTunnel, Live, Typed, TypeOK
  <2>3. \A r \in Routes : route'[r].st = "none" <=> route[r].st = "none"
    <3>1. CASE CloseTunnel(t)
      <4>1. closing[t] # None  BY <3>1 DEF CloseTunnel
      <4>2. \A r \in Routes : r \in closing[t] => route[r].st # "none"  BY <4>1 DEF RowsFit
      <4> QED  BY <3>1, <4>2 DEF CloseTunnel
    <3>2. CASE LoadTunnel(t) \/ KeepTunnel(t)  BY <3>2 DEF LoadTunnel, KeepTunnel
    <3> QED  BY <1>3, <3>1, <3>2
  <2>4. StatusFits'  BY <2>1 DEF StatusFits
  <2>5. \A p \in Ops : Engaged(p)' => Engaged(p) /\ (pc'[p] = "asked" <=> pc[p] = "asked")
    BY <2>1 DEF Engaged
  <2> QED  BY <2>1, <2>2, <2>3, <2>4, <2>5, RowsKept
<1>4. CASE Crash
  <2>1. \A p \in Ops : pc'[p] \in {"none", "done"} /\ (pc'[p] = "none" => pc[p] = "none")
    BY <1>4 DEF Crash
  <2>2. UNCHANGED <<route, op>> /\ \A t \in Tunnels : closing'[t] = None
    BY <1>4 DEF Crash
  <2>3. StatusFits'  BY <2>1, <2>2, LabelFacts DEF StatusFits
  <2>4. \A p \in Ops : ~Engaged(p)'  BY <2>1, LabelFacts DEF Engaged
  <2> QED  BY <2>2, <2>3, <2>4 DEF RowsFit
<1>5. CASE Restart
  <2>1. /\ \A p \in Ops : op'[p].r = op[p].r /\ op'[p].kind = op[p].kind
        /\ UNCHANGED <<route, closing, pc>>
    BY <1>5 DEF Restart, Typed, TypeOK
  <2>2. \A p \in Ops : pc[p] \in {"none", "done"}  BY <1>5 DEF Restart, StatusFits
  <2>3. StatusFits'
    BY <1>5, <2>1, <2>2, LabelFacts DEF StatusFits, Restart, Typed, TypeOK
  <2>4. \A p \in Ops : ~Engaged(p)'  BY <2>1, <2>2, LabelFacts DEF Engaged
  <2> QED  BY <2>1, <2>3, <2>4 DEF RowsFit
<1> QED  BY <1>1, <1>2, <1>3, <1>4, <1>5

LEMMA InvStep ==
    ASSUME Inv, [Next]_vars
    PROVE  Inv'
<1>1. Typed'  BY TypedStep DEF Inv
<1>2. CASE UNCHANGED vars
  BY <1>2 DEF vars, Inv, StatusFits, RowsFit, Engaged, Creating, TypeOK, Typed, TriesLeft
<1>3. CASE Next
  <2>1. StatusFits' /\ RowsFit'  BY <1>3, InvAsk, InvAccept, InvOther DEF Next
  <2> QED  BY <1>1, <2>1 DEF Inv
<1> QED  BY <1>2, <1>3

LEMMA InvAlways == Spec => []Inv
BY InvInit, InvStep, PTL DEF Spec

-----------------------------------------------------------------------------
(* What the invariant gives.                                               *)

(* A step that adds no live route creates no conflict.                     *)
LEMMA NoNewConflict ==
    ASSUME Typed, UniqueLiveRoutes, \A r \in Routes : Live(r)' => Live(r)
    PROVE  UniqueLiveRoutes'
BY DEF UniqueLiveRoutes, Conflict

LEMMA OtherRows ==
    ASSUME Inv,
           \/ \E o \in Ops : Refuse(o) \/ Task(o)
           \/ \E t \in Tunnels : LoadTunnel(t) \/ CloseTunnel(t) \/ KeepTunnel(t)
           \/ Crash \/ Restart
           \/ \E o \in Ops, r \in Routes : AskCreate(o, r) \/ AskDelete(o, r) \/ AskRetry(o, r)
    PROVE  \A r \in Routes : route'[r].st \in {route[r].st, "deleted"}
<1>1. ASSUME NEW o \in Ops, Task(o)
      PROVE  \A r \in Routes : route'[r].st = route[r].st
  BY <1>1, TaskShape DEF Inv
<1>2. ASSUME NEW t \in Tunnels, CloseTunnel(t)
      PROVE  \A r \in Routes : route'[r].st \in {route[r].st, "deleted"}
  BY <1>2 DEF CloseTunnel
<1> QED
  BY <1>1, <1>2 DEF Refuse, db, LoadTunnel, KeepTunnel, Crash, Restart, AskCreate, AskDelete,
     AskRetry, Ask

LEMMA UniqueStep ==
    ASSUME Inv, UniqueLiveRoutes, [Next]_vars
    PROVE  UniqueLiveRoutes'
<1>1. CASE UNCHANGED vars  BY <1>1 DEF vars, UniqueLiveRoutes, Live, Conflict
<1>2. ASSUME NEW o \in Ops, Accept(o)
      PROVE  UniqueLiveRoutes'
  <2> DEFINE r == op[o].r
  <2>1. Accepted(o)  BY <1>2, AcceptShape
  <2>2. CASE op[o].kind = "create"
    <3>1. ~Conflict(r) /\ r \in Routes  BY <1>2, <2>1, <2>2 DEF Accept, Accepted
    <3>2. \A q \in Routes \ {r} : Live(q)' <=> Live(q)  BY <2>1 DEF Accepted, Live
    <3> QED  BY <3>1, <3>2 DEF UniqueLiveRoutes, Conflict
  <2>3. CASE op[o].kind # "create"
    <3>1. \A q \in Routes : Live(q)' => Live(q)  BY <2>1, <2>3 DEF Accepted, Live
    <3> QED  BY <3>1, NoNewConflict DEF Inv
  <2> QED  BY <2>2, <2>3
<1>3. CASE Next /\ \A o \in Ops : ~Accept(o)
  <2>1. \A r \in Routes : route'[r].st \in {route[r].st, "deleted"}
    BY <1>3, OtherRows DEF Next
  <2>2. \A r \in Routes : Live(r)' => Live(r)  BY <2>1 DEF Live
  <2> QED  BY <2>2, NoNewConflict DEF Inv
<1> QED  BY <1>1, <1>2, <1>3

(* No two live routes of a tunnel ever share a CIDR, however requests      *)
(* interleave between their check (route_service.py:176) and the commit.   *)
THEOREM UniqueRoutes == Spec => []UniqueLiveRoutes
<1>1. Init => UniqueLiveRoutes  BY DEF Init, UniqueLiveRoutes, Live
<1>2. Inv /\ UniqueLiveRoutes /\ [Next]_vars => UniqueLiveRoutes'  BY UniqueStep
<1> QED  BY <1>1, <1>2, InvAlways, PTL DEF Spec

(* Nothing brings a soft-deleted route back, whatever tasks, retries and   *)
(* tunnel deletes were under way when it went.                             *)
THEOREM DeletedForGood == Spec => NoResurrection
<1>1. ASSUME Inv, [Next]_vars, NEW r \in Routes, route[r].st = "deleted"
      PROVE  route'[r].st = "deleted"
  <2>1. CASE UNCHANGED vars  BY <1>1, <2>1 DEF vars
  <2>2. ASSUME NEW o \in Ops, Accept(o)
        PROVE  route'[r].st = "deleted"
    <3>1. Accepted(o)  BY <1>1, <2>2, AcceptShape
    <3> QED  BY <1>1, <3>1 DEF Accepted
  <2>3. CASE Next /\ \A o \in Ops : ~Accept(o)
    BY <1>1, <2>3, OtherRows DEF Next
  <2> QED  BY <1>1, <2>1, <2>2, <2>3
<1>2. Inv /\ [Next]_vars => [\A r \in Routes : route[r].st = "deleted"
                                             => route'[r].st = "deleted"]_vars
  BY <1>1
<1> QED  BY <1>2, InvAlways, PTL DEF Spec, NoResurrection

(* As long as the failure of a task can be recorded, an operation is       *)
(* pending or running exactly while a task works for it, also after a      *)
(* crash and a restart.                                                    *)
THEOREM NoneOrphaned == ("unrecorded" \notin Faults) => (Spec => []NoOrphanOps)
<1> SUFFICES ASSUME "unrecorded" \notin Faults
             PROVE  Spec => []NoOrphanOps
  OBVIOUS
<1> DEFINE Bound == \A o \in Ops : up /\ op[o].st \in {"pending", "running"} => pc[o] \in Alive
<1>1. Init => Bound  BY DEF Init, NoOp
<1>2. ASSUME Inv, Bound, [Next]_vars
      PROVE  Bound'
  <2> USE DEF Inv
  <2>1. CASE UNCHANGED vars  BY <1>2, <2>1 DEF vars
  <2>2. ASSUME NEW o \in Ops, NEW r \in Routes, NEW kind, Ask(o, kind, r)
        PROVE  Bound'
    BY <1>2, <2>2 DEF Ask, Goto, NoOp, Typed, TypeOK
  <2>3. ASSUME NEW o \in Ops, Accept(o)
        PROVE  Bound'
    <3>1. Accepted(o)  BY <1>2, <2>3, AcceptShape
    <3> QED  BY <1>2, <3>1, LabelFacts DEF Accepted, Typed, TypeOK
  <2>4. ASSUME NEW o \in Ops, Refuse(o)
        PROVE  Bound'
    <3>1. op[o].st = "none"  BY <1>2, <2>4 DEF Refuse, At, StatusFits
    <3> QED  BY <1>2, <2>4, <3>1 DEF Refuse, Goto, db, Typed, TypeOK
  <2>5. ASSUME NEW o \in Ops, Task(o)
        PROVE  Bound'
    <3>1. \A p \in Ops \ {o} : op'[p] = op[p] /\ pc'[p] = pc[p]
      BY <1>2, <2>5, TaskShape DEF Typed, TypeOK, Goto
    <3>2. CASE Finish(o) \/ MarkFailed(o)
      <4>1. op'[o].st \notin {"pending", "running"}
        BY <1>2, <3>2 DEF Finish, MarkFailed, Typed, TypeOK
      <4> QED  BY <1>2, <2>5, <3>1, <4>1, TaskShape
    <3>3. CASE ~Finish(o) /\ ~MarkFailed(o)
      <4>1. \E l \in Alive : Goto(o, l)
        BY <2>5, <3>3, LabelFacts
        DEF Task, Start, TakeLock, LockBusy, Stage, WorkOf, EnsureRepo, EditRoutes,
            CommitRoutes, SyncRelease, RunPlan, RunApply, StepFails, DbFails, Tree, Stages, Working
      <4>2. pc'[o] \in Alive  BY <1>2, <4>1 DEF Goto, Typed, TypeOK
      <4> QED  BY <1>2, <2>5, <3>1, <4>2, TaskShape
    <3> QED  BY <3>2, <3>3
  <2>6. ASSUME NEW t \in Tunnels, LoadTunnel(t) \/ CloseTunnel(t) \/ KeepTunnel(t)
        PROVE  Bound'
    BY <1>2, <2>6 DEF LoadTunnel, CloseTunnel, KeepTunnel
  <2>7. CASE Crash \/ Restart
    BY <1>2, <2>7 DEF Crash, Restart, Typed, TypeOK
  <2> QED
    BY <1>2, <2>1, <2>2, <2>3, <2>4, <2>5, <2>6, <2>7 DEF Next, AskCreate, AskDelete, AskRetry
<1>3. Inv /\ Bound => NoOrphanOps
  BY LabelFacts DEF Inv, StatusFits, NoOrphanOps
<1> HIDE DEF Bound
<1>4. Inv /\ Bound /\ [Next]_vars => Bound'  BY <1>2
<1> QED  BY <1>1, <1>3, <1>4, InvAlways, PTL DEF Spec

-----------------------------------------------------------------------------
(* RouteOps implements RouteContract.                                      *)

Status == [o \in Ops |-> op[o].st]
Target == [o \in Ops |-> IF op[o].st = "none" THEN None ELSE op[o].r]
Showing == [r \in Routes |-> Shown(r)]

(* Shown by the two columns it reads.                                      *)
LEMMA ShownBy ==
    ASSUME Typed, NEW r \in Routes
    PROVE  /\ Shown(r) = "absent" <=> route[r].st = "none"
           /\ Shown(r) = "gone" <=> route[r].st = "deleted"
           /\ Live(r) => Shown(r) = IF route[r].sync \in {"synced", "failed"}
                                    THEN route[r].sync ELSE "working"
BY DEF Shown, Live, Typed, TypeOK

(* Steps that change neither operations nor what is shown are stutters.    *)
LEMMA ContractStutter ==
    ASSUME \A o \in Ops : /\ op'[o].st = op[o].st
                          /\ op[o].st # "none" => op'[o].r = op[o].r,
           \A r \in Routes : route'[r] = route[r]
    PROVE  UNCHANGED <<Status, Target, Showing>>
BY DEF Status, Target, Showing, Shown, Live

(* Writing a sync status to a row is Show for its route.                   *)
LEMMA ShowRow ==
    ASSUME Typed, Typed', NEW r \in Routes, NEW s \in SyncStates,
           route' = [route EXCEPT ![r].sync = s]
    PROVE  Contract!Show(r, IF s \in {"synced", "failed"} THEN s ELSE "working")
<1> DEFINE m == IF s \in {"synced", "failed"} THEN s ELSE "working"
<1>1. \A q \in Routes : /\ route'[q].st = route[q].st
                        /\ route'[q].sync = IF q = r THEN s ELSE route[q].sync
  BY SyncOnly
<1>2. \A q \in Routes \ {r} : Shown(q)' = Shown(q)  BY <1>1 DEF Shown, Live
<1>3. Shown(r)' = IF Shown(r) \in {"absent", "gone"} THEN Shown(r) ELSE m
  <2>1. CASE Live(r)
    <3>1. Shown(r) \notin {"absent", "gone"}  BY <2>1, ShownBy DEF Live
    <3> QED  BY <1>1, <2>1, <3>1 DEF Shown, Live
  <2>2. CASE ~Live(r)
    <3>1. route[r].st \in {"none", "deleted"}  BY <2>2 DEF Live, Typed, TypeOK
    <3> QED  BY <1>1, <3>1 DEF Shown
  <2> QED  BY <2>1, <2>2
<1> HIDE DEF m
<1>4. Showing' = IF Showing[r] \in {"absent", "gone"} THEN Showing
                 ELSE [Showing EXCEPT ![r] = m]
  BY <1>2, <1>3 DEF Showing
<1> QED  BY <1>4 DEF Contract!Show, Showing, m

(* Ending or starting an operation is Move for it.                         *)
LEMMA MoveOp ==
    ASSUME Typed, NEW o \in Ops, op[o].st # "none", NEW to, to # "none",
           op' = [op EXCEPT ![o].st = to]
    PROVE  Contract!Move(o, op[o].st, to)
<1>1. \A p \in Ops : op'[p].st = IF p = o THEN to ELSE op[p].st
  BY DEF Typed, TypeOK
<1>2. \A p \in Ops : op'[p].r = op[p].r  BY DEF Typed, TypeOK
<1>3. Status[o] = op[o].st /\ Status' = [Status EXCEPT ![o] = to]  BY <1>1 DEF Status
<1>4. Target' = Target  BY <1>1, <1>2 DEF Target
<1> QED  BY <1>3, <1>4 DEF Contract!Move, Status, Target

LEMMA ContractInit ==
    ASSUME Init
    PROVE  Contract!Init
BY DEF Init, Contract!Init, NoOp, Shown

LEMMA ContractAccept ==
    ASSUME Inv, Inv', NEW o \in Ops, Accept(o)
    PROVE  Contract!Next
<1>1. Accepted(o)  BY AcceptShape
<1>2. PICK r \in Routes : r = op[o].r  BY <1>1 DEF Accepted
<1>3. Contract!Request(o, r)
  <2>1. \A p \in Ops : /\ op'[p].st = IF p = o THEN "pending" ELSE op[p].st
                       /\ op'[p].r = op[p].r
    BY <1>1 DEF Accepted, Inv, Typed, TypeOK
  <2>2. op[o].st = "none"  BY <1>1 DEF Accepted
  <2>3. Status[o] = "none" /\ Status' = [Status EXCEPT ![o] = "pending"]
    BY <2>1, <2>2 DEF Status
  <2>4. Target' = [Target EXCEPT ![o] = r]  BY <1>2, <2>1, <2>2 DEF Target
  <2> QED  BY <2>3, <2>4 DEF Contract!Request, Status, Target
<1>4. \A q \in Routes \ {r} : Shown(q)' = Shown(q)  BY <1>1, <1>2 DEF Accepted, Shown, Live
<1>5. Showing' = [Showing EXCEPT ![r] = Shown(r)']  BY <1>2, <1>4 DEF Showing
<1>6. Showing[r] = Shown(r)  BY <1>2 DEF Showing
<1>7. CASE op[o].kind = "create"
  <2>1. Shown(r) = "absent" /\ Shown(r)' = "working"
    BY <1>1, <1>2, <1>7 DEF Accepted, Shown, Live
  <2>2. Contract!Create(o, r)  BY <1>3, <1>5, <1>6, <2>1 DEF Contract!Create, Showing
  <2> QED  BY <1>2, <2>2 DEF Contract!Next
<1>8. CASE op[o].kind = "delete"
  <2>1. Shown(r) # "absent" /\ Shown(r)' = "gone"
    BY <1>1, <1>2, <1>8, ShownBy DEF Accepted, Shown, Inv
  <2>2. Contract!Delete(o, r)  BY <1>3, <1>5, <1>6, <2>1 DEF Contract!Delete, Showing
  <2> QED  BY <1>2, <2>2 DEF Contract!Next
<1>9. CASE op[o].kind = "retry"
  <2>1. route'[r].st = route[r].st /\ route'[r].sync = "pending" /\ route[r].st # "none"
    BY <1>1, <1>2, <1>9 DEF Accepted
  <2>2. route[r].st \in {"live", "deleted"}  BY <1>2, <2>1 DEF Inv, Typed, TypeOK
  <2>3. Shown(r) # "absent"  BY <1>2, <2>1, ShownBy DEF Inv
  <2>4. Shown(r)' = IF Shown(r) = "gone" THEN Shown(r) ELSE "working"
    <3>1. CASE route[r].st = "live"
      <4>1. Shown(r) # "gone"  BY <1>2, <3>1, ShownBy DEF Inv
      <4>2. Shown(r)' = "working"  BY <2>1, <3>1 DEF Shown
      <4> QED  BY <4>1, <4>2
    <3>2. CASE route[r].st = "deleted"
      BY <2>1, <3>2 DEF Shown
    <3> QED  BY <2>2, <3>1, <3>2
  <2>5. Showing' = IF Showing[r] \in {"absent", "gone"} THEN Showing
                   ELSE [Showing EXCEPT ![r] = "working"]
    BY <1>4, <1>5, <1>6, <2>3, <2>4 DEF Showing
  <2>6. Contract!Retry(o, r)
    BY <1>3, <1>6, <2>3, <2>5 DEF Contract!Retry, Contract!Show, Showing
  <2> QED  BY <1>2, <2>6 DEF Contract!Next
<1> QED  BY <1>1, <1>7, <1>8, <1>9 DEF Accepted

(* The row of an accepted delete is deleted.                               *)
DeletesHold == \A o \in Ops : op[o].kind = "delete" /\ op[o].st # "none"
                   => op[o].r \in Routes /\ route[op[o].r].st = "deleted"

LEMMA DeletesStep ==
    ASSUME Inv, DeletesHold, [Next]_vars
    PROVE  DeletesHold'
<1> USE DEF Inv
<1>1. CASE UNCHANGED vars  BY <1>1 DEF vars, DeletesHold
<1>2. ASSUME NEW o \in Ops, Accept(o)
      PROVE  DeletesHold'
  <2>1. Accepted(o)  BY <1>2, AcceptShape
  <2>2. \A p \in Ops : /\ op'[p].r = op[p].r /\ op'[p].kind = op[p].kind
                       /\ p # o => op'[p].st = op[p].st
    BY <2>1 DEF Accepted, Typed, TypeOK
  <2>3. \A q \in Routes : route[q].st = "deleted" => route'[q].st = "deleted"
    BY <2>1 DEF Accepted
  <2>4. op[o].kind = "delete" => op[o].r \in Routes /\ route'[op[o].r].st = "deleted"
    BY <2>1 DEF Accepted
  <2> QED  BY <2>2, <2>3, <2>4 DEF DeletesHold
<1>3. CASE Next /\ \A o \in Ops : ~Accept(o)
  <2>1. \A r \in Routes : route'[r].st \in {route[r].st, "deleted"}
    BY <1>3, OtherRows DEF Next
  <2>2. \A p \in Ops : op'[p].kind = "delete" /\ op'[p].st # "none"
                      => op[p].kind = "delete" /\ op[p].st # "none" /\ op'[p].r = op[p].r
    <3>1. ASSUME NEW o \in Ops, Task(o)
          PROVE  \A p \in Ops : op'[p].r = op[p].r /\ op'[p].kind = op[p].kind
                               /\ (op'[p].st # "none" => op[p].st # "none")
      BY <3>1, TaskShape, TaskStatus DEF Typed, TypeOK
    <3>2. ASSUME NEW o \in Ops, NEW r \in Routes, NEW kind, Ask(o, kind, r)
          PROVE  \A p \in Ops : op'[p].st # "none" => op'[p] = op[p]
      BY <3>2 DEF Ask, Typed, TypeOK
    <3>3. ASSUME Restart
          PROVE  \A p \in Ops : op'[p].r = op[p].r /\ op'[p].kind = op[p].kind
                               /\ (op'[p].st # "none" => op[p].st # "none")
      BY <3>3 DEF Restart, Typed, TypeOK
    <3>4. CASE UNCHANGED op  BY <3>4
    <3> QED
      BY <1>3, <3>1, <3>2, <3>3, <3>4 DEF Next, AskCreate, AskDelete, AskRetry, Refuse, db,
         LoadTunnel, CloseTunnel, KeepTunnel, Crash
  <2> QED  BY <2>1, <2>2 DEF DeletesHold
<1> QED  BY <1>1, <1>2, <1>3

LEMMA DeletesAlways == Spec => []DeletesHold
<1>1. Init => DeletesHold  BY DEF Init, DeletesHold, NoOp
<1>2. Inv /\ DeletesHold /\ [Next]_vars => DeletesHold'  BY DeletesStep
<1> QED  BY <1>1, <1>2, InvAlways, PTL DEF Spec

LEMMA ContractTask ==
    ASSUME Inv, Inv', DeletesHold, NEW o \in Ops, Task(o)
    PROVE  Contract!Next \/ UNCHANGED <<Status, Target, Showing>>
<1> DEFINE r == op[o].r
<1> USE DEF Inv
<1>1. /\ r \in Routes /\ op[o].st \in {"pending", "running"}
      /\ pc[o] \notin {"start", "fail"} => op[o].st = "running"
  BY TaskShape, TaskStatus
<1>2. Target[o] = r  BY <1>1 DEF Target
<1>3. CASE Start(o)
  <2>1. op[o].st = "pending" /\ op' = [op EXCEPT ![o].st = "running"]
    BY <1>3 DEF Start, At, StatusFits
  <2>2. Contract!Move(o, "pending", "running")  BY <2>1, MoveOp
  <2>3. Showing' = Showing  BY <1>3 DEF Start, Showing, Shown, Live
  <2>4. Contract!Begin(o)  BY <2>2, <2>3 DEF Contract!Begin, Showing
  <2> QED  BY <2>4 DEF Contract!Next
<1>4. CASE Stage(o)
  <2>1. /\ pc[o] \in Stages /\ op' = op
        /\ route' = [route EXCEPT ![r].sync = pc[o]]
    BY <1>4 DEF Stage
  <2>2. op[o].st = "running"  BY <1>1, <2>1 DEF Stages
  <2>3. op' = [op EXCEPT ![o].st = "running"]  BY <2>1, <2>2 DEF Typed, TypeOK
  <2>4. Contract!Move(o, "running", "running")  BY <2>2, <2>3, MoveOp
  <2>5. pc[o] \in SyncStates /\ pc[o] \notin {"synced", "failed"}
    BY <2>1 DEF SyncStates, Stages
  <2>6. Contract!Show(r, "working")  BY <1>1, <2>1, <2>5, ShowRow
  <2>7. Contract!Report(o)  BY <1>2, <2>4, <2>6 DEF Contract!Report, Target
  <2> QED  BY <2>7 DEF Contract!Next
<1>5. CASE Finish(o)
  <2>1. op' = [op EXCEPT ![o].st = "completed"] /\ op[o].st = "running"
    BY <1>1, <1>5 DEF Finish, At
  <2>2. Contract!Move(o, "running", "completed")  BY <2>1, MoveOp
  <2>3. Contract!Show(r, "synced")
    <3>1. CASE op[o].kind = "delete"
      <4>1. route' = route  BY <1>5, <3>1 DEF Finish
      <4>2. route[r].st = "deleted"  BY <2>1, <3>1 DEF DeletesHold
      <4>3. Shown(r) = "gone"  BY <4>2 DEF Shown
      <4>4. Showing' = Showing  BY <4>1 DEF Showing, Shown, Live
      <4>5. Showing[r] = "gone"  BY <1>1, <4>3 DEF Showing
      <4> QED  BY <4>4, <4>5 DEF Contract!Show, Showing
    <3>2. CASE op[o].kind # "delete"
      <4>1. route' = [route EXCEPT ![r].sync = "synced"]  BY <1>5, <3>2 DEF Finish
      <4>2. "synced" \in SyncStates  BY DEF SyncStates
      <4> QED  BY <1>1, <4>1, <4>2, ShowRow
    <3> QED  BY <3>1, <3>2
  <2>4. Contract!Complete(o)  BY <1>2, <2>2, <2>3 DEF Contract!Complete, Target
  <2> QED  BY <2>4 DEF Contract!Next
<1>6. CASE MarkFailed(o)
  <2>1. op[o].st \in Contract!InFlight  BY <1>1 DEF Contract!InFlight
  <2>2. CASE UNCHANGED <<op, route>>  BY <2>2, ContractStutter
  <2>3. CASE ~UNCHANGED <<op, route>>
    <3>1. /\ op' = [op EXCEPT ![o].st = "failed"]
          /\ route' = [route EXCEPT ![r].sync = "failed"]
      BY <1>6, <2>3 DEF MarkFailed
    <3>2. Contract!Move(o, op[o].st, "failed")  BY <1>1, <3>1, MoveOp
    <3>3. Contract!Show(r, "failed")  BY <1>1, <3>1, ShowRow DEF SyncStates
    <3>4. Contract!Fail(o)  BY <1>2, <2>1, <3>2, <3>3 DEF Contract!Fail, Target
    <3> QED  BY <3>4 DEF Contract!Next
  <2> QED  BY <2>2, <2>3
<1>7. CASE ~(Start(o) \/ Stage(o) \/ Finish(o) \/ MarkFailed(o))
  <2>1. UNCHANGED <<op, route>>
    BY <1>7 DEF Task, TakeLock, LockBusy, EnsureRepo, EditRoutes, CommitRoutes,
       SyncRelease, RunPlan, RunApply, StepFails, DbFails, Tree, db
  <2> QED  BY <2>1, ContractStutter
<1> QED  BY <1>3, <1>4, <1>5, <1>6, <1>7

LEMMA ContractTunnel ==
    ASSUME Inv, NEW t \in Tunnels, LoadTunnel(t) \/ CloseTunnel(t) \/ KeepTunnel(t)
    PROVE  Contract!Next \/ UNCHANGED <<Status, Target, Showing>>
<1>1. CASE LoadTunnel(t) \/ KeepTunnel(t)
  <2>1. UNCHANGED <<op, route>>  BY <1>1 DEF LoadTunnel, KeepTunnel
  <2> QED  BY <2>1, ContractStutter
<1>2. CASE CloseTunnel(t)
  <2> DEFINE R == closing[t]
  <2>1. R \in SUBSET Routes /\ \A r \in R : route[r].st # "none"
    BY <1>2 DEF CloseTunnel, Inv, RowsFit, Typed, TypeOK
  <2>2. \A r \in R : Showing[r] # "absent"  BY <2>1, ShownBy DEF Showing, Inv
  <2>3. UNCHANGED op /\ \A r \in Routes :
          IF r \in R THEN route'[r].st = "deleted" ELSE route'[r] = route[r]
    BY <1>2 DEF CloseTunnel
  <2>4. \A r \in Routes : Shown(r)' = IF r \in R THEN "gone" ELSE Shown(r)
    BY <2>3 DEF Shown, Live
  <2>5. Showing' = [r \in Routes |-> IF r \in R THEN "gone" ELSE Showing[r]]
    BY <2>4 DEF Showing
  <2>6. UNCHANGED <<Status, Target>>  BY <2>3 DEF Status, Target
  <2>7. Contract!Close(R)
    BY <2>2, <2>5, <2>6 DEF Contract!Close, Showing, Status, Target
  <2> QED  BY <2>1, <2>7 DEF Contract!Next
<1> QED  BY <1>1, <1>2

LEMMA ContractRestart ==
    ASSUME Inv, Restart
    PROVE  Contract!Next
<1>1. \A o \in Ops : /\ op'[o].st = IF op[o].st \in {"pending", "running"}
                                     THEN "failed" ELSE op[o].st
                     /\ op'[o].r = op[o].r
  BY DEF Restart, Inv, Typed, TypeOK
<1>2. Status' = [o \in Ops |-> IF Status[o] \in {"pending", "running"}
                               THEN "failed" ELSE Status[o]]
  BY <1>1 DEF Status
<1>3. Target' = Target  BY <1>1 DEF Target
<1>4. Showing' = Showing  BY DEF Restart, Showing, Shown, Live
<1>5. Contract!Interrupt
  BY <1>2, <1>3, <1>4 DEF Contract!Interrupt, Contract!InFlight, Status, Target, Showing
<1> QED  BY <1>5 DEF Contract!Next

LEMMA ContractStep ==
    ASSUME Inv, Inv', DeletesHold, [Next]_vars
    PROVE  [Contract!Next]_(Contract!contract)
<1> SUFFICES Contract!Next \/ UNCHANGED <<Status, Target, Showing>>
  BY DEF Contract!contract, Status, Target, Showing
<1>1. CASE UNCHANGED vars  BY <1>1, ContractStutter DEF vars
<1>2. ASSUME NEW o \in Ops, NEW r \in Routes, NEW kind, Ask(o, kind, r)
      PROVE  UNCHANGED <<Status, Target, Showing>>
  <2>1. \A p \in Ops : op'[p].st = op[p].st /\ (op[p].st # "none" => op'[p].r = op[p].r)
    BY <1>2 DEF Ask, NoOp, Inv, Typed, TypeOK
  <2>2. route' = route  BY <1>2 DEF Ask
  <2> QED  BY <2>1, <2>2, ContractStutter
<1>3. ASSUME NEW o \in Ops, Refuse(o)
      PROVE  UNCHANGED <<Status, Target, Showing>>
  <2>1. UNCHANGED <<op, route>>  BY <1>3 DEF Refuse, db
  <2> QED  BY <2>1, ContractStutter
<1>4. CASE Crash
  <2>1. UNCHANGED <<op, route>>  BY <1>4 DEF Crash
  <2> QED  BY <2>1, ContractStutter
<1> QED
  BY <1>1, <1>2, <1>3, <1>4, ContractAccept, ContractTask, ContractTunnel, ContractRestart
  DEF Next, AskCreate, AskDelete, AskRetry

(* RouteOps implements RouteContract: whatever interleaves, fails, crashes *)
(* or restarts, each step is one a client was promised, or shows nothing.  *)
THEOREM ContractKept == Spec => KeepsContract
<1>1. Init => Contract!Init  BY ContractInit
<1>2. Inv /\ Inv' /\ DeletesHold /\ [Next]_vars => [Contract!Next]_(Contract!contract)
  BY ContractStep
<1> QED  BY <1>1, <1>2, InvAlways, DeletesAlways, PTL DEF Spec, KeepsContract, Contract!Spec

-----------------------------------------------------------------------------
(* No route is stuck while nothing crashes and failures can be recorded.   *)

(* A row at rest is synced or failed; any other has a task at work on it.  *)
Settled(r) == route[r].sync \in {"synced", "failed"}
Worked(r)  == \E o \in Ops : pc[o] \in Alive /\ op[o].r = r
Attended   == \A r \in Routes : Live(r) => Settled(r) \/ Worked(r)

(* Steps that leave the rows and the tasks alone, or only delete rows.     *)
LEMMA AttendedKept ==
    ASSUME Attended,
           \A r \in Routes : Live(r)' => route'[r] = route[r],
           \A o \in Ops : pc[o] \in Alive => pc'[o] \in Alive /\ op'[o].r = op[o].r
    PROVE  Attended'
BY DEF Attended, Settled, Worked, Live

LEMMA AttendedAccept ==
    ASSUME Inv, Attended, NEW o \in Ops, Accept(o)
    PROVE  Attended'
<1> DEFINE r == op[o].r
<1>1. Accepted(o)  BY AcceptShape
<1>2. \A p \in Ops : op'[p].r = op[p].r /\ (pc[p] \in Alive => pc'[p] \in Alive)
  BY <1>1, LabelFacts DEF Accepted, Inv, Typed, TypeOK
<1>3. pc'[o] \in Alive /\ op'[o].r = r
  BY <1>1, <1>2, LabelFacts DEF Accepted, Inv, Typed, TypeOK
<1>4. Worked(r)'  BY <1>3 DEF Worked
<1>5. \A q \in Routes \ {r} : route'[q] = route[q]  BY <1>1 DEF Accepted
<1> QED  BY <1>2, <1>4, <1>5 DEF Attended, Settled, Worked, Live

LEMMA AttendedTask ==
    ASSUME Inv, DeletesHold, Attended, "unrecorded" \notin Faults, NEW o \in Ops, Task(o)
    PROVE  Attended'
<1>0. PICK r \in Routes : r = op[o].r  BY TaskShape DEF Inv
<1>1. /\ r = op[o].r /\ pc[o] \in Alive
      /\ \A p \in Ops : op'[p].r = op[p].r /\ (p # o => pc'[p] = pc[p])
      /\ \A q \in Routes : route'[q].st = route[q].st
  BY <1>0, TaskShape DEF Inv, Typed, TypeOK, Goto
<1>2. \A q \in Routes \ {r} : route'[q] = route[q]
  BY <1>1 DEF Task, Start, TakeLock, LockBusy, Stage, EnsureRepo, EditRoutes, CommitRoutes,
     SyncRelease, RunPlan, RunApply, StepFails, Finish, DbFails, MarkFailed, Tree, db, Inv,
     Typed, TypeOK
<1>3. \A q \in Routes \ {r} : Worked(q) => Worked(q)'  BY <1>1 DEF Worked
<1>4. Live(r)' => Settled(r)' \/ Worked(r)'
  <2>1. CASE Finish(o) \/ MarkFailed(o)
    <3>1. CASE Finish(o) /\ op[o].kind = "delete"
      <4>1. op[o].st # "none"  BY <2>1, TaskStatus DEF Inv
      <4>2. route[r].st = "deleted"  BY <1>1, <3>1, <4>1 DEF DeletesHold
      <4> QED  BY <1>1, <4>2 DEF Live
    <3>2. CASE ~(Finish(o) /\ op[o].kind = "delete")
      <4>1. PICK s \in {"synced", "failed"} : route' = [route EXCEPT ![r].sync = s]
        BY <1>1, <2>1, <3>2 DEF Finish, MarkFailed
      <4>2. s \in SyncStates  BY DEF SyncStates
      <4>3. Typed  BY DEF Inv
      <4>4. \A q \in Routes : route'[q].sync = IF q = r THEN s ELSE route[q].sync
        BY <4>1, <4>2, <4>3, SyncOnly
      <4>5. route'[r].sync = s  BY <4>4
      <4> QED  BY <4>5 DEF Settled
    <3> QED  BY <3>1, <3>2
  <2>2. CASE ~(Finish(o) \/ MarkFailed(o))
    <3>1. \A s \in Stages : WorkOf[s] \in Alive
      BY LabelFacts DEF Stages, WorkOf
    <3>2. pc'[o] \in Alive
      BY <1>1, <2>2, <3>1, LabelFacts
      DEF Task, Start, TakeLock, LockBusy, Stage, EnsureRepo, EditRoutes, CommitRoutes,
          SyncRelease, RunPlan, RunApply, StepFails, DbFails, Tree, Goto, Stages, Inv, Typed, TypeOK
    <3> QED  BY <1>1, <3>2 DEF Worked
  <2> QED  BY <2>1, <2>2
<1> QED  BY <1>1, <1>2, <1>3, <1>4 DEF Attended, Settled, Live

LEMMA AttendedStep ==
    ASSUME Inv, DeletesHold, Attended, MaxCrashes = 0, "unrecorded" \notin Faults, [Next]_vars
    PROVE  Attended'
<1> USE DEF Inv
<1>1. CASE UNCHANGED vars  BY <1>1, AttendedKept DEF vars, Live
<1>2. ASSUME NEW o \in Ops, NEW r \in Routes, NEW kind, Ask(o, kind, r)
      PROVE  Attended'
  <2>1. pc[o] \notin Alive  BY <1>2, LabelFacts DEF Ask, NoOp, Typed, TypeOK
  <2>2. \A p \in Ops : pc[p] \in Alive => pc'[p] \in Alive /\ op'[p].r = op[p].r
    BY <1>2, <2>1 DEF Ask, Goto, Typed, TypeOK
  <2> QED  BY <1>2, <2>2, AttendedKept DEF Ask
<1>3. ASSUME NEW o \in Ops, Refuse(o)
      PROVE  Attended'
  <2>1. \A p \in Ops : pc[p] \in Alive => pc'[p] \in Alive /\ op'[p].r = op[p].r
    BY <1>3, LabelFacts DEF Refuse, At, Goto, db, Typed, TypeOK
  <2> QED  BY <1>3, <2>1, AttendedKept DEF Refuse, db
<1>4. ASSUME NEW t \in Tunnels, LoadTunnel(t) \/ CloseTunnel(t) \/ KeepTunnel(t)
      PROVE  Attended'
  <2>1. UNCHANGED <<op, pc>>  BY <1>4 DEF LoadTunnel, CloseTunnel, KeepTunnel
  <2>2. \A r \in Routes : Live(r)' => route'[r] = route[r]
    BY <1>4 DEF LoadTunnel, CloseTunnel, KeepTunnel, Live
  <2> QED  BY <2>1, <2>2, AttendedKept
<1>5. ~Crash  BY DEF Crash, Typed, TypeOK
<1>6. CASE Restart
  <2>1. \A p \in Ops : pc'[p] = pc[p] /\ op'[p].r = op[p].r
    BY <1>6 DEF Restart, Typed, TypeOK
  <2> QED  BY <1>6, <2>1, AttendedKept DEF Restart
<1> QED
  BY <1>1, <1>2, <1>3, <1>4, <1>5, <1>6, AttendedAccept, AttendedTask
  DEF Next, AskCreate, AskDelete, AskRetry

(* While the process does not crash and every failure can be recorded, a   *)
(* live route shows pending or a stage only as long as a task works on it: *)
(* the two hypotheses are the ones without which main.py:48 leaves the row *)
(* behind the operation it fails.                                          *)
THEOREM NoneStuck ==
    MaxCrashes = 0 /\ "unrecorded" \notin Faults => (Spec => []NoStuckRoute)
<1> SUFFICES ASSUME MaxCrashes = 0, "unrecorded" \notin Faults
             PROVE  Spec => []NoStuckRoute
  OBVIOUS
<1>1. Init => Attended  BY DEF Init, Attended, Live
<1>2. Inv /\ DeletesHold /\ Attended /\ [Next]_vars => Attended'  BY AttendedStep
<1>3. Attended => NoStuckRoute  BY DEF Attended, NoStuckRoute, Settled, Worked
<1> QED  BY <1>1, <1>2, <1>3, InvAlways, DeletesAlways, PTL DEF Spec

-----------------------------------------------------------------------------
(* What the infrastructure routes, when operations follow one another and   *)
(* every route has a CIDR of its own.                                       *)

OwnCidrs == \A q, r \in Routes : CidrOf[q] = CidrOf[r] => q = r

(* One request or task at a time.                                           *)
Solo == \A o, p \in Ops : Engaged(o) /\ Engaged(p) => o = p

(* A plan is waiting to be applied.                                         *)
Planned == \E o \in Ops : pc[o] \in {"applying", "apply"}

(* Both branches, the work tree and the infrastructure agree on a CIDR, and *)
(* so does the plan that is going to be applied.                            *)
Everywhere(c) == /\ c \in infra /\ c \in git.base /\ c \in git.release /\ c \in git.file
                 /\ Planned => c \in plan
Nowhere(c)    == /\ c \notin infra /\ c \notin git.base /\ c \notin git.release
                 /\ c \notin git.file
                 /\ Planned => c \notin plan

Synced(r)  == Live(r) /\ route[r].sync = "synced"
Removed(o) == op[o].kind = "delete" /\ op[o].st = "completed"
Served     == /\ \A r \in Routes : Synced(r) => Everywhere(CidrOf[r])
              /\ \A d \in Ops : Removed(d) => Nowhere(CidrOf[op[d].r])

(* What is at work is not settled yet, and nobody works on a removed route. *)
Untouched == \A o \in Ops : Engaged(o) =>
    /\ pc[o] \in Alive => ~Synced(op[o].r)
    /\ \A d \in Ops : Removed(d) => op[d].r # op[o].r

(* How far a task has brought its CIDR: into the file, the base branch, the *)
(* release branch, the plan, the infrastructure.                            *)
Published    == {"planning", "plan", "applying", "apply", "finish"}
Meant(o, S)  == CidrOf[op[o].r] \in S <=> op[o].kind # "delete"
Onway(o) ==
    /\ pc[o] \in {"pushing", "edit", "commit", "release"} => git.head = "base"
    /\ pc[o] = "commit" => Meant(o, git.file)
    /\ pc[o] \in {"release"} \cup Published => Meant(o, git.base) /\ git.file = git.base
    /\ pc[o] \in Published => git.release = git.base
    /\ pc[o] \in {"applying", "apply"} => Meant(o, plan)
    /\ pc[o] = "finish" => Meant(o, infra)

SerialInv == Solo /\ Served /\ Untouched /\ \A o \in Ops : Onway(o)

(* The labels of Onway are of tasks.                                        *)
LEMMA OnwayLabels ==
    /\ {"pushing", "edit", "commit", "release"} \cup Published \subseteq Alive
    /\ {"applying", "apply"} \subseteq Published
BY DEF Published, Alive, Working, Stages

(* Steps that change no file, and end or leave alone what is at work.       *)
LEMMA SerialKept ==
    ASSUME Typed, SerialInv, UNCHANGED world,
           \A r \in Routes : Synced(r)' => Synced(r),
           \A p \in Ops : Removed(p)' => Removed(p) /\ op'[p].r = op[p].r,
           \A p \in Ops : Engaged(p)' => /\ pc'[p] = pc[p]
                                         /\ op'[p].r = op[p].r /\ op'[p].kind = op[p].kind
    PROVE  SerialInv'
<1>1. \A p \in Ops : Engaged(p)' => Engaged(p)
  BY DEF Engaged
<1>2. Planned' => Planned
  BY OnwayLabels DEF Planned, Engaged
<1>3. \A c : (Everywhere(c) => Everywhere(c)') /\ (Nowhere(c) => Nowhere(c)')
  BY <1>2 DEF Everywhere, Nowhere, world
<1>4. Served'
  BY <1>3 DEF Served, SerialInv
<1>5. Solo'
  BY <1>1 DEF Solo, SerialInv
<1>6. ASSUME NEW o \in Ops, Engaged(o)'
      PROVE  /\ pc'[o] \in Alive => ~Synced(op[o].r)'
             /\ \A d \in Ops : Removed(d)' => op'[d].r # op'[o].r
  <2>1. Engaged(o) /\ pc'[o] = pc[o] /\ op'[o].r = op[o].r
    BY <1>1, <1>6
  <2>2. PICK r \in Routes : r = op[o].r
    BY <2>1, LabelFacts DEF Engaged, Typed, TypeOK
  <2>3. /\ pc[o] \in Alive => ~Synced(r)
        /\ \A d \in Ops : Removed(d) => op[d].r # r
    BY <2>1, <2>2 DEF Untouched, SerialInv
  <2>4. pc'[o] \in Alive => ~Synced(op[o].r)'
    <3>1. Synced(r)' => Synced(r)
      BY <2>2
    <3> QED
      BY <2>1, <2>2, <2>3, <3>1 DEF Synced, Live
  <2> QED
    BY <2>1, <2>2, <2>3, <2>4
<1>7. ASSUME NEW o \in Ops PROVE Onway(o)'
  <2>1. CASE Engaged(o)'
    <3>1. Onway(o) /\ pc'[o] = pc[o] /\ op'[o].r = op[o].r /\ op'[o].kind = op[o].kind
      BY <2>1 DEF SerialInv
    <3> QED
      BY <3>1 DEF Onway, Meant, world
  <2>2. CASE ~Engaged(o)'
    <3>1. pc'[o] \notin {"pushing", "edit", "commit", "release"} \cup Published
      BY <2>2, OnwayLabels DEF Engaged
    <3> QED
      BY <3>1 DEF Onway, Published
  <2> QED
    BY <2>1, <2>2
<1> QED
  BY <1>4, <1>5, <1>6, <1>7 DEF SerialInv, Untouched

(* Steps of the one request or task o that is at work, on its own route r.  *)
LEMMA SerialMove ==
    ASSUME Inv, DeletesHold, OwnCidrs, SerialInv,
           NEW o \in Ops, Engaged(o), NEW r \in Routes, r = op[o].r,
           \A p \in Ops : op'[p].r = op[p].r /\ op'[p].kind = op[p].kind,
           \A p \in Ops \ {o} : pc'[p] = pc[p] /\ op'[p].st = op[p].st,
           \A q \in Routes \ {r} : Synced(q)' => Synced(q),
           \A c \in Cidrs \ {CidrOf[r]} : /\ Everywhere(c) => Everywhere(c)'
                                          /\ Nowhere(c) => Nowhere(c)',
           Synced(r)' => Everywhere(CidrOf[r])' /\ pc'[o] \notin Alive,
           Removed(o)' => Nowhere(CidrOf[r])' /\ ~Engaged(o)',
           Onway(o)'
    PROVE  SerialInv'
<1>1. \A p \in Ops \ {o} : ~Engaged(p)
  BY DEF SerialInv, Solo
<1>2. \A p \in Ops \ {o} : ~Engaged(p)'
  BY <1>1 DEF Engaged
<1>3. Solo'
  BY <1>2 DEF Solo
<1>4. \A d \in Ops \ {o} : /\ Removed(d)' => Removed(d)
                           /\ Removed(d) => op[d].r \in Routes \ {r}
  <2>1. \A d \in Ops \ {o} : Removed(d)' => Removed(d)
    BY DEF Removed
  <2>2. \A d \in Ops : Removed(d) => op[d].r # r
    BY DEF SerialInv, Untouched
  <2>3. \A d \in Ops : Removed(d) => op[d].r \in Routes
    BY DEF Removed, DeletesHold
  <2> QED
    BY <2>1, <2>2, <2>3
<1>5. \A q \in Routes \ {r} : CidrOf[q] \in Cidrs \ {CidrOf[r]}
  BY DEF OwnCidrs, Cidrs
<1>6. ASSUME NEW q \in Routes, Synced(q)'
      PROVE  Everywhere(CidrOf[q])'
  <2>1. CASE q = r
    BY <1>6, <2>1
  <2>2. CASE q # r
    <3>1. Synced(q)
      BY <1>6, <2>2
    <3>2. Everywhere(CidrOf[q])
      BY <3>1 DEF SerialInv, Served
    <3> QED
      BY <1>5, <2>2, <3>2
  <2> QED
    BY <2>1, <2>2
<1>7. ASSUME NEW d \in Ops, Removed(d)'
      PROVE  Nowhere(CidrOf[op[d].r])'
  <2>1. CASE d = o
    <3>1. Nowhere(CidrOf[r])'
      BY <1>7, <2>1
    <3> QED
      BY <2>1, <3>1 DEF Nowhere
  <2>2. CASE d # o
    <3>1. Removed(d)
      BY <1>4, <1>7, <2>2
    <3>2. PICK q \in Routes \ {r} : q = op[d].r
      BY <1>4, <2>2, <3>1
    <3>3. Nowhere(CidrOf[q])
      BY <3>1, <3>2 DEF SerialInv, Served
    <3>4. Nowhere(CidrOf[q])'
      BY <1>5, <3>3
    <3> QED
      BY <3>2, <3>4 DEF Nowhere
  <2> QED
    BY <2>1, <2>2
<1>8. Served'
  BY <1>6, <1>7 DEF Served
<1>9. ASSUME NEW p \in Ops, Engaged(p)'
      PROVE  /\ pc'[p] \in Alive => ~Synced(op[p].r)'
             /\ \A d \in Ops : Removed(d)' => op'[d].r # op'[p].r
  <2>1. p = o
    BY <1>2, <1>9
  <2>2. pc'[o] \in Alive => ~Synced(op[o].r)'
    BY DEF Synced, Live
  <2>3. \A d \in Ops : Removed(d)' => op'[d].r # r
    BY <1>4, <1>9, <2>1
  <2> QED
    BY <2>1, <2>2, <2>3
<1>10. ASSUME NEW p \in Ops
       PROVE  Onway(p)'
  <2>1. CASE p = o
    BY <2>1
  <2>2. CASE p # o
    <3>1. pc'[p] \notin {"pushing", "edit", "commit", "release"} \cup Published
      BY <1>2, <2>2, OnwayLabels DEF Engaged
    <3> QED
      BY <3>1 DEF Onway, Published
  <2> QED
    BY <2>1, <2>2
<1> QED
  BY <1>3, <1>8, <1>9, <1>10 DEF SerialInv, Untouched

(* What SerialMove asks of the rows of the others.                          *)
LEMMA TaskMove ==
    ASSUME Inv, NEW o \in Ops, Task(o)
    PROVE  /\ Engaged(o) /\ op[o].r \in Routes /\ op[o].kind # "none"
           /\ \A p \in Ops : op'[p].r = op[p].r /\ op'[p].kind = op[p].kind
           /\ \A p \in Ops \ {o} : pc'[p] = pc[p] /\ op'[p].st = op[p].st
           /\ \A q \in Routes \ {op[o].r} : Synced(q)' => Synced(q)
           /\ pc'[o] \in Alive => ~Removed(o)'
<1>1. /\ pc[o] \in Alive /\ op[o].r \in Routes /\ op[o].kind # "none"
      /\ \A p \in Ops : op'[p].r = op[p].r /\ op'[p].kind = op[p].kind
      /\ \A p \in Ops \ {o} : pc'[p] = pc[p] /\ op'[p].st = op[p].st
  <2>1. PICK l : Goto(o, l)
    BY TaskShape DEF Inv
  <2>2. pc[o] \in Alive /\ (op' = op \/ \E st : op' = [op EXCEPT ![o].st = st])
    BY TaskShape DEF Inv
  <2>3. op[o].r \in Routes /\ op[o].kind # "none"
    BY <2>2, LabelFacts DEF Inv, Typed, TypeOK
  <2>4. \A p \in Ops \ {o} : pc'[p] = pc[p]
    BY <2>1 DEF Goto, Inv, Typed, TypeOK
  <2>5. /\ \A p \in Ops : op'[p].r = op[p].r /\ op'[p].kind = op[p].kind
        /\ \A p \in Ops \ {o} : op'[p].st = op[p].st
    <3>1. CASE op' = op
      BY <3>1
    <3>2. CASE op' # op
      <4>1. PICK st : op' = [op EXCEPT ![o].st = st]
        BY <2>2, <3>2
      <4>2. \A p \in Ops : op'[p] = IF p = o THEN [op[o] EXCEPT !.st = st] ELSE op[p]
        BY <4>1 DEF Inv, Typed, TypeOK
      <4>3. [op[o] EXCEPT !.st = st].r = op[o].r /\ [op[o] EXCEPT !.st = st].kind = op[o].kind
        BY DEF Inv, Typed, TypeOK
      <4> QED
        BY <4>2, <4>3
    <3> QED
      BY <3>1, <3>2
  <2> QED
    BY <2>2, <2>3, <2>4, <2>5
<1>2. PICK r \in Routes : r = op[o].r
  BY <1>1
<1>3. \A q \in Routes \ {r} : route'[q] = route[q]
  BY <1>2 DEF Task, Start, TakeLock, LockBusy, Stage, EnsureRepo, EditRoutes, CommitRoutes,
     SyncRelease, RunPlan, RunApply, StepFails, Finish, DbFails, MarkFailed, Tree, db, Inv,
     Typed, TypeOK
<1>4. pc'[o] \in Alive => op'[o].st \in {"pending", "running"}
  BY TaskStatus DEF Inv
<1> QED
  BY <1>1, <1>2, <1>3, <1>4 DEF Engaged, Synced, Live, Removed

(* A plan that waits is the plan of the task at work.                       *)
LEMMA PlannedBy ==
    ASSUME SerialInv, NEW o \in Ops, Engaged(o), \A p \in Ops \ {o} : pc'[p] = pc[p]
    PROVE  /\ Planned  <=> pc[o] \in {"applying", "apply"}
           /\ Planned' <=> pc'[o] \in {"applying", "apply"}
<1>1. \A p \in Ops \ {o} : pc[p] \notin {"applying", "apply"}
  BY OnwayLabels DEF SerialInv, Solo, Engaged
<1> QED
  BY <1>1 DEF Planned

(* Steps of the task that change no file.                                   *)
LEMMA SerialCalm ==
    ASSUME Inv, DeletesHold, OwnCidrs, SerialInv, NEW o \in Ops, Engaged(o),
           NEW r \in Routes, r = op[o].r, UNCHANGED world,
           \A p \in Ops : op'[p].r = op[p].r /\ op'[p].kind = op[p].kind,
           \A p \in Ops \ {o} : pc'[p] = pc[p] /\ op'[p].st = op[p].st,
           \A q \in Routes \ {r} : Synced(q)' => Synced(q),
           pc'[o] \in {"applying", "apply"} => pc[o] \in {"applying", "apply"},
           ~Synced(r)', ~Removed(o)', Onway(o)'
    PROVE  SerialInv'
<1>1. Planned' => Planned
  BY PlannedBy
<1>2. \A c : (Everywhere(c) => Everywhere(c)') /\ (Nowhere(c) => Nowhere(c)')
  BY <1>1 DEF Everywhere, Nowhere, world
<1> QED
  BY <1>2, SerialMove

LEMMA SerialAccept ==
    ASSUME Inv, DeletesHold, OwnCidrs, SerialInv, NEW o \in Ops, Accept(o)
    PROVE  SerialInv'
<1>1. Accepted(o) /\ UNCHANGED world
  BY AcceptShape DEF Accept
<1>2. PICK r \in Routes : r = op[o].r
  BY <1>1 DEF Accepted
<1>3. /\ \A p \in Ops : op'[p].r = op[p].r /\ op'[p].kind = op[p].kind
      /\ \A p \in Ops \ {o} : pc'[p] = pc[p] /\ op'[p].st = op[p].st
      /\ pc'[o] = "start" /\ op'[o].st = "pending" /\ Engaged(o)
  BY <1>1 DEF Accepted, Engaged, Inv, Typed, TypeOK
<1>4. ~Synced(r)' /\ \A q \in Routes \ {r} : Synced(q)' => Synced(q)
  BY <1>1, <1>2 DEF Accepted, Synced, Live
<1>5. ~Removed(o)' /\ Onway(o)'
  BY <1>3 DEF Removed, Onway, Published
<1> QED
  BY <1>1, <1>2, <1>3, <1>4, <1>5, SerialCalm

LEMMA SerialRows ==
    ASSUME Inv, DeletesHold, OwnCidrs, SerialInv, NEW o \in Ops,
           Start(o) \/ TakeLock(o) \/ LockBusy(o) \/ Stage(o) \/ DbFails(o) \/ MarkFailed(o)
    PROVE  SerialInv'
<1>1. Task(o) /\ UNCHANGED world
  BY DEF Task, Start, TakeLock, LockBusy, Stage, DbFails, MarkFailed
<1>2. PICK r \in Routes : r = op[o].r
  BY <1>1, TaskMove
<1>3. /\ Engaged(o) /\ pc[o] \in Alive
      /\ \A p \in Ops : op'[p].r = op[p].r /\ op'[p].kind = op[p].kind
      /\ \A p \in Ops \ {o} : pc'[p] = pc[p] /\ op'[p].st = op[p].st
      /\ \A q \in Routes \ {r} : Synced(q)' => Synced(q)
  BY <1>1, <1>2, TaskMove, TaskShape DEF Inv
<1>4. ~Synced(r) /\ Onway(o)
  BY <1>2, <1>3 DEF SerialInv, Untouched
<1>5. op[o].st = "running" \/ op[o].st = "pending"
  BY <1>1, TaskStatus DEF Inv
<1>6. ~Removed(o)'
  BY <1>3, <1>5 DEF Start, TakeLock, LockBusy, Stage, DbFails, MarkFailed, db, Removed, Inv, Typed, TypeOK
<1>7. ~Synced(r)'
  <2>1. CASE route' = route
    BY <1>4, <2>1 DEF Synced, Live
  <2>2. CASE route' # route
    <3>1. PICK s \in SyncStates : s # "synced" /\ route' = [route EXCEPT ![r].sync = s]
      BY <1>2, <2>2 DEF Start, TakeLock, LockBusy, Stage, DbFails, MarkFailed, db, SyncStates, Stages
    <3>2. Typed
      BY DEF Inv
    <3>3. \A q \in Routes : route'[q].sync = IF q = r THEN s ELSE route[q].sync
      BY <3>1, <3>2, SyncOnly
    <3> QED
      BY <3>1, <3>3 DEF Synced
  <2> QED
    BY <2>1, <2>2
<1>8. (pc'[o] \in {"applying", "apply"} => pc[o] \in {"applying", "apply"}) /\ Onway(o)'
  <2>1. CASE Stage(o)
    <3>1. pc[o] \in Stages /\ pc'[o] = WorkOf[pc[o]]
      BY <2>1 DEF Stage, Goto, Inv, Typed, TypeOK
    <3> QED
      BY <1>1, <1>3, <1>4, <3>1 DEF Stages, WorkOf, Onway, Published, Meant, world
  <2>2. CASE ~Stage(o)
    <3>1. pc'[o] \in {"lock", "cloning", "fail", "done"}
      BY <2>2 DEF Start, TakeLock, LockBusy, DbFails, MarkFailed, Goto, Inv, Typed, TypeOK
    <3> QED
      BY <3>1 DEF Onway, Published
  <2> QED
    BY <2>1, <2>2
<1> QED
  BY <1>1, <1>2, <1>3, <1>6, <1>7, <1>8, SerialCalm

(* A task that completes has brought its CIDR into everything, or out of it. *)
LEMMA SerialFinish ==
    ASSUME Inv, DeletesHold, OwnCidrs, SerialInv, NEW o \in Ops, Finish(o)
    PROVE  SerialInv'
<1>1. Task(o) /\ UNCHANGED world /\ pc[o] = "finish"
  BY DEF Task, Finish, At
<1>2. PICK r \in Routes : r = op[o].r
  BY <1>1, TaskMove
<1>3. /\ Engaged(o)
      /\ \A p \in Ops : op'[p].r = op[p].r /\ op'[p].kind = op[p].kind
      /\ \A p \in Ops \ {o} : pc'[p] = pc[p] /\ op'[p].st = op[p].st
      /\ \A q \in Routes \ {r} : Synced(q)' => Synced(q)
  BY <1>1, <1>2, TaskMove
<1>4. pc'[o] = "done"
  BY DEF Finish, Goto, Inv, Typed, TypeOK
<1>5. ~Planned' /\ ~Engaged(o)' /\ pc'[o] \notin Alive /\ Onway(o)'
  BY <1>3, <1>4, PlannedBy, LabelFacts DEF Engaged, Onway, Published
<1>6. \A c : (Everywhere(c) => Everywhere(c)') /\ (Nowhere(c) => Nowhere(c)')
  BY <1>1, <1>5 DEF Everywhere, Nowhere, world
<1>7. Meant(o, git.base) /\ git.file = git.base /\ git.release = git.base /\ Meant(o, infra)
  BY <1>1 DEF SerialInv, Onway, Published
<1>8. Synced(r)' => Everywhere(CidrOf[r])'
  <2>1. CASE op[o].kind = "delete"
    <3>1. op[o].st # "none"
      BY <1>1, TaskStatus DEF Inv
    <3>2. route[r].st = "deleted" /\ route' = route
      BY <1>2, <2>1, <3>1 DEF DeletesHold, Finish
    <3> QED
      BY <3>2 DEF Synced, Live
  <2>2. CASE op[o].kind # "delete"
    BY <1>1, <1>2, <1>5, <1>7, <2>2 DEF Meant, Everywhere, world
  <2> QED
    BY <2>1, <2>2
<1>9. Removed(o)' => Nowhere(CidrOf[r])'
  <2>1. Removed(o)' => op[o].kind = "delete"
    BY <1>3 DEF Removed
  <2> QED
    BY <1>1, <1>2, <1>5, <1>7, <2>1 DEF Meant, Nowhere, world
<1> QED
  BY <1>2, <1>3, <1>5, <1>6, <1>8, <1>9, SerialMove

(* A step of the task that writes no row.                                   *)
LEMMA SerialWork ==
    ASSUME Inv, DeletesHold, OwnCidrs, SerialInv, NEW o \in Ops, Task(o),
           UNCHANGED db, pc'[o] \in Alive, NEW r \in Routes, r = op[o].r,
           \A c \in Cidrs \ {CidrOf[r]} : /\ Everywhere(c) => Everywhere(c)'
                                          /\ Nowhere(c) => Nowhere(c)',
           Onway(o)'
    PROVE  SerialInv'
<1>1. /\ Engaged(o) /\ ~Removed(o)'
      /\ \A p \in Ops : op'[p].r = op[p].r /\ op'[p].kind = op[p].kind
      /\ \A p \in Ops \ {o} : pc'[p] = pc[p] /\ op'[p].st = op[p].st
      /\ \A q \in Routes \ {r} : Synced(q)' => Synced(q)
  BY TaskMove
<1>2. pc[o] \in Alive
  BY TaskShape DEF Inv
<1>3. ~Synced(r)
  BY <1>1, <1>2 DEF SerialInv, Untouched
<1>4. ~Synced(r)'
  BY <1>3 DEF Synced, Live, db
<1> QED
  BY <1>1, <1>4, SerialMove

LEMMA SerialTree ==
    ASSUME Inv, DeletesHold, OwnCidrs, SerialInv, NEW o \in Ops,
           EnsureRepo(o) \/ EditRoutes(o) \/ CommitRoutes(o) \/ SyncRelease(o)
    PROVE  SerialInv'
<1>1. Task(o) /\ UNCHANGED db /\ UNCHANGED <<plan, infra>>
  BY DEF Task, EnsureRepo, EditRoutes, CommitRoutes, SyncRelease, Tree
<1>2. PICK r \in Routes : r = op[o].r
  BY <1>1, TaskMove
<1>3. Engaged(o) /\ \A p \in Ops \ {o} : pc'[p] = pc[p]
  BY <1>1, TaskMove
<1>4. pc'[o] \in {"pushing", "commit", "release", "planning", "fail"}
  BY DEF EnsureRepo, EditRoutes, CommitRoutes, SyncRelease, Tree, Goto, Inv, Typed, TypeOK
<1>5. pc'[o] \in Alive /\ ~Planned'
  BY <1>3, <1>4, PlannedBy, OnwayLabels, LabelFacts DEF Published
<1>6. Onway(o) /\ op' = op /\ op[o].r = r /\ op[o].kind # "none"
  BY <1>1, <1>2, TaskMove DEF SerialInv, db
<1> DEFINE c0 == CidrOf[r]
           Kept == /\ \A c \in Cidrs \ {c0} : /\ Everywhere(c) => Everywhere(c)'
                                              /\ Nowhere(c) => Nowhere(c)'
                   /\ Onway(o)'
<1>7. ASSUME EnsureRepo(o) PROVE Kept
  <2>1. /\ git'.base = git.base /\ git'.release = git.release
        /\ git'.file \in {git.file, git.base}
        /\ pc'[o] = "fail" \/ (pc'[o] = "pushing" /\ git'.head = "base")
    <3>1. git \in Repos /\ pc \in [Ops -> Labels]
      BY DEF Inv, Typed, TypeOK, Repos, Labels
    <3>2. \/ /\ git' = [git EXCEPT !.head = "base", !.file = git.base]
             /\ pc' = [pc EXCEPT ![o] = "pushing"]
          \/ /\ git' = [git EXCEPT !.head = "base"]
             /\ pc' = [pc EXCEPT ![o] = "pushing"]
          \/ (git' = git /\ pc' = [pc EXCEPT ![o] = "fail"])
      BY <1>7 DEF EnsureRepo, Tree, Goto
    <3>3. \A l : pc' = [pc EXCEPT ![o] = l] => pc'[o] = l
      BY <3>1
    <3> DEFINE Fields == /\ git'.base = git.base /\ git'.release = git.release
                         /\ git'.file \in {git.file, git.base}
    <3>4. git' = [git EXCEPT !.head = "base", !.file = git.base]
          => Fields /\ git'.head = "base"
      BY <3>1 DEF Repos
    <3>5. git' = [git EXCEPT !.head = "base"] => Fields /\ git'.head = "base"
      BY <3>1 DEF Repos
    <3> QED
      BY <3>2, <3>3, <3>4, <3>5
  <2> QED
    BY <1>1, <1>5, <2>1 DEF Everywhere, Nowhere, Onway, Published
<1>8. ASSUME EditRoutes(o) PROVE Kept
  <2>1. pc[o] = "edit" /\ pc'[o] = "commit"
    BY <1>8 DEF EditRoutes, At, Tree, Goto, Inv, Typed, TypeOK
  <2>2. /\ git'.base = git.base /\ git'.release = git.release /\ git'.head = git.head
        /\ git'.file = IF op[o].kind = "delete" THEN git.file \ {c0} ELSE git.file \cup {c0}
    BY <1>6, <1>8 DEF EditRoutes, Tree, Inv, Typed, TypeOK
  <2>3. git.head = "base"
    BY <1>6, <2>1 DEF Onway
  <2>4. Meant(o, git.file)'
    BY <1>6, <2>2 DEF Meant
  <2> QED
    BY <1>1, <1>5, <2>1, <2>2, <2>3, <2>4 DEF Everywhere, Nowhere, Onway, Published
<1>9. ASSUME CommitRoutes(o) PROVE Kept
  <2>1. pc[o] = "commit" /\ pc'[o] = "release"
    BY <1>9 DEF CommitRoutes, At, Tree, Goto, Inv, Typed, TypeOK
  <2>2. git.head = "base" /\ Meant(o, git.file)
    BY <1>6, <2>1 DEF Onway
  <2>3. /\ git'.base = git.file /\ git'.release = git.release
        /\ git'.head = git.head /\ git'.file = git.file
    BY <1>9, <2>2 DEF CommitRoutes, Tree, Inv, Typed, TypeOK
  <2>4. Meant(o, git.base)'
    BY <1>6, <2>2, <2>3 DEF Meant
  <2> QED
    BY <1>1, <1>5, <2>1, <2>2, <2>3, <2>4 DEF Everywhere, Nowhere, Onway, Published
<1>10. ASSUME SyncRelease(o) PROVE Kept
  <2>1. pc[o] = "release" /\ pc'[o] \in {"planning", "fail"}
    BY <1>10 DEF SyncRelease, At, Tree, Goto, Inv, Typed, TypeOK
  <2>2. Meant(o, git.base) /\ git.file = git.base
    BY <1>6, <2>1 DEF Onway
  <2>3. /\ git'.base = git.base
        /\ pc'[o] = "planning" => git'.file = git.base /\ git'.release = git.base
        /\ pc'[o] = "fail" => git' = git
    BY <1>10 DEF SyncRelease, Tree, Goto, Inv, Typed, TypeOK
  <2>4. Meant(o, git.base)'
    BY <1>6, <2>2, <2>3 DEF Meant
  <2> QED
    BY <1>1, <1>5, <2>1, <2>3, <2>4 DEF Everywhere, Nowhere, Onway, Published
<1> QED
  BY <1>1, <1>2, <1>5, <1>7, <1>8, <1>9, <1>10, SerialWork

LEMMA SerialInfra ==
    ASSUME Inv, DeletesHold, OwnCidrs, SerialInv, NEW o \in Ops,
           RunPlan(o) \/ RunApply(o) \/ StepFails(o)
    PROVE  SerialInv'
<1>1. Task(o) /\ UNCHANGED db /\ UNCHANGED git
  BY DEF Task, RunPlan, RunApply, StepFails
<1>2. PICK r \in Routes : r = op[o].r
  BY <1>1, TaskMove
<1>3. /\ Engaged(o) /\ \A p \in Ops \ {o} : pc'[p] = pc[p]
      /\ Onway(o) /\ op' = op
  BY <1>1, TaskMove DEF SerialInv, db
<1>4. /\ Planned  <=> pc[o] \in {"applying", "apply"}
      /\ Planned' <=> pc'[o] \in {"applying", "apply"}
  BY <1>3, PlannedBy
<1>5. CASE RunPlan(o)
  <2>1. pc[o] = "plan" /\ pc'[o] = "applying" /\ plan' = git.file /\ infra' = infra
    BY <1>5 DEF RunPlan, At, Goto, Inv, Typed, TypeOK
  <2>2. Meant(o, git.base) /\ git.file = git.base /\ git.release = git.base
    BY <1>3, <2>1 DEF Onway, Published
  <2>3. Meant(o, plan)' /\ Meant(o, git.base)'
    BY <1>1, <1>3, <2>1, <2>2 DEF Meant
  <2>4. Onway(o)'
    BY <1>1, <2>1, <2>2, <2>3 DEF Onway
  <2>5. \A c : (Everywhere(c) => Everywhere(c)') /\ (Nowhere(c) => Nowhere(c)')
    BY <1>1, <2>1 DEF Everywhere, Nowhere
  <2>6. pc'[o] \in Alive
    BY <2>1, OnwayLabels DEF Published
  <2> QED
    BY <1>1, <1>2, <2>4, <2>5, <2>6, SerialWork
<1>6. CASE RunApply(o)
  <2>1. pc[o] = "apply" /\ pc'[o] = "finish" /\ infra' = plan /\ plan' = plan
    BY <1>6 DEF RunApply, At, Goto, Inv, Typed, TypeOK
  <2>2. /\ Meant(o, git.base) /\ git.file = git.base /\ git.release = git.base
        /\ Meant(o, plan)
    BY <1>3, <2>1 DEF Onway, Published
  <2>3. Meant(o, infra)' /\ Meant(o, git.base)'
    BY <1>1, <1>3, <2>1, <2>2 DEF Meant
  <2>4. Onway(o)'
    BY <1>1, <2>1, <2>2, <2>3 DEF Onway
  <2>5. \A c : (Everywhere(c) => Everywhere(c)') /\ (Nowhere(c) => Nowhere(c)')
    BY <1>1, <1>4, <2>1 DEF Everywhere, Nowhere
  <2>6. pc'[o] \in Alive
    BY <2>1, OnwayLabels DEF Published
  <2> QED
    BY <1>1, <1>2, <2>4, <2>5, <2>6, SerialWork
<1>7. CASE StepFails(o)
  <2>1. /\ pc'[o] = "fail" /\ plan' = plan
        /\ infra' = infra \/ (pc[o] = "apply" /\ infra' = plan)
    <3>1. infra' \in IF At(o, "apply") THEN {infra, plan} ELSE {infra}
      BY <1>7 DEF StepFails
    <3>2. infra' = infra \/ (pc[o] = "apply" /\ infra' = plan)
      <4>1. CASE pc[o] = "apply"
        BY <3>1, <4>1 DEF At
      <4>2. CASE pc[o] # "apply"
        BY <3>1, <4>2 DEF At
      <4> QED
        BY <4>1, <4>2
    <3> QED
      BY <1>7, <3>2 DEF StepFails, Goto, Inv, Typed, TypeOK
  <2>2. Onway(o)'
    BY <2>1 DEF Onway, Published
  <2>3. \A c : (Everywhere(c) => Everywhere(c)') /\ (Nowhere(c) => Nowhere(c)')
    BY <1>1, <1>4, <2>1 DEF Everywhere, Nowhere
  <2>4. pc'[o] \in Alive
    BY <2>1, LabelFacts
  <2> QED
    BY <1>1, <1>2, <2>2, <2>3, <2>4, SerialWork
<1> QED
  BY <1>5, <1>6, <1>7

(* A request enters when nothing is at work, for a route nobody has removed. *)
LEMMA SerialAsk ==
    ASSUME Inv, DeletesHold, SerialInv, MaxBusy = 1, NEW o \in Ops, NEW r \in Routes,
           AskCreate(o, r) \/ AskDelete(o, r) \/ AskRetry(o, r)
    PROVE  SerialInv'
<1>1. PICK kind \in {"create", "delete", "retry"} : Ask(o, kind, r)
  BY DEF AskCreate, AskDelete, AskRetry
<1>2. \A p \in Ops : ~Engaged(p)
  <2>1. SUFFICES ASSUME NEW p \in Ops, Engaged(p)
                 PROVE  FALSE
    OBVIOUS
  <2>2. Busy = {p}
    BY <2>1 DEF Busy, Engaged, SerialInv, Solo
  <2>3. Cardinality(Busy) = 1
    BY <2>2, FS_Singleton
  <2> QED
    BY <1>1, <2>3 DEF Ask
<1>3. /\ UNCHANGED <<route, git, plan, infra>>
      /\ op' = [op EXCEPT ![o] = [st |-> "none", kind |-> kind, r |-> r]]
      /\ pc' = [pc EXCEPT ![o] = "asked"]
  BY <1>1 DEF Ask, Goto, world
<1>4. /\ pc'[o] = "asked" /\ op'[o].st = "none" /\ op'[o].r = r
      /\ \A p \in Ops \ {o} : pc'[p] = pc[p] /\ op'[p] = op[p]
  BY <1>3 DEF Inv, Typed, TypeOK
<1>5. \A p \in Ops \ {o} : ~Engaged(p)'
  BY <1>2, <1>4 DEF Engaged
<1>6. ~Planned'
  BY <1>4, <1>5, OnwayLabels DEF Planned, Engaged
<1>7. \A c : (Everywhere(c) => Everywhere(c)') /\ (Nowhere(c) => Nowhere(c)')
  BY <1>3, <1>6 DEF Everywhere, Nowhere
<1>8. \A d \in Ops : Removed(d)' => d # o /\ Removed(d) /\ op'[d].r = op[d].r
  BY <1>4 DEF Removed
<1>9. Served'
  <2>1. \A q \in Routes : Synced(q)' => Synced(q)
    BY <1>3 DEF Synced, Live
  <2> QED
    BY <1>7, <1>8, <2>1 DEF Served, SerialInv
<1>10. \A d \in Ops \ {o} : Removed(d) => op[d].r # r
  <2>1. \A d \in Ops : Removed(d) => op[d].r \in Routes /\ route[op[d].r].st = "deleted"
    BY DEF Removed, DeletesHold
  <2> QED
    BY <2>1 DEF AskCreate, AskDelete, AskRetry, Live
<1>11. Untouched'
  BY <1>4, <1>5, <1>8, <1>10, LabelFacts DEF Untouched
<1>12. Solo'
  BY <1>5 DEF Solo
<1>13. ASSUME NEW p \in Ops
       PROVE  Onway(p)'
  <2>1. pc'[p] \notin {"pushing", "edit", "commit", "release"} \cup Published
    BY <1>4, <1>5, OnwayLabels, LabelFacts DEF Engaged
  <2> QED
    BY <2>1 DEF Onway, Published
<1> QED
  BY <1>9, <1>11, <1>12, <1>13 DEF SerialInv

LEMMA SerialOther ==
    ASSUME Inv, SerialInv,
           \/ UNCHANGED vars \/ Crash \/ Restart
           \/ \E o \in Ops : Refuse(o)
           \/ \E t \in Tunnels : LoadTunnel(t) \/ CloseTunnel(t) \/ KeepTunnel(t)
    PROVE  SerialInv'
<1>1. UNCHANGED world
  BY DEF vars, world, Crash, Restart, Refuse, LoadTunnel, CloseTunnel, KeepTunnel
<1>2. \A r \in Routes : Synced(r)' => Synced(r)
  BY DEF vars, db, Crash, Restart, Refuse, LoadTunnel, CloseTunnel, KeepTunnel, Synced, Live
<1>3. \A p \in Ops : /\ op'[p].r = op[p].r /\ op'[p].kind = op[p].kind
                     /\ op'[p].st # op[p].st => op'[p].st = "failed"
  <2>1. CASE op' = op
    BY <2>1
  <2>2. CASE Restart
    BY <2>2 DEF Restart, Inv, Typed, TypeOK
  <2> QED
    BY <2>1, <2>2 DEF vars, db, Crash, Refuse, LoadTunnel, CloseTunnel, KeepTunnel
<1>4. \A p \in Ops : Removed(p)' => Removed(p)
  BY <1>3 DEF Removed
<1>5. \A p \in Ops : Engaged(p)' => pc'[p] = pc[p]
  <2>1. CASE pc' = pc
    BY <2>1
  <2>2. ASSUME NEW o \in Ops, Refuse(o)
        PROVE  \A p \in Ops : Engaged(p)' => pc'[p] = pc[p]
    BY <2>2, LabelFacts DEF Refuse, Goto, Engaged, Inv, Typed, TypeOK
  <2>3. CASE Crash
    BY <2>3, LabelFacts DEF Crash, Engaged
  <2> QED
    BY <2>1, <2>2, <2>3 DEF vars, Restart, LoadTunnel, CloseTunnel, KeepTunnel
<1> QED
  BY <1>1, <1>2, <1>3, <1>4, <1>5, SerialKept DEF Inv

LEMMA SerialStep ==
    ASSUME Inv, DeletesHold, SerialInv, MaxBusy = 1, OwnCidrs, [Next]_vars
    PROVE  SerialInv'
BY SerialAsk, SerialAccept, SerialRows, SerialTree, SerialInfra, SerialFinish, SerialOther
DEF Next, Task

(* When requests wait for the operation before them to end and no two       *)
(* routes share a CIDR, then whatever fails, crashes or closes, a live      *)
(* route that says synced is routed and one whose delete completed is not.  *)
(* Without the first hypothesis an apply may carry out the plan of another  *)
(* task (terragrunt.py:435); without the second the delete of one route     *)
(* takes the entry of another out of the file (terragrunt.py:265).          *)
THEOREM AppliedSerially ==
    MaxBusy = 1 /\ OwnCidrs => (Spec => []RoutesApplied)
<1> SUFFICES ASSUME MaxBusy = 1, OwnCidrs
             PROVE  Spec => []RoutesApplied
  OBVIOUS
<1>1. Init => SerialInv
  <2>1. ASSUME Init
        PROVE  \A o \in Ops : pc[o] = "none" /\ op[o].st = "none" /\ ~Engaged(o)
    BY <2>1, LabelFacts DEF Init, NoOp, Engaged
  <2>2. ASSUME Init
        PROVE  \A r \in Routes : ~Synced(r)
    BY <2>2 DEF Init, Synced, Live
  <2> QED
    BY <2>1, <2>2 DEF SerialInv, Solo, Served, Untouched, Removed, Onway, Published
<1>2. Inv /\ DeletesHold /\ SerialInv /\ [Next]_vars => SerialInv'
  BY SerialStep
<1>3. SerialInv => RoutesApplied
  BY DEF SerialInv, Served, RoutesApplied, Synced, Removed, Everywhere, Nowhere
<1> QED
  BY <1>1, <1>2, <1>3, InvAlways, DeletesAlways, PTL DEF Spec

=============================================================================
