---------------------------- MODULE IptablesSync ----------------------------
(***************************************************************************)
(* The iptables rules of app/services/iptables_service.py and the cascade  *)
(* of app/services/tunnel_service.py that removes the rules of a tunnel.   *)
(* A request changes the kernel of the primary, then of the secondary      *)
(* instance by SSM commands, saves both, and only then commits the row;    *)
(* rule requests hold two advisory locks meanwhile, the cascade holds      *)
(* another one.                                                            *)
(*                                                                         *)
(* A spec stands for the text of a rule.  iptables keeps copies: -A adds   *)
(* one, -D removes one.                                                    *)
(***************************************************************************)
EXTENDS Naturals, FiniteSets

CONSTANTS
    Reqs,        \* slots for requests in flight
    Rules,       \* primary keys of the iptables_rules table
    Tunnels,
    Specs,       \* texts of rules
    Full,        \* specs without a NULL in the columns of the unique index
    Kinds,       \* the requests of the workload
    Faults,      \* the disturbances of the workload, see Disturb
    MaxBusy,     \* bound: requests in flight at a time
    MaxRequests, \* bound: requests in one behaviour
    MaxCopies,   \* bound: copies of one rule in one kernel
    MaxLate,     \* bound: commands given up on that still run
    MaxReboots,  \* bound: reboots of an instance
    MaxSeen,     \* bound: different disturbances in one behaviour
    None

ASSUME NoneAssumption == None \notin Reqs \cup Rules \cup Tunnels \cup Specs
ASSUME BoundAssumption == MaxRequests \in Nat /\ MaxReboots \in Nat

VARIABLES
    rows,     \* the iptables_rules table, as committed
    tunnels,  \* the tunnels that are not deleted
    kernel,   \* copies of each rule in the kernel of each instance
    saved,    \* the same in /etc/iptables/rules.v4
    lock,     \* holders of the advisory locks
    req,      \* the requests in flight
    cut,      \* those of them that have lost their database connection
    late,     \* SSM commands given up on that still run
    begun,    \* requests so far
    reboots,
    seen      \* history: the disturbances that have happened

vars  == <<rows, tunnels, kernel, saved, lock, req, cut, late, begun, reboots, seen>>
hosts == <<kernel, saved>>

Instances == {"primary", "secondary"}
Locks     == Instances \cup {"ipsec"}
Disturbances == {"overlap", "sweep", "shared", "refused", "lost", "late", "crash", "cut",
                 "index", "fanout", "reboot"}

NoRow  == [st |-> "free", tun |-> None, spec |-> None, sync |-> "none"]
NoLoad == [x \in Rules |-> None]
Idle   == [op |-> "none", pc |-> "idle", at |-> "primary", rule |-> None, tun |-> None,
           load |-> NoLoad, was |-> "none", new |-> None, sync |-> "none", bad |-> FALSE,
           todo |-> {}]

Commands == {"remove", "add", "save"}
Inside   == Commands \cup {"half", "commit", "fanout"}
Busy     == {r \in Reqs : req[r] # Idle}
Live(x)  == rows[x].st = "live"

(* A disturbance: a fault, an overlap or an input that some of the         *)
(* properties do not bear.                                                 *)
Disturb(D) == /\ D \subseteq Faults
              /\ seen' = seen \cup D
              /\ Cardinality(seen') <= MaxSeen

Init ==
    /\ rows    = [x \in Rules |-> NoRow]
    /\ tunnels = Tunnels
    /\ kernel  = [i \in Instances |-> [s \in Specs |-> 0]]
    /\ saved   = kernel
    /\ lock    = [k \in Locks |-> None]
    /\ req     = [r \in Reqs |-> Idle]
    /\ cut     = {}
    /\ late    = {}
    /\ begun   = 0
    /\ reboots = 0
    /\ seen    = {}

-----------------------------------------------------------------------------
(* Loading.  What a request reads before its locks it never reads again.   *)

Overlaps(op) == IF Busy = {} THEN {}
                ELSE IF op = "cascade" \/ \E r \in Busy : req[r].op = "cascade" THEN {"sweep"}
                ELSE {"overlap"}

(* The text of another live rule, or of one that is being written.         *)
Shares(x, s) == IF \/ \E y \in Rules \ {x} : Live(y) /\ rows[y].spec = s
                   \/ \E r \in Busy : req[r].new = s
                THEN {"shared"} ELSE {}

Begin(r, q, D) ==
    /\ req[r] = Idle
    /\ q.op \in Kinds
    /\ Cardinality(Busy) < MaxBusy
    /\ Disturb(Overlaps(q.op) \cup D)
    /\ req' = [req EXCEPT ![r] = q]
    /\ begun < MaxRequests
    /\ begun' = begun + 1
    /\ UNCHANGED <<rows, tunnels, hosts, lock, cut, late, reboots>>

(* _get_active_tunnel: status `active' is an input, a status check or a     *)
(* PATCH may change it at any time (see TunnelStatus).                     *)
BeginCreate(r, x, t, s) ==
    /\ rows[x] = NoRow
    /\ \A p \in Reqs : req[p].rule # x
    /\ t \in tunnels
    /\ Begin(r, [Idle EXCEPT !.op = "create", !.pc = "loaded", !.rule = x, !.tun = t, !.new = s],
             Shares(x, s))

LoadRule(op, x, s) ==
    [Idle EXCEPT !.op = op, !.pc = "loaded", !.rule = x, !.tun = rows[x].tun,
                 !.load[x] = rows[x].spec, !.was = rows[x].sync, !.new = s]

(* A structural update; one of the position alone touches no instance, no  *)
(* lock and none of the columns modelled.                                  *)
BeginUpdate(r, x, s) == Live(x) /\ Begin(r, LoadRule("update", x, s), Shares(x, s))

BeginRetry(r, x) ==
    /\ Live(x)
    /\ rows[x].sync = "failed"
    /\ Begin(r, LoadRule("retry", x, rows[x].spec), {})

BeginDelete(r, x) == Live(x) /\ Begin(r, LoadRule("delete", x, None), {})

(* delete_tunnel: the tunnel and its live rules.                           *)
BeginCascade(r, t) ==
    LET mine == {x \in Rules : Live(x) /\ rows[x].tun = t}
    IN  /\ t \in tunnels
        /\ Begin(r, [Idle EXCEPT !.op = "cascade", !.pc = "loaded", !.tun = t, !.todo = mine,
                                 !.load = [x \in Rules |-> IF x \in mine THEN rows[x].spec
                                                           ELSE None]], {})

-----------------------------------------------------------------------------
(* The end of a request: locks are those of its transaction.               *)

Released(r) == [k \in Locks |-> IF lock[k] = r THEN None ELSE lock[k]]

Free(r) == /\ lock' = Released(r)
           /\ req' = [req EXCEPT ![r] = Idle]
           /\ cut' = cut \ {r}

Rollback(r) == /\ Free(r)
               /\ UNCHANGED <<rows, tunnels, hosts, late, begun, reboots>>

LockOf(q) == IF q.op = "cascade" THEN "ipsec" ELSE "primary"

(* Mutant of FirstCommand: an update leaves the old rule where it is.      *)
FirstCommandAppend(op) == IF op \in {"create", "retry", "update"} THEN "add" ELSE "remove"

FirstCommand(op) == IF op \in {"create", "retry"} THEN "add" ELSE "remove"

(* The rules a cascade may turn to: the query that loaded them has no      *)
(* order.  None is left after the last one.                                *)
Turns(q) == IF q.todo = {} THEN {None} ELSE q.todo

(* The next rule of a cascade; after the last one the fan-out.             *)
NextRule(q, x) ==
    IF x = None THEN [q EXCEPT !.pc = "fanout", !.rule = None]
    ELSE [q EXCEPT !.pc = "remove", !.at = "primary", !.rule = x, !.bad = FALSE, !.todo = @ \ {x}]

(* Mutant of TakeLock: the answer of the lock is not looked at.            *)
TakeLockUnchecked(r) ==
    LET k == LockOf(req[r])
    IN  /\ req[r].pc = "loaded" /\ r \notin cut
        /\ lock' = [lock EXCEPT ![k] = r]
        /\ \E x \in Turns(req[r]) :
              req' = [req EXCEPT ![r] = IF req[r].op = "cascade" THEN NextRule(req[r], x)
                                        ELSE [req[r] EXCEPT !.pc = "half"]]
        /\ UNCHANGED <<rows, tunnels, hosts, cut, late, begun, reboots, seen>>

TakeLock(r) ==
    LET k == LockOf(req[r])
    IN  /\ req[r].pc = "loaded" /\ r \notin cut
        /\ lock[k] = None
        /\ lock' = [lock EXCEPT ![k] = r]
        /\ \E x \in Turns(req[r]) :
              req' = [req EXCEPT ![r] = IF req[r].op = "cascade" THEN NextRule(req[r], x)
                                        ELSE [req[r] EXCEPT !.pc = "half"]]
        /\ UNCHANGED <<rows, tunnels, hosts, cut, late, begun, reboots, seen>>

LockDenied(r) ==
    /\ r \notin cut
    /\ \/ req[r].pc = "loaded" /\ lock[LockOf(req[r])] # None
       \/ req[r].pc = "half" /\ lock["secondary"] # None
    /\ Rollback(r)
    /\ UNCHANGED seen

(* The partial unique index; NULL columns are distinct to it.              *)
Duplicate(q) == /\ q.new \in Full
                /\ \E y \in Rules \ {q.rule} : Live(y) /\ rows[y].tun = q.tun /\ rows[y].spec = q.new

(* Mutant of TakeSecondary: a commit before the commands frees the locks.  *)
TakeSecondaryCommit(r) ==
    /\ req[r].pc = "half" /\ r \notin cut
    /\ lock["secondary"] = None
    /\ req[r].op = "create" => ~Duplicate(req[r])
    /\ lock' = Released(r)
    /\ req' = [req EXCEPT ![r].pc = FirstCommand(req[r].op)]
    /\ UNCHANGED <<rows, tunnels, hosts, cut, late, begun, reboots, seen>>

(* create_rule flushes its row before the first command.                   *)
TakeSecondary(r) ==
    /\ req[r].pc = "half" /\ r \notin cut
    /\ lock["secondary"] = None
    /\ req[r].op = "create" => ~Duplicate(req[r])
    /\ lock' = [lock EXCEPT !["secondary"] = r]
    /\ req' = [req EXCEPT ![r].pc = FirstCommand(req[r].op)]
    /\ UNCHANGED <<rows, tunnels, hosts, cut, late, begun, reboots, seen>>

CreateRefused(r) ==
    /\ req[r].pc = "half" /\ req[r].op = "create" /\ r \notin cut
    /\ lock["secondary"] = None
    /\ Duplicate(req[r])
    /\ Rollback(r)
    /\ UNCHANGED seen

-----------------------------------------------------------------------------
(* ssm.run_on_instances: one command on the primary, then on the secondary *)
(* whatever the first one answered.                                        *)

TextOf(q) == IF q.pc = "remove" THEN q.load[q.rule] ELSE q.new

(* Mutant of Removed: without `|| true' and its meaning, one copy less.    *)
RemovedAnyway(n) == n - 1

(* iptables -D removes one copy; none left is no failure (`|| true').      *)
Removed(n) == IF n = 0 THEN 0 ELSE n - 1

(* What a command does on an instance.                                     *)
Run(c, i, s) ==
    \/ /\ c = "remove"
       /\ kernel' = [kernel EXCEPT ![i][s] = Removed(kernel[i][s])]
       /\ saved' = saved
    \/ /\ c = "add"
       /\ kernel[i][s] < MaxCopies
       /\ kernel' = [kernel EXCEPT ![i][s] = @ + 1]
       /\ saved' = saved
    \/ /\ c = "save"
       /\ saved' = [saved EXCEPT ![i] = kernel[i]]
       /\ kernel' = kernel

SyncOf(q, bad) == IF q.op = "delete" THEN "pending_delete"
                  ELSE IF bad THEN "failed" ELSE "synced"

(* Mutant of Onward: the rules are saved by the next request.              *)
OnwardUnsaved(q, bad, x) ==
    IF q.pc = "remove" /\ q.op = "update" THEN [q EXCEPT !.pc = "add", !.at = "primary", !.bad = FALSE]
    ELSE IF q.op = "cascade" THEN NextRule(q, x)
    ELSE [q EXCEPT !.pc = "commit", !.at = "primary", !.bad = bad, !.sync = SyncOf(q, bad)]

(* Mutant of Onward: an update goes on to save after a failed append.      *)
OnwardAnyway(q, bad, x) ==
    IF q.pc = "remove" /\ q.op = "update" THEN [q EXCEPT !.pc = "add", !.at = "primary", !.bad = FALSE]
    ELSE IF q.pc # "save" THEN [q EXCEPT !.pc = "save", !.at = "primary", !.bad = FALSE]
    ELSE IF q.op = "cascade" THEN NextRule(q, x)
    ELSE [q EXCEPT !.pc = "commit", !.at = "primary", !.bad = bad, !.sync = SyncOf(q, bad)]

(* After both instances: the failure of an update's removal is ignored, any *)
(* other one skips the save.                                               *)
Onward(q, bad, x) ==
    IF q.pc = "remove" /\ q.op = "update" THEN [q EXCEPT !.pc = "add", !.at = "primary", !.bad = FALSE]
    ELSE IF q.pc # "save" /\ ~bad THEN [q EXCEPT !.pc = "save", !.at = "primary"]
    ELSE IF q.op = "cascade" THEN NextRule(q, x)
    ELSE [q EXCEPT !.pc = "commit", !.at = "primary", !.bad = bad, !.sync = SyncOf(q, bad)]

Answered(q, ok, x) == IF q.at = "primary" THEN [q EXCEPT !.at = "secondary", !.bad = ~ok]
                      ELSE Onward(q, q.bad \/ ~ok, x)

Answer(r, ok) == /\ req[r].pc \in Commands
                 /\ \E x \in Turns(req[r]) : req' = [req EXCEPT ![r] = Answered(req[r], ok, x)]
                 /\ UNCHANGED <<rows, tunnels, lock, cut, begun, reboots>>

CommandDone(r) ==
    /\ Run(req[r].pc, req[r].at, TextOf(req[r]))
    /\ Answer(r, TRUE)
    /\ UNCHANGED <<late, seen>>

(* Refused by SSM or by the instance: nothing changed.                     *)
CommandRefused(r) == Disturb({"refused"}) /\ Answer(r, FALSE) /\ UNCHANGED <<hosts, late>>

(* Done, but the poll never learnt it.                                     *)
CommandLost(r) ==
    /\ Run(req[r].pc, req[r].at, TextOf(req[r]))
    /\ Answer(r, FALSE)
    /\ Disturb({"lost"})
    /\ UNCHANGED late

(* The poll gives up on a command that is still to run: a lost answer too. *)
CommandLate(r) ==
    /\ Cardinality(late) < MaxLate
    /\ Answer(r, FALSE)
    /\ late' = late \cup {[cmd |-> req[r].pc, at |-> req[r].at, text |-> TextOf(req[r])]}
    /\ Disturb({"lost", "late"})
    /\ UNCHANGED hosts

LateRuns(c) ==
    /\ c \in late
    /\ Run(c.cmd, c.at, c.text)
    /\ late' = late \ {c}
    /\ UNCHANGED <<rows, tunnels, lock, req, cut, begun, reboots, seen>>

-----------------------------------------------------------------------------
(* The commit.                                                             *)

(* The session writes a column only where it differs from what it loaded.  *)
Put(current, loaded, value) == IF value = loaded THEN current ELSE value

Write(q) ==
    IF q.op = "create" THEN [st |-> "live", tun |-> q.tun, spec |-> q.new, sync |-> q.sync]
    ELSE IF q.op = "delete"
    THEN [rows[q.rule] EXCEPT !.st = "deleted", !.sync = Put(@, q.was, q.sync)]
    ELSE [rows[q.rule] EXCEPT !.spec = Put(@, q.load[q.rule], q.new), !.sync = Put(@, q.was, q.sync)]

Refuses(q) == q.op = "update" /\ q.new # q.load[q.rule] /\ Live(q.rule) /\ Duplicate(q)

Commit(r) ==
    /\ req[r].pc = "commit" /\ r \notin cut
    /\ ~Refuses(req[r])
    /\ rows' = [rows EXCEPT ![req[r].rule] = Write(req[r])]
    /\ Free(r)
    /\ UNCHANGED <<tunnels, hosts, late, begun, reboots, seen>>

(* update_rule meets the unique index only here, after its commands.       *)
UpdateRefused(r) ==
    /\ req[r].pc = "commit" /\ r \notin cut
    /\ Refuses(req[r])
    /\ Rollback(r)
    /\ Disturb({"index"})

(* Every server confirmed the removal of the tunnel.                       *)
CommitCascade(r) ==
    /\ req[r].pc = "fanout" /\ r \notin cut
    /\ rows' = [x \in Rules |-> IF req[r].load[x] = None THEN rows[x]
                                ELSE [rows[x] EXCEPT !.st = "deleted", !.sync = "pending_delete"]]
    /\ tunnels' = tunnels \ {req[r].tun}
    /\ Free(r)
    /\ UNCHANGED <<hosts, late, begun, reboots, seen>>

(* A server did not: the rows come back, the rules do not.                 *)
CascadeFails(r) == /\ req[r].pc = "fanout" /\ r \notin cut
                   /\ Rollback(r)
                   /\ Disturb({"fanout"})

-----------------------------------------------------------------------------
(* The end of a request that nothing foresees.                             *)

(* The process dies, the task of the request is cancelled, or a step raises *)
(* what nobody catches (boto3's network errors are no                      *)
(* InfrastructureError): no further command is sent.                       *)
Crash(r) == /\ req[r] # Idle
            /\ Rollback(r)
            /\ Disturb({"crash"})

(* The database connection is lost: the server frees the locks, and the    *)
(* request goes on with its commands until it needs the database again.    *)
Disconnect(r) == /\ req[r] # Idle /\ r \notin cut
                 /\ lock' = Released(r)
                 /\ cut' = cut \cup {r}
                 /\ Disturb({"cut"})
                 /\ UNCHANGED <<rows, tunnels, hosts, req, late, begun, reboots>>

CutEnds(r) == /\ r \in cut
              /\ req[r].pc \in {"loaded", "half", "commit", "fanout"}
              /\ Rollback(r)
              /\ UNCHANGED seen

-----------------------------------------------------------------------------
(* The instances.                                                          *)

(* A restart loads rules.v4.                                               *)
Reboot(i) ==
    /\ reboots < MaxReboots
    /\ reboots' = reboots + 1
    /\ kernel' = [kernel EXCEPT ![i] = saved[i]]
    /\ Disturb(IF Busy = {} THEN {} ELSE {"reboot"})
    /\ UNCHANGED <<rows, tunnels, saved, lock, req, cut, late, begun>>

-----------------------------------------------------------------------------
Requests(r) ==
    \/ \E x \in Rules, t \in Tunnels, s \in Specs : BeginCreate(r, x, t, s)
    \/ \E x \in Rules, s \in Specs : BeginUpdate(r, x, s)
    \/ \E x \in Rules : BeginRetry(r, x)
    \/ \E x \in Rules : BeginDelete(r, x)
    \/ \E t \in Tunnels : BeginCascade(r, t)

Steps(r) ==
    \/ TakeLock(r)
    \/ LockDenied(r)
    \/ TakeSecondary(r)
    \/ CreateRefused(r)
    \/ CommandDone(r)
    \/ CommandRefused(r)
    \/ CommandLost(r)
    \/ CommandLate(r)
    \/ Commit(r)
    \/ UpdateRefused(r)
    \/ CommitCascade(r)
    \/ CascadeFails(r)
    \/ Crash(r)
    \/ Disconnect(r)
    \/ CutEnds(r)

Next ==
    \/ \E r \in Reqs : Requests(r) \/ Steps(r)
    \/ \E c \in late : LateRuns(c)
    \/ \E i \in Instances : Reboot(i)

Spec == Init /\ [][Next]_vars

-----------------------------------------------------------------------------
(* Properties.                                                             *)

RowStates  == {"free", "live", "deleted"}
SyncValues == {"none", "synced", "failed", "pending_delete"}

Request == [op : Kinds \cup {"none"}, pc : {"idle", "loaded"} \cup Inside, at : Instances,
            rule : Rules \cup {None}, tun : Tunnels \cup {None},
            load : [Rules -> Specs \cup {None}], was : SyncValues, new : Specs \cup {None},
            sync : SyncValues, bad : BOOLEAN, todo : SUBSET Rules]

Counts == [Instances -> [Specs -> Nat]]

(* Every variable keeps its type; no count of copies goes below zero.      *)
TypeOK ==
    /\ rows \in [Rules -> [st : RowStates, tun : Tunnels \cup {None}, spec : Specs \cup {None},
                           sync : SyncValues]]
    /\ tunnels \subseteq Tunnels
    /\ kernel \in Counts /\ saved \in Counts
    /\ lock \in [Locks -> Reqs \cup {None}]
    /\ req \in [Reqs -> Request]
    /\ cut \subseteq Reqs
    /\ late \subseteq [cmd : Commands, at : Instances, text : Specs \cup {None}]
    /\ begun \in 0..MaxRequests
    /\ reboots \in 0..MaxReboots
    /\ seen \subseteq Disturbances

(* No two rule requests work on the instances at a time, nor two cascades; *)
(* a rule request and a cascade may (locks.py, require_lock), and one that *)
(* has lost its connection goes on beside the next.                        *)
OneRuleWriter ==
    \A a, b \in Reqs \ cut : /\ req[a].pc \in Inside /\ req[b].pc \in Inside
                             /\ LockOf(req[a]) = LockOf(req[b])
                             => a = b

(* What create, update or retry is about to commit as synced runs and is   *)
(* saved on both instances: the locks protect the rule from the first      *)
(* command to the commit, however many requests overlap, fail and are      *)
(* broken off.  What has no such lock breaks it: a cascade, a late command, *)
(* a reboot between the commands, and a request that goes on with its      *)
(* commands after its connection, and the locks with it, is lost.          *)
AppliedUnderLock ==
    \A r \in Reqs :
        /\ req[r].pc = "commit" /\ req[r].sync = "synced"
        /\ seen \cap {"sweep", "late", "reboot", "cut"} = {}
        => \A i \in Instances : kernel[i][req[r].new] > 0 /\ saved[i][req[r].new] > 0

(* A live rule that says synced runs on both instances and survives their  *)
(* reboots, after any history of partial failures and retries of requests  *)
(* that do not overlap and do not share the text of a rule.                *)
SyncedApplied ==
    \A x \in Rules :
        /\ Live(x) /\ rows[x].sync = "synced"
        /\ \A r \in Reqs : x \notin {y \in Rules : req[r].rule = y \/ req[r].load[y] # None}
        /\ seen \subseteq {"refused", "lost"}
        => \A i \in Instances : kernel[i][rows[x].spec] > 0 /\ saved[i][rows[x].spec] > 0

(* When nothing runs, a reboot changes nothing: whatever requests and      *)
(* cascades overlapped, the last command on an instance was a save.        *)
KernelSaved ==
    Busy = {} /\ seen \cap {"refused", "lost", "late", "crash"} = {} => saved = kernel

(* Requests that do not overlap and meet no failure leave exactly one copy *)
(* per live rule, also when several rules have the same text.               *)
KernelMatchesRows ==
    Busy = {} /\ seen \subseteq {"shared"} =>
        \A i \in Instances, s \in Specs :
            kernel[i][s] = Cardinality({x \in Rules : Live(x) /\ rows[x].spec = s})

(* A delete whose commands all succeeded leaves nothing of its rule        *)
(* running, unless another live rule has the same text.                    *)
DeletedRemoved ==
    [][\A r \in Reqs :
         /\ req[r].op = "delete" /\ req[r].pc = "commit" /\ ~req[r].bad /\ req'[r] = Idle
         /\ seen \subseteq {"refused"}
         => \A i \in Instances : kernel[i][req[r].load[req[r].rule]] = 0]_vars
=============================================================================
