----------------------------- MODULE TunnelSync -----------------------------
(***************************************************************************)
(* How tunnels reach the VPN servers: the requests of                      *)
(* app/services/tunnel_service.py and the engine switch of                 *)
(* app/services/server_service.py, from the first read of a row to the     *)
(* commit, over the database, the files on the servers and the advisory    *)
(* lock LOCK_IPSEC_CONFIG.                                                 *)
(*                                                                         *)
(* A request is one asyncio task with one database transaction.  It reads  *)
(* its row BEFORE it asks for the lock, works on that copy while it        *)
(* awaits KMS and the servers, and commits the columns it changed.  The    *)
(* tasks interleave at every await; each action below runs from one await  *)
(* that another task can be seen across to the next.                       *)
(***************************************************************************)
EXTENDS Naturals, Sequences, FiniteSets

CONSTANTS
    Tunnels,      \* primary keys of the tunnels table
    Names,        \* connection names, from which remote file paths derive
    Confs,        \* the rendered connection settings (peer, CIDRs, proposals)
    Psks,         \* pre-shared keys
    Servers,      \* primary keys of the servers table
    Ssm,          \* the servers reached through SSM; the others through SSH
    InitEngine,   \* engine of each server registered at the start, else None
    Requests,     \* concurrent API requests
    Kinds,        \* the operations of the workload
    FleetOps,     \* the fleet changes of the workload: add, toggle, retire
    Faults,       \* what may fail: kms, infra, abort, cut
    MaxLate,      \* bound: SSM commands given up on and still under way
    MaxArrivals,  \* bound: requests that arrive in one behaviour
    None

Engines == {"stroke", "swanctl"}
Paths   == {"conf", "secrets", "swanctl"}
Files   == Paths \X Names

ASSUME NoneAssumption ==
    None \notin Requests \cup Tunnels \cup Names \cup Confs \cup Psks
                  \cup Servers \cup Engines
ASSUME BoundAssumption == MaxArrivals \in Nat /\ MaxLate \in Nat
ASSUME InitEngineAssumption == InitEngine \in [Servers -> Engines \cup {None}]

VARIABLES
    tun,     \* the tunnels table, as committed
    rule,    \* the iptables rule of each tunnel, as committed
    srv,     \* the servers table, as committed
    files,   \* the configuration files on each server
    fw,      \* tunnels whose rule sits in a kernel
    late,    \* file edits given up on that SSM may still carry out
    lock,    \* holder of LOCK_IPSEC_CONFIG, or None
    req,     \* the requests in flight
    cut,     \* what each request that lost its connection had read
    arrivals \* how many requests have arrived

vars == <<tun, rule, srv, files, fw, late, lock, req, cut, arrivals>>

-----------------------------------------------------------------------------
(* Rows, patches and requests.                                             *)

NoDetails == [s \in Servers |-> "absent"]
NoRow     == [st |-> "none", name |-> None, conf |-> None, psk |-> None,
              sync |-> "none", details |-> NoDetails]
NoPatch   == [name |-> None, conf |-> None, psk |-> None]
NoServer  == [st |-> "none", active |-> FALSE, engine |-> None]
NoRequest == [pc |-> "idle", kind |-> "none", t |-> None, s |-> None,
              old |-> NoRow, patch |-> NoPatch, rule |-> "none",
              out |-> NoDetails, eng |-> None, left |-> {}, gone |-> {}]

OrElse(value, default) == IF value = None THEN default ELSE value

(* The attributes of the object a request works on: the row it loaded with *)
(* the body of the PATCH laid over it.                                     *)
Pushed(q) == [name |-> OrElse(q.patch.name, q.old.name),
              conf |-> OrElse(q.patch.conf, q.old.conf),
              psk  |-> OrElse(q.patch.psk, q.old.psk)]

Renames(q)           == q.kind = "update" /\ Pushed(q).name # q.old.name
RenamesWithoutPsk(q) == Renames(q) /\ q.patch.psk = None
NeedsSync(q)         == q.kind # "update" \/ q.patch # NoPatch

(* The session writes a column only if its value differs from the loaded   *)
(* one; a column it skips keeps what other transactions committed.         *)
Put(new, loaded, current) == IF new = loaded THEN current ELSE new

(* The row after the flush of request q over the committed row cur.        *)
Saved(q, cur, sync, psk, details) ==
    [st      |-> IF q.kind = "create" THEN "live" ELSE cur.st,
     name    |-> Put(Pushed(q).name, q.old.name, cur.name),
     conf    |-> Put(Pushed(q).conf, q.old.conf, cur.conf),
     psk     |-> psk,
     sync    |-> sync,
     details |-> details]

(* Encryption never yields the same ciphertext twice, so a PSK in the      *)
(* request is always written.                                              *)
SavedPsk(q, cur) == OrElse(q.patch.psk, cur.psk)

(* Mutant of IndexAllows: no unique index on the name.                     *)
NoIndex(q) == TRUE

(* SELECT by name among the live rows, and the partial unique index.       *)
NameTaken(n, t) == \E u \in Tunnels \ {t} : tun[u].st = "live" /\ tun[u].name = n

IndexAllows(q) ==
    LET cur == tun[q.t]
    IN  \/ q.kind = "delete"
        \/ cur.st = "deleted"
        \/ ~NameTaken(Put(Pushed(q).name, q.old.name, cur.name), q.t)

-----------------------------------------------------------------------------
(* What a fan-out does on one server: a list of edits, then a reload.      *)

Edit(path, name, to) == [file |-> <<path, name>>, to |-> to]

(* The .conf carries the connection, .secrets the identities and the key,  *)
(* the swanctl file both.                                                  *)
Content(path, row) == [conf |-> row.conf,
                       psk  |-> IF path = "conf" THEN None ELSE row.psk]

Write(path, row) == Edit(path, row.name, Content(path, row))
Erase(path, n)   == Edit(path, n, None)

Push(e, row) == IF e = "swanctl"
                THEN << Write("swanctl", row) >>
                ELSE << Write("conf", row), Write("secrets", row) >>

Remove(e, n) == IF e = "swanctl"
                THEN << Erase("swanctl", n) >>
                ELSE << Erase("conf", n), Erase("secrets", n) >>

Work(q, e) ==
    IF q.kind = "delete" THEN Remove(e, q.old.name)
    ELSE IF Renames(q)   THEN Remove(e, q.old.name) \o Push(e, Pushed(q))
    ELSE Push(e, Pushed(q))

(* The files fs of a server after the first k edits of the list w.         *)
Edited(fs, w, k) ==
    [f \in Files |-> IF \E i \in 1..k : w[i].file = f
                     THEN w[CHOOSE i \in 1..k : w[i].file = f].to
                     ELSE fs[f]]

FilesOf(w) == {w[i].file : i \in DOMAIN w}

Done(fs, w) == \A i \in DOMAIN w : fs[w[i].file] = w[i].to

(* FanOutResult.to_sync_status over the outcomes of the servers asked.     *)
Asked(out)      == {s \in Servers : out[s] # "absent"}
AllOk(out)      == \A s \in Asked(out) : out[s] = "ok"

(* Mutant of SyncStatus: one confirmation is enough.                       *)
SyncStatusAny(out) == IF \E s \in Servers : out[s] = "ok" THEN "synced" ELSE "failed"

SyncStatus(out) == IF AllOk(out) THEN "synced"
                   ELSE IF \E s \in Servers : out[s] = "ok" THEN "partial"
                   ELSE "failed"

Targets == {s \in Servers : srv[s].st = "live" /\ srv[s].active}

(* An edit sent through SSM may land after the client stopped polling.     *)
MayLandLate(s, w, k) ==
    IF s \in Ssm /\ k < Len(w) /\ Cardinality(late) < MaxLate
    THEN {late, late \cup {[s |-> s, file |-> w[k + 1].file, to |-> w[k + 1].to]}}
    ELSE {late}

-----------------------------------------------------------------------------
Init ==
    /\ tun   = [t \in Tunnels |-> NoRow]
    /\ rule  = [t \in Tunnels |-> "none"]
    /\ srv   = [s \in Servers |->
                  IF InitEngine[s] = None THEN NoServer
                  ELSE [st |-> "live", active |-> TRUE, engine |-> InitEngine[s]]]
    /\ files = [s \in Servers |-> [f \in Files |-> None]]
    /\ fw    = {}
    /\ late  = {}
    /\ lock  = None
    /\ req   = [r \in Requests |-> NoRequest]
    /\ cut   = << >>
    /\ arrivals = 0

Goto(r, q) == req' = [req EXCEPT ![r] = q]

(* COMMIT and ROLLBACK both end the transaction and free the lock it took. *)
EndOf(r) == /\ Goto(r, NoRequest)
            /\ lock' = IF lock = r THEN None ELSE lock
            /\ cut' = [p \in DOMAIN cut \ {r} |-> cut[p]]
            /\ UNCHANGED arrivals

Rollback(r) == EndOf(r) /\ UNCHANGED <<tun, rule, srv, files, late>>

At(r, pc) == req[r].pc = pc

(* Past require_lock, where a request keeps LOCK_IPSEC_CONFIG to its end.  *)
Critical == {"locked", "fanout", "repush"}

(* Every query of a request whose connection is lost raises.               *)
Connected(r) == r \notin DOMAIN cut

(* A row and an engine as request r read them under the lock.  While it    *)
(* holds the lock nobody else writes them; once it is cut they age.        *)
Row(r, t)    == IF Connected(r) THEN tun[t] ELSE cut[r].tun[t]
Engine(r, s) == IF Connected(r) THEN srv[s].engine ELSE cut[r].engine[s]

-----------------------------------------------------------------------------
(* Before the lock: the handler loads its row and checks what it can.      *)

Begin(r, q) == /\ At(r, "idle")
               /\ q.kind \in Kinds
               /\ arrivals < MaxArrivals
               /\ arrivals' = arrivals + 1
               /\ Goto(r, q)
               /\ UNCHANGED <<tun, rule, srv, files, fw, late, lock, cut>>

(* t stands for the id the sequence will hand out at the INSERT.           *)
BeginCreate(r, t, d) ==
    /\ tun[t].st = "none"
    /\ \A p \in Requests : req[p].t # t
    /\ ~NameTaken(d.name, None)
    /\ Begin(r, [NoRequest EXCEPT !.pc = "checked", !.kind = "create",
                                  !.t = t, !.patch = d])

Loaded(kind, t, patch, pc) ==
    [NoRequest EXCEPT !.pc = pc, !.kind = kind, !.t = t, !.old = tun[t],
                      !.patch = patch, !.rule = rule[t]]

BeginUpdate(r, t, p) ==
    LET q == Loaded("update", t, p, "checked")
    IN  /\ tun[t].st = "live"
        /\ Begin(r, IF Renames(q) THEN [q EXCEPT !.pc = "loaded"] ELSE q)

(* The name is checked by a second query, after another await.             *)
CheckName(r) ==
    /\ At(r, "loaded") /\ Connected(r)
    /\ IF NameTaken(Pushed(req[r]).name, req[r].t)
       THEN Goto(r, NoRequest)
       ELSE Goto(r, [req[r] EXCEPT !.pc = "checked"])
    /\ UNCHANGED <<tun, rule, srv, files, fw, late, lock, cut, arrivals>>

BeginDelete(r, t) ==
    /\ tun[t].st = "live"
    /\ Begin(r, Loaded("delete", t, NoPatch, "checked"))

BeginRetry(r, t) ==
    /\ tun[t].st = "live"
    /\ tun[t].sync \in {"failed", "partial"}
    /\ Begin(r, Loaded("retry", t, NoPatch, "checked"))

BeginEngine(r, s) ==
    /\ srv[s].st = "live"
    /\ Begin(r, [NoRequest EXCEPT !.pc = "checked", !.kind = "engine",
                                  !.s = s, !.eng = srv[s].engine])

(* Mutant of TakeLock: the result of the try-lock is not looked at.        *)
TakeLockUnchecked(r) ==
    /\ At(r, "checked") /\ Connected(r)
    /\ lock' = r
    /\ Goto(r, [req[r] EXCEPT !.pc = "locked"])
    /\ UNCHANGED <<tun, rule, srv, files, fw, late, cut, arrivals>>

TakeLock(r) ==
    /\ At(r, "checked") /\ Connected(r)
    /\ lock = None
    /\ lock' = r
    /\ Goto(r, [req[r] EXCEPT !.pc = "locked"])
    /\ UNCHANGED <<tun, rule, srv, files, fw, late, cut, arrivals>>

LockDenied(r) ==
    /\ At(r, "checked") /\ Connected(r)
    /\ lock # None
    /\ Goto(r, NoRequest)
    /\ UNCHANGED <<tun, rule, srv, files, fw, late, lock, cut, arrivals>>

-----------------------------------------------------------------------------
(* Under the lock: the ways a request ends without reaching a server.      *)

Commit(r, row) ==
    /\ tun' = [tun EXCEPT ![req[r].t] = row]
    /\ EndOf(r)
    /\ UNCHANGED <<srv, files, late>>

TunnelLocked(r) == At(r, "locked") /\ req[r].kind # "engine" /\ Connected(r)

(* The session flushes the row and the unique index refuses it.            *)
IndexRejects(r) ==
    /\ TunnelLocked(r)
    /\ ~IndexAllows(req[r])
    /\ Rollback(r)
    /\ UNCHANGED fw

(* A PATCH of columns that are not rendered commits without a sync.        *)
UpdateQuiet(r) ==
    /\ TunnelLocked(r)
    /\ ~NeedsSync(req[r])
    /\ Rollback(r)
    /\ UNCHANGED fw

(* Mutant of CommitUnsynced: the sync status is left as it was loaded.     *)
CommitKeepingSync(r) ==
    LET q == req[r]
        cur == tun[q.t]
    IN  /\ IndexAllows(q)
        /\ Commit(r, Saved(q, cur, cur.sync, cur.psk, cur.details))
        /\ UNCHANGED <<rule, fw>>

(* The row ends "failed" with no query since it was loaded: the column is  *)
(* written only if it was not "failed" then.                               *)
CommitUnsynced(r) ==
    LET q == req[r]
        cur == tun[q.t]
    IN  /\ IndexAllows(q)
        /\ Commit(r, Saved(q, cur, Put("failed", q.old.sync, cur.sync),
                           cur.psk, cur.details))
        /\ UNCHANGED <<rule, fw>>

RenameWithoutPsk(r) ==
    /\ TunnelLocked(r)
    /\ RenamesWithoutPsk(req[r])
    /\ CommitUnsynced(r)

UsesKms(q) == /\ q.kind \in {"create", "update", "retry"}
              /\ NeedsSync(q)
              /\ ~RenamesWithoutPsk(q)

KmsFails(r) ==
    /\ "kms" \in Faults
    /\ TunnelLocked(r)
    /\ UsesKms(req[r])
    /\ IF req[r].kind = "create"
       THEN Rollback(r) /\ UNCHANGED fw
       ELSE CommitUnsynced(r)

(* delete_tunnel first takes the rules it loaded off the instances; a      *)
(* failure there is only logged.                                           *)
CleanRules(q) ==
    fw' \in IF q.kind = "delete" /\ q.rule = "live"
            THEN {fw \ {q.t}} \cup (IF "infra" \in Faults THEN {fw} ELSE {})
            ELSE {fw}

(* No active server: a delete gives up, the others commit "failed".        *)
NoServers(r) ==
    LET q == req[r]
        cur == tun[q.t]
    IN  /\ TunnelLocked(r)
        /\ q.kind = "delete" \/ (UsesKms(q) /\ IndexAllows(q))
        /\ Targets = {}
        /\ CleanRules(q)
        /\ IF q.kind = "delete"
           THEN Rollback(r)
           ELSE /\ Commit(r, Saved(q, cur, "failed", SavedPsk(q, cur), cur.details))
                /\ UNCHANGED rule

-----------------------------------------------------------------------------
(* The fan-out: one task per active server, gathered.                      *)

(* Mutant of StartFanOut: a commit before the push frees the lock.         *)
StartFanOutUnlocked(r) ==
    LET q == req[r]
    IN  /\ TunnelLocked(r)
        /\ UsesKms(q) /\ IndexAllows(q)
        /\ lock' = None
        /\ Goto(r, [q EXCEPT !.pc = "fanout",
                             !.out = [s \in Servers |->
                                        IF s \in Targets THEN "todo" ELSE "absent"]])
        /\ UNCHANGED <<tun, rule, srv, files, fw, late, cut, arrivals>>

StartFanOut(r) ==
    LET q == req[r]
    IN  /\ TunnelLocked(r)
        /\ q.kind = "delete" \/ (UsesKms(q) /\ IndexAllows(q))
        /\ Targets # {}
        /\ CleanRules(q)
        /\ Goto(r, [q EXCEPT !.pc = "fanout",
                             !.out = [s \in Servers |->
                                        IF s \in Targets THEN "todo" ELSE "absent"]])
        /\ UNCHANGED <<tun, rule, srv, files, late, lock, cut, arrivals>>

Report(r, s, outcome) == Goto(r, [req[r] EXCEPT !.out[s] = outcome])

ServerOk(r, s) ==
    LET w == Work(req[r], Engine(r, s))
    IN  /\ At(r, "fanout")
        /\ req[r].out[s] = "todo"
        /\ files' = [files EXCEPT ![s] = Edited(@, w, Len(w))]
        /\ Report(r, s, "ok")
        /\ UNCHANGED <<tun, rule, srv, fw, late, lock, cut, arrivals>>

(* The connection, an edit, the reload or the timeout fails after k edits. *)
ServerFails(r, s) ==
    LET w == Work(req[r], Engine(r, s))
    IN  /\ "infra" \in Faults
        /\ At(r, "fanout")
        /\ req[r].out[s] = "todo"
        /\ \E k \in 0..Len(w) :
              /\ files' = [files EXCEPT ![s] = Edited(@, w, k)]
              /\ late' \in MayLandLate(s, w, k)
        /\ Report(r, s, "failed")
        /\ UNCHANGED <<tun, rule, srv, fw, lock, cut, arrivals>>

(* Mutant of Gathered: the gather waits for a success of every server.     *)
GatheredAllOk(r) == At(r, "fanout") /\ AllOk(req[r].out)

Gathered(r) == At(r, "fanout") /\ \A s \in Servers : req[r].out[s] # "todo"

FinishSync(r) ==
    LET q == req[r]
        cur == tun[q.t]
    IN  /\ Gathered(r) /\ Connected(r)
        /\ q.kind # "delete"
        /\ Commit(r, Saved(q, cur, SyncStatus(q.out), SavedPsk(q, cur),
                           Put(q.out, q.old.details, cur.details)))
        /\ UNCHANGED <<rule, fw>>

(* Mutant of FinishDelete: one confirmation is enough.                     *)
FinishDeletePartly(r) ==
    LET q == req[r]
    IN  /\ Gathered(r) /\ Connected(r)
        /\ q.kind = "delete"
        /\ SyncStatus(q.out) # "failed"
        /\ Commit(r, [tun[q.t] EXCEPT !.st = "deleted", !.sync = "pending_delete"])
        /\ rule' = [rule EXCEPT ![q.t] = IF q.rule = "live" THEN "deleted" ELSE @]
        /\ UNCHANGED fw

(* Every server confirmed: the row and the rules it loaded are deleted.    *)
FinishDelete(r) ==
    LET q == req[r]
    IN  /\ Gathered(r) /\ Connected(r)
        /\ q.kind = "delete"
        /\ AllOk(q.out)
        /\ Commit(r, [tun[q.t] EXCEPT !.st = "deleted", !.sync = "pending_delete"])
        /\ rule' = [rule EXCEPT ![q.t] = IF q.rule = "live" THEN "deleted" ELSE @]
        /\ UNCHANGED fw

(* A server failed: the handler fills the sync columns and raises, and the *)
(* session closes without a commit.                                        *)
DeleteAborted(r) ==
    /\ Gathered(r) /\ Connected(r)
    /\ req[r].kind = "delete"
    /\ ~AllOk(req[r].out)
    /\ Rollback(r)
    /\ UNCHANGED fw

-----------------------------------------------------------------------------
(* The engine switch of a server pushes every live tunnel to it again.     *)

OtherEngine(e) == IF e = "stroke" THEN "swanctl" ELSE "stroke"

(* Mutant of StartRepush: any request under the lock re-pushes.            *)
StartRepushAny(r) ==
    /\ At(r, "locked") /\ Connected(r)
    /\ Goto(r, [req[r] EXCEPT !.pc = "repush",
                              !.left = {t \in Tunnels : tun[t].st = "live"}])
    /\ UNCHANGED <<tun, rule, srv, files, fw, late, lock, cut, arrivals>>

StartRepush(r) ==
    /\ At(r, "locked") /\ Connected(r)
    /\ req[r].kind = "engine"
    /\ Goto(r, [req[r] EXCEPT !.pc = "repush",
                              !.left = {t \in Tunnels : tun[t].st = "live"}])
    /\ UNCHANGED <<tun, rule, srv, files, fw, late, lock, cut, arrivals>>

(* The loop is at tunnel t and has removed the old files of the last one.  *)
Repushing(r, t) == /\ At(r, "repush") /\ req[r].gone = {}
                   /\ t \in req[r].left
                   /\ UNCHANGED <<tun, rule, srv, fw, lock, cut, arrivals>>

(* The push succeeds; the files of the old engine are next to go.          *)
RepushOk(r, t) ==
    LET w == Push(OtherEngine(req[r].eng), Row(r, t))
    IN  /\ Repushing(r, t)
        /\ files' = [files EXCEPT ![req[r].s] = Edited(@, w, Len(w))]
        /\ Goto(r, [req[r] EXCEPT !.left = @ \ {t},
                                  !.gone = FilesOf(Remove(req[r].eng, Row(r, t).name))])
        /\ UNCHANGED late

(* The decryption or the push fails: logged, and the loop goes on.         *)
RepushFails(r, t) ==
    LET s == req[r].s
        w == Push(OtherEngine(req[r].eng), Row(r, t))
    IN  /\ Repushing(r, t)
        /\ Goto(r, [req[r] EXCEPT !.left = @ \ {t}])
        /\ \/ "kms" \in Faults /\ UNCHANGED <<files, late>>
           \/ /\ "infra" \in Faults
              /\ \E k \in 0..Len(w) :
                    /\ files' = [files EXCEPT ![s] = Edited(@, w, k)]
                    /\ late' \in MayLandLate(s, w, k)

(* delete_file of the next old file, the .conf first.  No wait_for bounds  *)
(* it, and a failure is only logged.                                       *)
Cleanup(r, f) ==
    LET s == req[r].s
    IN  /\ At(r, "repush") /\ f \in req[r].gone
        /\ f[1] = "secrets" => <<"conf", f[2]>> \notin req[r].gone
        /\ Goto(r, [req[r] EXCEPT !.gone = @ \ {f}])
        /\ \/ files' = [files EXCEPT ![s][f] = None] /\ UNCHANGED late
           \/ /\ "infra" \in Faults /\ UNCHANGED files
              /\ late' \in MayLandLate(s, << Erase(f[1], f[2]) >>, 0)
        /\ UNCHANGED <<tun, rule, srv, fw, lock, cut, arrivals>>

Repushed(r) == At(r, "repush") /\ req[r].left = {} /\ req[r].gone = {}

FinishEngine(r) ==
    /\ Repushed(r) /\ Connected(r)
    /\ srv' = [srv EXCEPT ![req[r].s].engine = OtherEngine(req[r].eng)]
    /\ EndOf(r)
    /\ UNCHANGED <<tun, rule, files, fw, late>>

-----------------------------------------------------------------------------
(* Requests that do not take LOCK_IPSEC_CONFIG.                            *)

(* create_rule reads the tunnel, works on the instances and commits; its   *)
(* own locks order it only against other rules.                            *)
BeginRule(r, t) ==
    /\ tun[t].st = "live"
    /\ rule[t] = "none"
    /\ \A p \in Requests : req[p].kind = "rule" => req[p].t # t
    /\ Begin(r, [NoRequest EXCEPT !.pc = "attach", !.kind = "rule", !.t = t])

FinishRule(r) ==
    LET t == req[r].t
    IN  /\ At(r, "attach") /\ Connected(r)
        /\ rule' = [rule EXCEPT ![t] = "live"]
        /\ fw' \in {fw \cup {t}} \cup (IF "infra" \in Faults THEN {fw} ELSE {})
        /\ EndOf(r)
        /\ UNCHANGED <<tun, srv, files, late>>

FleetChange(op, s, row) == /\ op \in FleetOps
                           /\ srv' = [srv EXCEPT ![s] = row]
                           /\ UNCHANGED <<tun, rule, files, fw, late, lock, req, cut, arrivals>>

CreateServer(s, e) == /\ srv[s].st = "none"
                      /\ FleetChange("add", s, [st |-> "live", active |-> TRUE,
                                                engine |-> e])

SetActive(s) == /\ srv[s].st = "live"
                /\ FleetChange("toggle", s, [srv[s] EXCEPT !.active = ~@])

DeleteServer(s) == /\ srv[s].st = "live"
                   /\ FleetChange("retire", s, [srv[s] EXCEPT !.st = "deleted"])

-----------------------------------------------------------------------------
(* The environment.                                                        *)

(* The process dies, or an exception nobody catches ends the request.      *)
Abort(r) ==
    /\ "abort" \in Faults
    /\ ~At(r, "idle")
    /\ Rollback(r)
    /\ UNCHANGED fw

(* What the requests have read of the rows and of the engines.             *)
Read == [tun |-> tun, engine |-> [s \in Servers |-> srv[s].engine]]

(* The database ends the connection of a request and frees its lock.  The  *)
(* request goes on with what it has read, to its next query.  (Before the  *)
(* lock that query is all it does: Abort is the same.)                     *)
Disconnect(r) ==
    /\ "cut" \in Faults
    /\ req[r].pc \in Critical \cup {"attach"}
    /\ Connected(r)
    /\ cut' = [p \in DOMAIN cut \cup {r} |-> IF p = r THEN Read ELSE cut[p]]
    /\ lock' = IF lock = r THEN None ELSE lock
    /\ UNCHANGED <<tun, rule, srv, files, fw, late, req, arrivals>>

(* That query: for the servers after the rules are cleaned, or the commit. *)
CutEnds(r) ==
    /\ ~Connected(r)
    /\ \/ At(r, "locked") /\ CleanRules(req[r])
       \/ (Gathered(r) \/ Repushed(r)) /\ UNCHANGED fw
       \/ At(r, "attach") /\ fw' \in {fw, fw \cup {req[r].t}}
    /\ Rollback(r)

LateLands(c) ==
    /\ files' = [files EXCEPT ![c.s][c.file] = c.to]
    /\ late' = late \ {c}
    /\ UNCHANGED <<tun, rule, srv, fw, lock, req, cut, arrivals>>

-----------------------------------------------------------------------------
NewTunnels == [name : Names, conf : Confs, psk : Psks]
Patches    == [name : Names \cup {None}, conf : Confs \cup {None},
               psk : Psks \cup {None}]

Arrive(r) ==
    \/ \E t \in Tunnels : \/ \E d \in NewTunnels : BeginCreate(r, t, d)
                          \/ \E p \in Patches : BeginUpdate(r, t, p)
                          \/ BeginDelete(r, t)
                          \/ BeginRetry(r, t)
                          \/ BeginRule(r, t)
    \/ \E s \in Servers : BeginEngine(r, s)

(* What the event loop and the timeouts keep moving once it has arrived.   *)
Progress(r) ==
    \/ CheckName(r) \/ TakeLock(r) \/ LockDenied(r)
    \/ IndexRejects(r) \/ UpdateQuiet(r) \/ RenameWithoutPsk(r)
    \/ KmsFails(r) \/ NoServers(r) \/ StartFanOut(r)
    \/ \E s \in Servers : ServerOk(r, s) \/ ServerFails(r, s)
    \/ FinishSync(r) \/ FinishDelete(r) \/ DeleteAborted(r)
    \/ StartRepush(r) \/ FinishEngine(r)
    \/ \E t \in Tunnels : RepushOk(r, t) \/ RepushFails(r, t)
    \/ \E f \in req[r].gone : Cleanup(r, f)
    \/ FinishRule(r) \/ CutEnds(r)

Fleet == \E s \in Servers : \/ \E e \in Engines : CreateServer(s, e)
                            \/ SetActive(s)
                            \/ DeleteServer(s)

Next == \/ \E r \in Requests : Arrive(r) \/ Progress(r) \/ Abort(r) \/ Disconnect(r)
        \/ Fleet
        \/ \E c \in late : LateLands(c)

Spec == Init /\ [][Next]_vars

(* The old files of a server under SSH go over conn.run, which waits       *)
(* without a timeout.                                                      *)
AtRemote(r) == At(r, "repush") /\ req[r].gone # {} /\ req[r].s \notin Ssm

(* Any other await of a request ends: wait_for bounds each push and        *)
(* removal, the SSM poll is finite, and the event loop starves no task.    *)
FairSpec == Spec /\ \A r \in Requests : WF_vars(~AtRemote(r) /\ Progress(r))

-----------------------------------------------------------------------------
(* Types.                                                                  *)

TunnelKinds == {"create", "update", "delete", "retry"}
RuleStates == {"none", "live", "deleted"}
Outcomes == [Servers -> {"absent", "todo", "ok", "failed"}]
Rows == [st : {"none", "live", "deleted"}, name : Names \cup {None},
         conf : Confs \cup {None}, psk : Psks \cup {None},
         sync : {"none", "synced", "partial", "failed", "pending_delete"},
         details : Outcomes]
Contents == [conf : Confs \cup {None}, psk : Psks \cup {None}] \cup {None}
ReqRecs == [pc : {"idle", "loaded", "checked", "locked", "fanout", "repush", "attach"},
            kind : TunnelKinds \cup {"none", "engine", "rule"},
            t : Tunnels \cup {None}, s : Servers \cup {None},
            old : Rows, patch : Patches, rule : RuleStates, out : Outcomes,
            eng : Engines \cup {None}, left : SUBSET Tunnels,
            gone : SUBSET (Paths \X (Names \cup {None}))]

Coherent(q) == /\ q.kind \in TunnelKinds \cup {"rule"} => q.t \in Tunnels
               /\ q.kind = "engine" => q.s \in Servers
               /\ q.pc = "attach" => q.kind = "rule"
               /\ q.pc = "repush" => q.kind = "engine"

(* Every variable stays in its type, and a request knows its tunnel.       *)
TypeOK ==
    /\ tun \in [Tunnels -> Rows]
    /\ rule \in [Tunnels -> RuleStates]
    /\ srv \in [Servers -> [st : {"none", "live", "deleted"}, active : BOOLEAN,
                            engine : Engines \cup {None}]]
    /\ files \in [Servers -> [Files -> Contents]]
    /\ fw \subseteq Tunnels
    /\ late \subseteq [s : Servers, file : Paths \X (Names \cup {None}), to : Contents]
    /\ lock \in Requests \cup {None}
    /\ req \in [Requests -> ReqRecs]
    /\ \A r \in Requests : Coherent(req[r])
    /\ DOMAIN cut \subseteq Requests
    /\ \A r \in DOMAIN cut : cut[r] \in [tun : [Tunnels -> Rows],
                                         engine : [Servers -> Engines \cup {None}]]
    /\ arrivals \in 0..MaxArrivals

-----------------------------------------------------------------------------
(* Properties.                                                             *)

(* Of all requests whose connection lives, at most the holder of           *)
(* LOCK_IPSEC_CONFIG is past require_lock: the advisory lock (locks.py:1)  *)
(* serialises them.                                                        *)
OneWriter ==
    \A r \in Requests : req[r].pc \in Critical /\ Connected(r) <=> lock = r

(* No two live rows ever share a name, although create_tunnel and          *)
(* update_tunnel look for the name before they take the lock and may both  *)
(* find it free: the partial unique index has the last word.               *)
UniqueLiveNames ==
    \A t, u \in Tunnels : /\ tun[t].st = "live" /\ tun[u].st = "live"
                          /\ tun[t].name = tun[u].name
                          => t = u

(* While a fan-out is gathered, every server that has reported success     *)
(* holds exactly the files the request meant to leave there: no other      *)
(* request overwrites them before the outcome is committed.  (On a fleet   *)
(* without SSM, where nothing lands late.)                                 *)
OkMeansDone ==
    \A r \in Requests, s \in Servers :
        At(r, "fanout") /\ req[r].out[s] = "ok"
        => Done(files[s], Work(req[r], srv[s].engine))

(* A row leaves the live state only when each server the delete asked has  *)
(* lost the files of the name it was asked to remove                       *)
(* (tunnel_service.py:462, "ALL servers must confirm removal").            *)
DeleteConfirmed ==
    [][\A r \in Requests, t \in Tunnels :
          /\ tun[t].st = "live" /\ tun'[t].st = "deleted"
          /\ req[r].t = t /\ req[r].pc = "fanout"
          => \A s \in Asked(req[r].out) :
                Done(files[s], Remove(srv[s].engine, req[r].old.name))]_vars

(* Whenever no request works, a server that a synced or partial row calls  *)
(* ok holds that row's current settings and key, under some engine.        *)
RowInstalled(s, t) == \E e \in Engines : Done(files[s], Push(e, tun[t]))
DbMatchesFleet ==
    lock = None =>
        \A t \in Tunnels, s \in Servers :
            /\ tun[t].st = "live" /\ tun[t].sync \in {"synced", "partial"}
            /\ tun[t].details[s] = "ok"
            => RowInstalled(s, t)

(* When a delete commits, every configuration file on a server it asked    *)
(* belongs to a tunnel that is still live (tunnel_service.py:463,          *)
(* "prevents orphaned configs on servers").                                *)
NoOrphanAfterDelete ==
    [][\A r \in Requests, t \in Tunnels :
          /\ tun[t].st = "live" /\ tun'[t].st = "deleted"
          /\ req[r].t = t /\ req[r].pc = "fanout"
          => \A s \in Asked(req[r].out), f \in Files :
                files[s][f] # None =>
                    \E u \in Tunnels : tun'[u].st = "live" /\ tun'[u].name = f[2]]_vars

(* No request pushes a tunnel that is gone: update_tunnel raises           *)
(* NotFoundError "If the tunnel does not exist" (tunnel_service.py:294),   *)
(* and get_tunnel hides a deleted one.                                     *)
PushesLiveTunnel ==
    \A r \in Requests : At(r, "fanout") => tun[req[r].t].st # "deleted"

(* A deleted tunnel leaves no live iptables rule behind                    *)
(* (tunnel_service.py:460, "cascade deletion of routes and iptables        *)
(* rules").                                                                *)
DeleteCascades == \A t \in Tunnels : tun[t].st = "deleted" => rule[t] # "live"

(* What the tunnels list shows of a row, and what the holder of the lock   *)
(* is doing to the fleet.                                                  *)
Shown(t) == IF tun[t].st = "live"
            THEN [st |-> "live", name |-> tun[t].name, conf |-> tun[t].conf,
                  psk |-> tun[t].psk, sync |-> tun[t].sync]
            ELSE [st |-> IF tun[t].st = "none" THEN "absent" ELSE "gone",
                  name |-> None, conf |-> None, psk |-> None, sync |-> "none"]

NoJob == [kind |-> "none", t |-> None, name |-> None, conf |-> None, psk |-> None,
          out |-> NoDetails]

JobOf(q) ==
    IF q.pc = "repush" THEN [NoJob EXCEPT !.kind = "switch"]
    ELSE IF q.pc # "fanout" THEN NoJob
    ELSE IF q.kind = "delete" THEN [NoJob EXCEPT !.kind = "remove", !.t = q.t, !.out = q.out]
    ELSE [kind |-> "push", t |-> q.t, name |-> Pushed(q).name, conf |-> Pushed(q).conf,
          psk |-> Pushed(q).psk, out |-> q.out]

Contract == INSTANCE TunnelContract WITH
    shown <- [t \in Tunnels |-> Shown(t)],
    job   <- IF lock = None THEN NoJob ELSE JobOf(req[lock])

(* To its clients the service behaves as if it ran one job at a time: what *)
(* the list says of a tunnel is the verdict of the one fan-out that pushed *)
(* it, no row changes under a fan-out, and what is gone stays gone         *)
(* (locks.py:1, "serializing infrastructure operations"; fan_out.py).      *)
KeepsContract == Contract!Spec

(* Every request that arrives is answered, whatever fails, but for an      *)
(* engine switch that waits for ever on the files of a hung SSH server.    *)
Answered ==
    \A r \in Requests : ~At(r, "idle") ~> At(r, "idle") \/ []AtRemote(r)

=============================================================================
