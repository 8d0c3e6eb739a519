----------------------- MODULE TunnelSyncFleetProofs -----------------------
(* Proofs about what TunnelSync leaves on the servers, for fleets that no  *)
(* SSM command reaches late (Ssm = {}) and requests that lose no database  *)
(* connection ("cut" \notin Faults), of any size.                          *)
EXTENDS TunnelSyncProofs

-----------------------------------------------------------------------------
(* Lists of edits.                                                         *)

(* Every edit goes to a file of its own.                                   *)
Distinct(w) == /\ \A i \in DOMAIN w : w[i].file \in Files
               /\ \A i, j \in DOMAIN w : w[i].file = w[j].file => i = j

(* All edits of a list whose files differ are done after the last of them. *)
LEMMA EditedDone ==
    ASSUME NEW fs \in [Files -> Contents], NEW w \in Seq(Edits), Distinct(w)
    PROVE  Done(Edited(fs, w, Len(w)), w)
<1>1. DOMAIN w = 1..Len(w)  OBVIOUS
<1>2. ASSUME NEW i \in 1..Len(w)
      PROVE  Edited(fs, w, Len(w))[w[i].file] = w[i].to
  <2> DEFINE j == CHOOSE j \in 1..Len(w) : w[j].file = w[i].file
  <2>1. j \in 1..Len(w) /\ w[j].file = w[i].file  BY <1>2
  <2> HIDE DEF j
  <2>2. j = i  BY <1>1, <1>2, <2>1 DEF Distinct
  <2>3. w[i].file \in Files  BY <1>1, <1>2 DEF Distinct
  <2>4. Edited(fs, w, Len(w))[w[i].file] = w[j].to  BY <1>2, <2>3 DEF Edited, j
  <2> QED  BY <2>2, <2>4
<1> QED  BY <1>1, <1>2 DEF Done

LEMMA FilesDiffer ==
    ASSUME NEW p1, NEW n1, NEW p2, NEW n2, <<p1, n1>> = <<p2, n2>>
    PROVE  p1 = p2 /\ n1 = n2
OBVIOUS

LEMMA RemoveDistinct ==
    ASSUME NEW e, NEW n \in Names
    PROVE  Distinct(Remove(e, n))
<1> DEFINE a == Erase("conf", n)
           b == Erase("secrets", n)
           c == Erase("swanctl", n)
<1>1. a.file = <<"conf", n>> /\ b.file = <<"secrets", n>> /\ c.file = <<"swanctl", n>>
      /\ {<<"conf", n>>, <<"secrets", n>>, <<"swanctl", n>>} \subseteq Files
  BY DEF Erase, Edit, Files, Paths
<1>2. a.file # b.file  BY <1>1, FilesDiffer
<1>3. Remove(e, n) = <<c>> \/ Remove(e, n) = <<a, b>>  BY DEF Remove
<1> HIDE DEF a, b, c
<1> QED  BY <1>1, <1>2, <1>3 DEF Distinct

LEMMA PushDistinct ==
    ASSUME NEW e, NEW row, row.name \in Names
    PROVE  Distinct(Push(e, row))
<1> DEFINE n == row.name
           a == Write("conf", row)
           b == Write("secrets", row)
           c == Write("swanctl", row)
<1>1. a.file = <<"conf", n>> /\ b.file = <<"secrets", n>> /\ c.file = <<"swanctl", n>>
      /\ {<<"conf", n>>, <<"secrets", n>>, <<"swanctl", n>>} \subseteq Files
  BY DEF Write, Edit, Files, Paths
<1>2. a.file # b.file  BY <1>1, FilesDiffer
<1>3. Push(e, row) = <<c>> \/ Push(e, row) = <<a, b>>  BY DEF Push
<1> HIDE DEF a, b, c
<1> QED  BY <1>1, <1>2, <1>3 DEF Distinct

LEMMA NamesOf ==
    ASSUME NEW n, NEW a, NEW b, NEW c, NEW w, w = <<c>> \/ w = <<a, b>>,
           a.file = <<"conf", n>>, b.file = <<"secrets", n>>, c.file = <<"swanctl", n>>
    PROVE  \A i \in DOMAIN w : \E p : w[i].file = <<p, n>>
<1>1. \A i \in DOMAIN w : w[i].file \in {a.file, b.file, c.file}  OBVIOUS
<1> QED  BY <1>1

LEMMA NamesRemoved ==
    ASSUME NEW e, NEW n
    PROVE  \A i \in DOMAIN Remove(e, n) : \E p : Remove(e, n)[i].file = <<p, n>>
<1>1. \A path : Erase(path, n).file = <<path, n>>  BY DEF Erase, Edit
<1>2. \/ Remove(e, n) = <<Erase("swanctl", n)>>
      \/ Remove(e, n) = <<Erase("conf", n), Erase("secrets", n)>>
  BY DEF Remove
<1> QED  BY <1>1, <1>2, NamesOf

LEMMA NamesPushed ==
    ASSUME NEW e, NEW row
    PROVE  \A i \in DOMAIN Push(e, row) : \E p : Push(e, row)[i].file = <<p, row.name>>
<1>1. \A path : Write(path, row).file = <<path, row.name>>  BY DEF Write, Edit
<1>2. \/ Push(e, row) = <<Write("swanctl", row)>>
      \/ Push(e, row) = <<Write("conf", row), Write("secrets", row)>>
  BY DEF Push
<1> QED  BY <1>1, <1>2, NamesOf

LEMMA DistinctConcat ==
    ASSUME NEW S, NEW v \in Seq(S), NEW w \in Seq(S), Distinct(v), Distinct(w),
           \A i \in DOMAIN v, j \in DOMAIN w : v[i].file # w[j].file
    PROVE  Distinct(v \o w)
<1>1. \A i \in DOMAIN (v \o w) : \/ i \in DOMAIN v /\ (v \o w)[i] = v[i]
                                 \/ /\ i \notin DOMAIN v /\ i - Len(v) \in DOMAIN w
                                    /\ (v \o w)[i] = w[i - Len(v)]
  OBVIOUS
<1>2. DOMAIN (v \o w) \subseteq Nat /\ Len(v) \in Nat  OBVIOUS
<1>3. \A i \in DOMAIN (v \o w) : (v \o w)[i].file \in Files  BY <1>1 DEF Distinct
<1>4. ASSUME NEW i \in DOMAIN (v \o w), NEW j \in DOMAIN (v \o w), (v \o w)[i].file = (v \o w)[j].file
      PROVE  i = j
  <2>1. CASE i \in DOMAIN v /\ j \in DOMAIN v
    BY <1>1, <1>4, <2>1 DEF Distinct
  <2>2. CASE i \in DOMAIN v /\ j \notin DOMAIN v
    BY <1>1, <1>4, <2>2
  <2>3. CASE i \notin DOMAIN v /\ j \in DOMAIN v
    BY <1>1, <1>4, <2>3
  <2>4. CASE i \notin DOMAIN v /\ j \notin DOMAIN v
    <3>1. i - Len(v) = j - Len(v)  BY <1>1, <1>4, <2>4 DEF Distinct
    <3> QED  BY <1>2, <3>1
  <2> QED  BY <2>1, <2>2, <2>3, <2>4
<1> QED  BY <1>3, <1>4 DEF Distinct

(* A rename erases under one name and writes under another.                *)
LEMMA RenameDistinct ==
    ASSUME NEW e, NEW m \in Names, NEW row, row.name \in Names, row.name # m,
           Push(e, row) \in Seq(Edits)
    PROVE  Distinct(Remove(e, m) \o Push(e, row))
<1> DEFINE v == Remove(e, m)
           w == Push(e, row)
<1>1. v \in Seq(Edits)  BY RemoveType
<1>2. /\ \A i \in DOMAIN v : \E p : v[i].file = <<p, m>>
      /\ \A j \in DOMAIN w : \E p : w[j].file = <<p, row.name>>
  BY NamesRemoved, NamesPushed
<1>3. Distinct(v) /\ Distinct(w)  BY RemoveDistinct, PushDistinct
<1> HIDE DEF v, w
<1>4. \A i \in DOMAIN v, j \in DOMAIN w : v[i].file # w[j].file  BY <1>2, FilesDiffer
<1>5. w \in Seq(Edits)  BY DEF w
<1>6. Distinct(v \o w)  BY <1>1, <1>3, <1>4, <1>5, DistinctConcat
<1> QED  BY <1>6 DEF v, w

LEMMA WorkDistinct ==
    ASSUME NEW q \in ReqRecs, JobFilled(q), q.kind \in TunnelKinds, NEW e
    PROVE  Distinct(Work(q, e))
<1>1. Push(e, Pushed(q)) \in Seq(Edits)  BY PushedType, PushType
<1>2. CASE q.kind = "delete"
  BY <1>2, RemoveDistinct DEF Work, JobFilled
<1>3. CASE q.kind # "delete"
  <2>1. Pushed(q).name \in Names
    BY <1>3, NoneAssumption DEF JobFilled, TunnelKinds, Pushed, OrElse, ReqRecs, Patches
  <2>2. CASE Renames(q)
    <3>1. q.old.name \in Names /\ Pushed(q).name # q.old.name
      BY <2>2 DEF Renames, JobFilled
    <3>2. Distinct(Remove(e, q.old.name) \o Push(e, Pushed(q)))
      BY <1>1, <2>1, <3>1, RenameDistinct
    <3> QED  BY <1>3, <2>2, <3>2 DEF Work
  <2>3. CASE ~Renames(q)
    BY <1>3, <2>1, <2>3, PushDistinct DEF Work
  <2> QED  BY <2>2, <2>3
<1> QED  BY <1>2, <1>3

-----------------------------------------------------------------------------
(* Without SSM no edit is under way behind a request's back, and what a    *)
(* request has read while its connection lives is what the database holds. *)

Known    == RowsFilled /\ JobsKnown /\ AskedKnown /\ late = {} /\ DOMAIN cut = {}
FleetInv == TypeOK /\ OneWriter /\ Known /\ OkMeansDone
Steady   == Ssm = {} /\ "cut" \notin Faults

LEMMA StayConnected ==
    ASSUME Known
    PROVE  /\ \A r \in Requests : Connected(r) /\ ~CutEnds(r)
           /\ \A r, t : Row(r, t) = tun[t]
           /\ \A r, s : Engine(r, s) = srv[s].engine
BY DEF Known, Connected, Row, Engine, CutEnds

LEMMA NeverLate ==
    ASSUME TypeOK, late = {}, DOMAIN cut = {}, Steady, [Next]_vars
    PROVE  late' = {} /\ DOMAIN cut' = {}
<1>1. \A s, w, k : MayLandLate(s, w, k) = {late}  BY DEF MayLandLate, Steady
<1>2. ASSUME NEW r \in Requests, Arrive(r)
      PROVE  UNCHANGED <<late, cut>>
  BY <1>2 DEF Arrive, BeginCreate, BeginUpdate, BeginDelete, BeginRetry, BeginRule, BeginEngine,
     Begin
<1>3. ASSUME NEW r \in Requests, Progress(r) \/ Abort(r)
      PROVE  late' = {} /\ DOMAIN cut' = {}
  <2>1. ASSUME EndOf(r), UNCHANGED late
        PROVE  late' = {} /\ DOMAIN cut' = {}
    BY <2>1 DEF EndOf
  <2>2. ASSUME NEW t \in Tunnels, RepushOk(r, t) \/ RepushFails(r, t)
        PROVE  UNCHANGED <<late, cut>>
    <3>1. UNCHANGED cut  BY <2>2, RepushShape
    <3>2. UNCHANGED late  BY <1>1, <2>2 DEF RepushOk, RepushFails
    <3> QED  BY <3>1, <3>2
  <2>3. ASSUME NEW f, Cleanup(r, f)
        PROVE  UNCHANGED <<late, cut>>
    BY <1>1, <2>3 DEF Cleanup
  <2>4. ASSUME NEW s \in Servers, ServerOk(r, s) \/ ServerFails(r, s)
        PROVE  UNCHANGED <<late, cut>>
    BY <1>1, <2>4 DEF ServerOk, ServerFails
  <2>5. CASE \/ CheckName(r) \/ TakeLock(r) \/ LockDenied(r) \/ StartFanOut(r) \/ StartRepush(r)
    BY <2>5 DEF CheckName, TakeLock, LockDenied, StartFanOut, StartRepush
  <2>6. CASE \/ IndexRejects(r) \/ UpdateQuiet(r) \/ RenameWithoutPsk(r) \/ KmsFails(r)
             \/ NoServers(r) \/ FinishSync(r) \/ FinishDelete(r) \/ DeleteAborted(r)
             \/ FinishEngine(r) \/ FinishRule(r) \/ CutEnds(r) \/ Abort(r)
    BY <2>1, <2>6 DEF IndexRejects, UpdateQuiet, RenameWithoutPsk, CommitUnsynced, KmsFails,
       NoServers, FinishSync, FinishDelete, DeleteAborted, FinishEngine, FinishRule, CutEnds,
       Abort, Rollback, Commit
  <2> QED  BY <1>3, <2>2, <2>3, <2>4, <2>5, <2>6 DEF Progress
<1>4. Fleet => UNCHANGED <<late, cut>>
  BY DEF Fleet, CreateServer, SetActive, DeleteServer, FleetChange
<1>5. ASSUME NEW r \in Requests PROVE ~Disconnect(r)
  BY DEF Disconnect, Steady
<1> QED  BY <1>2, <1>3, <1>4, <1>5 DEF Next, vars

LEMMA KnownStep ==
    ASSUME TypeOK, OneWriter, Known, Steady, [Next]_vars
    PROVE  Known'
BY InformedStep, NeverLate DEF Known, Informed

-----------------------------------------------------------------------------
(* What a server confirmed stays true until the outcome is committed.      *)

LEMMA SameWork ==
    ASSUME NEW q, NEW z, SameJob(q, z), NEW e
    PROVE  Work(z, e) = Work(q, e)
BY DEF SameJob, Work, Renames, Pushed, OrElse

(* A step of r that reports no success, and leaves the servers alone       *)
(* unless r holds the lock.                                                *)
NoNewOk(r) == /\ \E z : /\ Goto(r, z)
                        /\ z.pc = "fanout" => \A s \in Servers : z.out[s] # "ok"
              /\ req[r].pc \notin Critical => UNCHANGED <<files, srv>>

LEMMA StepShape ==
    ASSUME TypeOK, Known, NEW r \in Requests, Arrive(r) \/ Progress(r) \/ Abort(r)
    PROVE  NoNewOk(r) \/ \E s \in Servers : ServerOk(r, s) \/ ServerFails(r, s)
<1> DEFINE q == req[r]
<1>1. q \in ReqRecs /\ NoRequest.pc = "idle"  BY DEF TypeOK, NoRequest
<1>2. CASE Arrive(r)
  <2>1. PICK z : Begin(r, z) /\ z.pc \notin Critical
    BY <1>2, ArriveShape DEF Known, Informed
  <2> QED  BY <2>1 DEF Begin, NoNewOk, Critical
<1>3. CASE CheckName(r) \/ TakeLock(r) \/ LockDenied(r)
  <2>1. Goto(r, NoRequest) \/ \E pc \in {"checked", "locked"} : Goto(r, [q EXCEPT !.pc = pc])
    BY <1>3 DEF CheckName, TakeLock, LockDenied
  <2>2. \A pc : [q EXCEPT !.pc = pc].pc = pc  BY <1>1 DEF ReqRecs
  <2>3. UNCHANGED <<files, srv>>  BY <1>3 DEF CheckName, TakeLock, LockDenied
  <2> QED  BY <1>1, <2>1, <2>2, <2>3 DEF NoNewOk
<1>4. CASE StartFanOut(r)
  <2> DEFINE out == [s \in Servers |-> IF s \in Targets THEN "todo" ELSE "absent"]
             z == [q EXCEPT !.pc = "fanout", !.out = out]
  <2>1. z.out = out /\ \A s \in Servers : out[s] # "ok"  BY <1>1 DEF ReqRecs
  <2>2. Goto(r, z) /\ q.pc \in Critical
    BY <1>4 DEF StartFanOut, TunnelLocked, At, Critical
  <2> HIDE DEF z, out
  <2> QED  BY <2>1, <2>2 DEF NoNewOk
<1>5. CASE StartRepush(r)
  <2> DEFINE z == [q EXCEPT !.pc = "repush", !.left = {t \in Tunnels : tun[t].st = "live"}]
  <2>1. Goto(r, z) /\ q.pc \in Critical  BY <1>5 DEF StartRepush, At, Critical
  <2>2. z.pc = "repush"  BY <1>1 DEF ReqRecs
  <2> HIDE DEF z
  <2> QED  BY <2>1, <2>2 DEF NoNewOk
<1>6. ASSUME Loops(r) PROVE NoNewOk(r)
  BY <1>6 DEF Loops, NoNewOk, Critical
<1>7. CASE \/ IndexRejects(r) \/ UpdateQuiet(r) \/ RenameWithoutPsk(r) \/ KmsFails(r)
           \/ NoServers(r) \/ FinishSync(r) \/ FinishDelete(r) \/ DeleteAborted(r)
           \/ FinishEngine(r) \/ FinishRule(r) \/ CutEnds(r) \/ Abort(r)
  <2>1. EndOf(r) /\ (q.pc \in Critical \/ UNCHANGED <<files, srv>>)
    BY <1>7 DEF IndexRejects, UpdateQuiet, RenameWithoutPsk, CommitUnsynced, KmsFails,
       NoServers, FinishSync, FinishDelete, DeleteAborted, FinishEngine, FinishRule, CutEnds,
       Abort, Rollback, Repushed, Commit, At, Critical
  <2> QED  BY <1>1, <2>1 DEF EndOf, NoNewOk
<1> QED
  BY <1>2, <1>3, <1>4, <1>5, <1>6, <1>7, RepushShape, CleanupShape DEF Progress

LEMMA OkStep ==
    ASSUME FleetInv, Steady, [Next]_vars
    PROVE  OkMeansDone'
<1> USE DEF FleetInv, Known
<1>0. req \in [Requests -> ReqRecs] /\ files \in [Servers -> [Files -> Contents]]
  BY DEF TypeOK
(* While one request gathers its servers no other is past the lock.        *)
<1>1. ASSUME NEW p \in Requests, At(p, "fanout"), NEW r \in Requests, r # p
      PROVE  req[r].pc \notin Critical
  BY <1>1, StayConnected DEF OneWriter, At, Critical
<1>2. ASSUME NEW r \in Requests, NoNewOk(r)
      PROVE  OkMeansDone'
  <2> SUFFICES ASSUME NEW p \in Requests, NEW s \in Servers,
                      At(p, "fanout")', req'[p].out[s] = "ok"
               PROVE  Done(files'[s], Work(req'[p], srv'[s].engine))
    BY DEF OkMeansDone
  <2>1. p # r  BY <1>0, <1>2 DEF NoNewOk, Goto, At
  <2>2. req'[p] = req[p]  BY <1>0, <1>2, <2>1 DEF NoNewOk, Goto
  <2>3. At(p, "fanout") /\ req[p].out[s] = "ok"  BY <2>2 DEF At
  <2>4. UNCHANGED <<files, srv>>  BY <1>1, <1>2, <2>1, <2>3 DEF NoNewOk
  <2> QED  BY <2>2, <2>3, <2>4 DEF OkMeansDone
<1>3. ASSUME NEW r \in Requests, NEW y \in Servers, ServerOk(r, y) \/ ServerFails(r, y)
      PROVE  OkMeansDone'
  <2> DEFINE q == req[r]
             w == Work(q, srv[y].engine)
  <2>1. PICK x \in {"ok", "failed"}, k \in Nat :
           /\ x = "ok" => k = Len(w)
           /\ Goto(r, [q EXCEPT !.out[y] = x])
           /\ files' = [files EXCEPT ![y] = Edited(@, w, k)]
    <3>1. w \in Seq(Edits)  BY <1>0, WorkType
    <3>2. Len(w) \in Nat /\ 0..Len(w) \subseteq Nat  BY <3>1
    <3> HIDE DEF w
    <3>3. w = Work(q, Engine(r, y))  BY StayConnected DEF w
    <3>4. CASE ServerOk(r, y)  BY <3>2, <3>3, <3>4 DEF ServerOk, Report
    <3>5. CASE ServerFails(r, y)  BY <3>2, <3>3, <3>5 DEF ServerFails, Report
    <3> QED  BY <1>3, <3>4, <3>5
  <2> DEFINE z == [q EXCEPT !.out[y] = x]
  <2>2. /\ SameJob(q, z)
        /\ z.out[y] = x
        /\ \A s \in Servers \ {y} : z.out[s] = q.out[s]
    BY <1>0 DEF SameJob, ReqRecs, Outcomes
  <2>3. req'[r] = z  BY <1>0, <2>1 DEF Goto
  <2>4. At(r, "fanout") /\ UNCHANGED srv  BY <1>3 DEF ServerOk, ServerFails
  <2> HIDE DEF z
  <2> SUFFICES ASSUME NEW p \in Requests, NEW s \in Servers,
                      At(p, "fanout")', req'[p].out[s] = "ok"
               PROVE  Done(files'[s], Work(req'[p], srv'[s].engine))
    BY DEF OkMeansDone
  <2>5. p = r  BY <1>0, <1>1, <2>1, <2>4 DEF Goto, At, Critical
  <2>6. Work(req'[p], srv'[s].engine) = Work(q, srv[s].engine)
    BY <2>2, <2>3, <2>4, <2>5, SameWork
  <2>7. CASE s # y
    <3>1. q.out[s] = "ok" /\ files'[s] = files[s]  BY <1>0, <2>1, <2>2, <2>3, <2>5, <2>7
    <3> QED  BY <2>4, <2>6, <3>1 DEF OkMeansDone
  <2>8. CASE s = y
    <3>1. files'[s] = Edited(files[s], w, Len(w))
      BY <1>0, <2>1, <2>2, <2>3, <2>5, <2>8
    <3>2. JobFilled(q) /\ q.kind \in TunnelKinds  BY <2>4 DEF JobsKnown, AskedKnown, Asks
    <3>3. w \in Seq(Edits) /\ Distinct(w)  BY <1>0, <3>2, WorkType, WorkDistinct
    <3> HIDE DEF w
    <3>4. files[s] \in [Files -> Contents]  BY <1>0
    <3>5. Done(files'[s], w)  BY <3>1, <3>3, <3>4, EditedDone
    <3> QED  BY <2>6, <2>8, <3>5 DEF w
  <2> QED  BY <2>7, <2>8
(* A server joins, leaves or is switched off: it keeps files and engine,   *)
(* and no fan-out asked one that was not registered.                       *)
<1>4. ASSUME Fleet
      PROVE  OkMeansDone'
  <2>1. UNCHANGED <<req, files>>
    BY <1>4 DEF Fleet, CreateServer, SetActive, DeleteServer, FleetChange
  <2>2. \A s \in Servers : srv[s].st # "none" => srv'[s].engine = srv[s].engine
    <3>1. PICK y \in Servers : \E row : /\ srv' = [srv EXCEPT ![y] = row]
                                        /\ srv[y].st # "none" => row.engine = srv[y].engine
      BY <1>4 DEF Fleet, CreateServer, SetActive, DeleteServer, FleetChange, TypeOK
    <3>2. PICK row : /\ srv' = [srv EXCEPT ![y] = row]
                     /\ srv[y].st # "none" => row.engine = srv[y].engine
      BY <3>1
    <3>3. srv = [x \in Servers |-> srv[x]]  BY DEF TypeOK
    <3>4. srv'[y] = row /\ \A s \in Servers \ {y} : srv'[s] = srv[s]  BY <3>2, <3>3
    <3> QED  BY <3>2, <3>4
  <2> QED  BY <2>1, <2>2 DEF OkMeansDone, AskedKnown, Asks, At
<1>5. CASE UNCHANGED vars  BY <1>5 DEF vars, OkMeansDone, At
<1>6. ASSUME NEW c \in late, LateLands(c)
      PROVE  OkMeansDone'
  BY <1>6
<1>7. ASSUME NEW r \in Requests PROVE ~Disconnect(r)
  BY DEF Disconnect, Steady
<1> QED
  BY <1>2, <1>3, <1>4, <1>5, <1>6, <1>7, StepShape DEF Next

LEMMA FleetInit == Init => FleetInv
<1> SUFFICES ASSUME Init PROVE FleetInv
  OBVIOUS
<1>1. TypeOK  BY TypeInit
<1>2. OneWriter  BY NoneAssumption DEF Init, OneWriter, NoRequest, Critical
<1>3. NoRequest.kind = "none" /\ NoRequest.pc = "idle" /\ NoRow.st = "none"
  BY DEF NoRequest, NoRow
<1>4. Known
  BY <1>3 DEF Init, Known, RowsFilled, JobsKnown, JobFilled, OldKinds, AskedKnown, At
<1>5. OkMeansDone  BY <1>3 DEF Init, OkMeansDone, At
<1> QED  BY <1>1, <1>2, <1>4, <1>5 DEF FleetInv

LEMMA FleetStep == FleetInv /\ Steady /\ [Next]_vars => FleetInv'
BY TypeStep, OneWriterStep, KnownStep, OkStep DEF FleetInv

(* On a fleet without SSM, and while no database connection is lost, a     *)
(* server that confirmed a push or a removal holds what was confirmed      *)
(* until the fan-out's outcome is committed, whatever other requests and   *)
(* the fleet do meanwhile.                                                 *)
THEOREM OkStays == Steady => (Spec => []OkMeansDone)
<1> SUFFICES ASSUME Steady PROVE Spec => []OkMeansDone
  OBVIOUS
<1>1. Init => FleetInv  BY FleetInit
<1>2. FleetInv /\ [Next]_vars => FleetInv'  BY FleetStep
<1>3. FleetInv => OkMeansDone  BY DEF FleetInv
<1> QED  BY <1>1, <1>2, <1>3, PTL DEF Spec

(* Only a confirmed delete turns a live row into a deleted one.            *)
LEMMA OnlyDelete ==
    ASSUME TypeOK, Known, NEW t \in Tunnels, [Next]_vars,
           tun[t].st = "live", tun'[t].st = "deleted"
    PROVE  \E p \in Requests : FinishDelete(p)
<1>0. tun \in [Tunnels -> Rows]  BY DEF TypeOK
<1>1. ~UNCHANGED tun  OBVIOUS
<1>2. PICK p \in Requests : Progress(p)
  <2>1. ASSUME NEW r \in Requests, Arrive(r) PROVE UNCHANGED tun
    BY <2>1, ArriveShape DEF Begin, Known, Informed
  <2>2. ASSUME NEW r \in Requests, Abort(r) \/ Disconnect(r) PROVE UNCHANGED tun
    BY <2>2 DEF Abort, Disconnect, Rollback
  <2>3. Fleet => UNCHANGED tun
    BY DEF Fleet, CreateServer, SetActive, DeleteServer, FleetChange
  <2> QED  BY <1>1, <2>1, <2>2, <2>3 DEF Next, vars, LateLands
<1> DEFINE q == req[p]
           cur == tun[q.t]
<1>3. ASSUME NEW sync, NEW psk, NEW details, Commit(p, Saved(q, cur, sync, psk, details))
      PROVE  FALSE
  <2>1. Saved(q, cur, sync, psk, details).st \in {"live", cur.st}  BY DEF Saved
  <2>2. tun' = [tun EXCEPT ![q.t] = Saved(q, cur, sync, psk, details)]  BY <1>3 DEF Commit
  <2> HIDE DEF q, cur
  <2>3. tun'[t].st \in {"live", tun[t].st}  BY <1>0, <2>1, <2>2 DEF cur
  <2> QED  BY <2>3
<1>4. CASE \/ RenameWithoutPsk(p) \/ KmsFails(p) \/ NoServers(p) \/ FinishSync(p)
  BY <1>1, <1>3, <1>4 DEF RenameWithoutPsk, KmsFails, CommitUnsynced, NoServers, FinishSync,
     Rollback
<1>5. CASE \/ CheckName(p) \/ TakeLock(p) \/ LockDenied(p) \/ IndexRejects(p) \/ UpdateQuiet(p)
           \/ StartFanOut(p) \/ (\E s \in Servers : ServerOk(p, s) \/ ServerFails(p, s))
           \/ DeleteAborted(p) \/ StartRepush(p) \/ FinishEngine(p) \/ FinishRule(p) \/ CutEnds(p)
  BY <1>1, <1>5 DEF CheckName, TakeLock, LockDenied, IndexRejects, UpdateQuiet, StartFanOut,
     ServerOk, ServerFails, DeleteAborted, StartRepush, FinishEngine, FinishRule, CutEnds, Rollback
<1> QED  BY <1>1, <1>2, <1>4, <1>5, RepushShape, CleanupShape DEF Progress

(* On a fleet without SSM, and while no database connection is lost, a row *)
(* is deleted only when every server its delete asked has lost the files   *)
(* of the name it was asked to remove.                                     *)
THEOREM DeletedOnceConfirmed == Steady => (Spec => DeleteConfirmed)
<1> SUFFICES ASSUME Steady PROVE Spec => DeleteConfirmed
  OBVIOUS
<1>1. Init => FleetInv  BY FleetInit
<1>2. FleetInv /\ [Next]_vars => FleetInv'  BY FleetStep
<1>3. FleetInv /\ [Next]_vars =>
        [\A r \in Requests, t \in Tunnels :
            /\ tun[t].st = "live" /\ tun'[t].st = "deleted"
            /\ req[r].t = t /\ req[r].pc = "fanout"
            => \A s \in Asked(req[r].out) :
                  Done(files[s], Remove(srv[s].engine, req[r].old.name))]_vars
  <2> SUFFICES ASSUME FleetInv, [Next]_vars, NEW r \in Requests, NEW t \in Tunnels,
                      tun[t].st = "live", tun'[t].st = "deleted", req[r].pc = "fanout",
                      NEW s \in Asked(req[r].out)
               PROVE  Done(files[s], Remove(srv[s].engine, req[r].old.name))
    OBVIOUS
  <2>1. PICK p \in Requests : FinishDelete(p)  BY OnlyDelete DEF FleetInv
  <2>2. At(p, "fanout") /\ req[p].kind = "delete" /\ AllOk(req[p].out)
    BY <2>1 DEF FinishDelete, Gathered
  <2>3. p = r  BY <2>2, StayConnected DEF FleetInv, OneWriter, Critical, At
  <2>4. s \in Servers /\ req[r].out[s] = "ok"  BY <2>2, <2>3 DEF AllOk, Asked
  <2>5. Done(files[s], Work(req[r], srv[s].engine))
    BY <2>2, <2>3, <2>4 DEF FleetInv, OkMeansDone
  <2> QED  BY <2>2, <2>3, <2>5 DEF Work
<1> QED  BY <1>1, <1>2, <1>3, PTL DEF Spec, DeleteConfirmed
-----------------------------------------------------------------------------
(* What a request may do to the files of a row it does not rework.         *)

(* The first k edits of w leave alone, or write again, what row needs.     *)
Harmless(w, k, row) == \A i \in 1..k :
    \/ \E path, n : w[i].file = <<path, n>> /\ n # row.name
    \/ \E path : w[i] = Write(path, row)

LEMMA PushWrites ==
    ASSUME NEW e, NEW row
    PROVE  \A i \in DOMAIN Push(e, row) : \E path \in Paths : Push(e, row)[i] = Write(path, row)
<1> DEFINE W(path) == Write(path, row)
<1>1. Push(e, row) = << W("swanctl") >> \/ Push(e, row) = << W("conf"), W("secrets") >>
  BY DEF Push
<1> HIDE DEF W
<1>2. \A i \in DOMAIN Push(e, row) : Push(e, row)[i] \in {W("swanctl"), W("conf"), W("secrets")}
  BY <1>1
<1> QED  BY <1>2 DEF Paths, W

LEMMA WriteFields ==
    ASSUME NEW path, NEW row
    PROVE  /\ Write(path, row).file = <<path, row.name>>
           /\ Write(path, row).to = Content(path, row)
BY DEF Write, Edit

LEMMA EditsKeep ==
    ASSUME NEW fs \in [Files -> Contents], NEW w, NEW k \in Nat, NEW e,
           NEW row, row.name \in Names, Harmless(w, k, row), Done(fs, Push(e, row))
    PROVE  Done(Edited(fs, w, k), Push(e, row))
<1> SUFFICES ASSUME NEW j \in DOMAIN Push(e, row)
             PROVE  Edited(fs, w, k)[Push(e, row)[j].file] = Push(e, row)[j].to
  BY DEF Done
<1>1. PICK p \in Paths : Push(e, row)[j] = Write(p, row)  BY PushWrites
<1> DEFINE f == Push(e, row)[j].file
<1>2. f = <<p, row.name>> /\ Push(e, row)[j].to = Content(p, row)  BY <1>1, WriteFields
<1>3. f \in Files  BY <1>2 DEF Files
<1>4. fs[f] = Push(e, row)[j].to  BY DEF Done
<1> HIDE DEF f
<1>5. CASE \E i \in 1..k : w[i].file = f
  <2> DEFINE i == CHOOSE i \in 1..k : w[i].file = f
  <2>1. i \in 1..k /\ w[i].file = f  BY <1>5
  <2>2. Edited(fs, w, k)[f] = w[i].to  BY <1>3, <1>5 DEF Edited
  <2> HIDE DEF i
  <2>3. PICK path : w[i] = Write(path, row)  BY <1>2, <2>1, FilesDiffer DEF Harmless
  <2>4. path = p  BY <1>2, <2>1, <2>3, FilesDiffer, WriteFields
  <2> QED  BY <1>2, <2>2, <2>3, <2>4, WriteFields DEF f
<1>6. CASE ~ \E i \in 1..k : w[i].file = f
  BY <1>3, <1>4, <1>6 DEF Edited, f
<1> QED  BY <1>5, <1>6

LEMMA EraseKeeps ==
    ASSUME NEW g, NEW F, NEW e, NEW row, row.name \in Names, Done(g, Push(e, row)),
           \A i \in DOMAIN Push(e, row) : Push(e, row)[i].file \notin F
    PROVE  Done([f \in Files |-> IF f \in F THEN None ELSE g[f]], Push(e, row))
<1>1. Distinct(Push(e, row))  BY PushDistinct
<1> QED  BY <1>1 DEF Done, Distinct

(* The edits of a push depend on the settings alone.                       *)
LEMMA SamePush ==
    ASSUME NEW e, NEW x, NEW y, x.name = y.name, x.conf = y.conf, x.psk = y.psk
    PROVE  Push(e, x) = Push(e, y)
BY DEF Push, Write, Content

LEMMA PushHarmless ==
    ASSUME NEW e, NEW x, NEW row, Push(e, x) \in Seq(Edits),
           \/ x.name # row.name
           \/ x.name = row.name /\ x.conf = row.conf /\ x.psk = row.psk,
           NEW k \in 0..Len(Push(e, x))
    PROVE  Harmless(Push(e, x), k, row)
<1>1. CASE x.name # row.name
  <2>1. \A i \in 1..k : i \in DOMAIN Push(e, x)  OBVIOUS
  <2> QED  BY <1>1, <2>1, NamesPushed DEF Harmless
<1>2. CASE x.name = row.name /\ x.conf = row.conf /\ x.psk = row.psk
  <2>1. \A i \in 1..k : i \in DOMAIN Push(e, x)  OBVIOUS
  <2>2. Push(e, x) = Push(e, row)  BY <1>2, SamePush
  <2> QED  BY <2>1, <2>2, PushWrites DEF Harmless
<1> QED  BY <1>1, <1>2

(* The files a fan-out touches bear the names the request works under.     *)
LEMMA NamesWork ==
    ASSUME NEW q \in ReqRecs, NEW e, NEW i \in DOMAIN Work(q, e)
    PROVE  \E p, n : /\ Work(q, e)[i].file = <<p, n>>
                     /\ \/ q.kind # "delete" /\ n = Pushed(q).name
                        \/ (q.kind = "delete" \/ Renames(q)) /\ n = q.old.name
<1> DEFINE v == Remove(e, q.old.name)
           w == Push(e, Pushed(q))
<1>1. v \in Seq(Edits) /\ w \in Seq(Edits)  BY PushedType, RemoveType, PushType
<1>2. /\ \A j \in DOMAIN v : \E p : v[j].file = <<p, q.old.name>>
      /\ \A j \in DOMAIN w : \E p : w[j].file = <<p, Pushed(q).name>>
  BY NamesRemoved, NamesPushed
<1>3. CASE q.kind = "delete"  BY <1>2, <1>3 DEF Work
<1>4. CASE q.kind # "delete" /\ ~Renames(q)  BY <1>2, <1>4 DEF Work
<1>5. CASE q.kind # "delete" /\ Renames(q)
  <2>1. Work(q, e) = v \o w  BY <1>5 DEF Work
  <2> HIDE DEF v, w
  <2>2. \/ i \in DOMAIN v /\ (v \o w)[i] = v[i]
        \/ \E j \in DOMAIN w : (v \o w)[i] = w[j]
    BY <1>1, <2>1
  <2> QED  BY <1>2, <1>5, <2>1, <2>2
<1> QED  BY <1>3, <1>4, <1>5

(* What a finished fan-out leaves includes a push of the new settings.     *)
LEMMA WorkPushes ==
    ASSUME NEW q \in ReqRecs, NEW e, NEW fs, q.kind # "delete", Done(fs, Work(q, e))
    PROVE  Done(fs, Push(e, Pushed(q)))
<1> DEFINE v == Remove(e, q.old.name)
           w == Push(e, Pushed(q))
<1>1. v \in Seq(Edits) /\ w \in Seq(Edits)  BY PushedType, RemoveType, PushType
<1>2. CASE ~Renames(q)  BY <1>2 DEF Work
<1>3. CASE Renames(q)
  <2>1. Work(q, e) = v \o w  BY <1>3 DEF Work
  <2> HIDE DEF v, w
  <2>2. \A j \in DOMAIN w : \E i \in DOMAIN (v \o w) : (v \o w)[i] = w[j]
    <3> SUFFICES ASSUME NEW j \in DOMAIN w PROVE \E i \in DOMAIN (v \o w) : (v \o w)[i] = w[j]
      OBVIOUS
    <3>1. Len(v) + j \in DOMAIN (v \o w) /\ (v \o w)[Len(v) + j] = w[j]  BY <1>1
    <3> QED  BY <3>1
  <2>3. Done(fs, w)  BY <2>1, <2>2 DEF Done
  <2> QED  BY <2>3 DEF w
<1> QED  BY <1>2, <1>3

-----------------------------------------------------------------------------
(* The database against the fleet, for workloads in which no request edits *)
(* or deletes a tunnel another request works on.                           *)

(* Nothing orders the read of a row before the lock of the request that    *)
(* reads it: two overlapping updates of one tunnel may leave the row and   *)
(* the servers with different settings (README, section 5).  A retry may   *)
(* overlap a retry, and everything else any request on another tunnel.     *)
Apart == \A p, r \in Requests :
    /\ p # r
    /\ req[p].kind \in {"update", "delete"} /\ req[r].kind \in TunnelKinds
    => req[p].t # req[r].t

(* The settings of the row are those the request loaded.                   *)
Holds(q) == /\ tun[q.t].name = q.old.name
            /\ tun[q.t].conf = q.old.conf
            /\ tun[q.t].psk = q.old.psk

(* A server the row calls ok although the retry q loaded another outcome   *)
(* was confirmed by a retry in between.                                    *)
RetryOf(q) == /\ q.patch = NoPatch /\ Holds(q)
              /\ tun[q.t].st = "live" /\ q.old.st = "live"
              /\ q.old.sync \in {"failed", "partial"}
              /\ \A s \in Servers : tun[q.t].details[s] = "ok" =>
                    q.old.details[s] = "ok" \/ RowInstalled(s, q.t)

(* The files about to go are those of the old engine for a tunnel that is  *)
(* installed under the new one.                                            *)
Cleaning(q) == \E t \in Tunnels :
    /\ tun[t].st = "live"
    /\ Done(files[q.s], Push(OtherEngine(q.eng), tun[t]))
    /\ q.gone \subseteq FilesOf(Remove(q.eng, tun[t].name))

(* What a request knows is still so: its copy of the row is current.       *)
Current(q) ==
    /\ q.kind = "create" => q.old = NoRow /\ tun[q.t] = NoRow
    /\ q.kind \in {"update", "delete"} => tun[q.t] = q.old /\ q.old.st = "live"
    /\ q.kind = "delete" => q.patch = NoPatch /\ \A s \in Servers : q.out[s] # "failed"
    /\ q.kind = "delete" => "infra" \notin Faults
    /\ q.kind = "retry" => RetryOf(q)
    /\ q.kind = "engine" => q.eng \in Engines
    /\ q.pc = "repush" => \A t \in q.left : tun[t].st = "live"
    /\ q.gone # {} => q.pc = "repush" /\ Cleaning(q)

(* The tunnel is being reworked: its files change before its row does.     *)
Reworks(q, t) == q.pc = "fanout" /\ q.kind \in {"update", "delete"} /\ q.t = t
Reworked(t)   == \E r \in Requests : Reworks(req[r], t)

Claims(t, s) == /\ tun[t].st = "live" /\ tun[t].sync \in {"synced", "partial"}
                /\ tun[t].details[s] = "ok"

EnginesKnown  == \A s \in Servers : srv[s].st # "none" => srv[s].engine \in Engines
UnusedRows    == \A t \in Tunnels : tun[t].st = "none" => tun[t] = NoRow
ClaimsCurrent == \A t \in Tunnels, s \in Servers :
                    Claims(t, s) /\ ~Reworked(t) => RowInstalled(s, t)
AllCurrent    == \A r \in Requests : Current(req[r])

DbInv == AllCurrent /\ UnusedRows /\ EnginesKnown /\ ClaimsCurrent

(* The workload and the faults the theorem is about.                       *)
Calm == /\ Steady
        /\ "abort" \notin Faults
        /\ "delete" \in Kinds => "infra" \notin Faults

(* A request moves on without a commit, and harms no file but those of the *)
(* row it reworks.                                                         *)
Moves(r, z) ==
    /\ Goto(r, z) /\ tun' = tun
    /\ req[r].pc \notin Critical => files' = files
    /\ EnginesKnown'
    /\ At(r, "fanout") => /\ z.pc = "fanout" /\ z.kind = req[r].kind /\ z.t = req[r].t
    /\ \A t \in Tunnels, s \in Servers :
          tun[t].st = "live" /\ RowInstalled(s, t) /\ ~Reworks(req[r], t)
          => RowInstalled(s, t)'
    /\ Current(z)'

LEMMA DbKept ==
    ASSUME TypeOK, OneWriter, Known, DbInv, Apart, NEW r \in Requests, NEW z, Moves(r, z)
    PROVE  DbInv'
<1>0. req \in [Requests -> ReqRecs]  BY DEF TypeOK
<1>1. req' = [req EXCEPT ![r] = z] /\ tun' = tun  BY DEF Moves, Goto
<1>2. \A p \in Requests \ {r} : req'[p] = req[p]  BY <1>0, <1>1
<1>3. req'[r] = z  BY <1>0, <1>1
<1>4. ASSUME NEW p \in Requests \ {r}
      PROVE  Current(req[p])'
  <2> PICK q : q = req[p]  OBVIOUS
  <2>1. Current(q) /\ req'[p] = q  BY <1>2 DEF DbInv, AllCurrent
  <2>4. ASSUME q.gone # {}
        PROVE  q.pc = "repush" /\ Cleaning(q)'
    <3>1. q.pc = "repush" /\ Cleaning(q)  BY <2>1, <2>4 DEF Current
    <3>2. req[r].pc \notin Critical
      BY <3>1, StayConnected DEF OneWriter, Critical
    <3>3. UNCHANGED <<tun, files>>  BY <3>2 DEF Moves
    <3> QED  BY <3>1, <3>3 DEF Cleaning
  <2>2. CASE q.kind = "retry"
    <3>1. q.t \in Tunnels  BY <2>2 DEF TypeOK, Coherent, TunnelKinds
    <3>2. RetryOf(q)  BY <2>1, <2>2 DEF Current
    <3>3. ~Reworks(req[r], q.t)  BY <2>2 DEF Apart, Reworks, TunnelKinds
    <3>4. \A s \in Servers : RowInstalled(s, q.t) => RowInstalled(s, q.t)'
      BY <3>1, <3>2, <3>3 DEF Moves, RetryOf
    <3>5. RetryOf(q)'  BY <1>1, <3>2, <3>4 DEF RetryOf, Holds
    <3> QED  BY <1>1, <2>1, <2>2, <2>4, <3>5 DEF Current
  <2>3. CASE q.kind # "retry"
    BY <1>1, <2>1, <2>3, <2>4 DEF Current
  <2> QED  BY <2>2, <2>3
<1>5. AllCurrent'
  <2>1. Current(z)'  BY DEF Moves
  <2> QED  BY <1>3, <1>4, <2>1 DEF AllCurrent
<1>6. UnusedRows'  BY <1>1 DEF DbInv, UnusedRows
<1>7. ClaimsCurrent'
  <2> SUFFICES ASSUME NEW t \in Tunnels, NEW s \in Servers, Claims(t, s)', ~Reworked(t)'
               PROVE  RowInstalled(s, t)'
    BY DEF ClaimsCurrent
  <2>1. Claims(t, s)  BY <1>1 DEF Claims
  <2>2. \A p \in Requests : ~Reworks(req'[p], t)  BY DEF Reworked
  <2>3. \A p \in Requests : Reworks(req[p], t) => Reworks(req'[p], t)
    BY <1>2, <1>3 DEF Moves, Reworks, At
  <2>4. ~Reworked(t)  BY <2>2, <2>3 DEF Reworked
  <2>5. RowInstalled(s, t)  BY <2>1, <2>4 DEF DbInv, ClaimsCurrent
  <2> QED  BY <2>1, <2>2, <2>3, <2>5 DEF Moves, Claims
<1> QED  BY <1>5, <1>6, <1>7 DEF DbInv, Moves

(* A request commits a row whose claims are true.                          *)
Fitting(r, row) ==
    LET q == req[r]
        cur == tun[q.t]
        there(s) == \E e \in Engines : Done(files[s], Push(e, row))
    IN  /\ Commit(r, row)
        /\ q.pc \in {"locked", "fanout"} /\ q.kind \in TunnelKinds
        /\ row.st # "none"
        /\ \A s \in Servers :
              /\ row.st = "live" /\ row.sync \in {"synced", "partial"}
              /\ row.details[s] = "ok"
              => there(s)
        /\ q.kind = "retry" =>
              /\ row.st = "live"
              /\ row.name = cur.name /\ row.conf = cur.conf /\ row.psk = cur.psk
              /\ \A s \in Servers : row.details[s] = "ok" => cur.details[s] = "ok" \/ there(s)

LEMMA DbCommit ==
    ASSUME NamesInv, Known, DbInv, Apart, NEW r \in Requests, NEW row, Fitting(r, row)
    PROVE  DbInv'
<1> PICK q : q = req[r]  OBVIOUS
<1> DEFINE cur == tun[q.t]
<1>0. req \in [Requests -> ReqRecs] /\ tun \in [Tunnels -> Rows] /\ q.t \in Tunnels
  BY DEF NamesInv, TypeOK, Coherent, Fitting
<1>1. /\ req' = [req EXCEPT ![r] = NoRequest] /\ tun' = [tun EXCEPT ![q.t] = row]
      /\ UNCHANGED <<srv, files>>
  BY DEF Fitting, Commit, EndOf, Goto
<1>2. /\ \A p \in Requests \ {r} : req'[p] = req[p]
      /\ req'[r] = NoRequest
      /\ \A t \in Tunnels \ {q.t} : tun'[t] = tun[t]
      /\ tun'[q.t] = row
  BY <1>0, <1>1
<1>3. NoRequest.kind = "none" /\ NoRequest.pc = "idle" /\ NoRequest.gone = {}  BY DEF NoRequest
<1>4. /\ q.pc \in {"locked", "fanout"} /\ q.kind \in TunnelKinds
      /\ row.st # "none"
      /\ \A s \in Servers :
            /\ row.st = "live" /\ row.sync \in {"synced", "partial"} /\ row.details[s] = "ok"
            => \E e \in Engines : Done(files[s], Push(e, row))
      /\ q.kind = "retry" =>
            /\ row.st = "live"
            /\ row.name = cur.name /\ row.conf = cur.conf /\ row.psk = cur.psk
            /\ \A s \in Servers : row.details[s] = "ok" =>
                  cur.details[s] = "ok" \/ \E e \in Engines : Done(files[s], Push(e, row))
  BY DEF Fitting
<1>5. ASSUME NEW s \in Servers, NEW t \in Tunnels \ {q.t}
      PROVE  RowInstalled(s, t)' <=> RowInstalled(s, t)
  BY <1>1, <1>2 DEF RowInstalled
<1>6. ASSUME NEW s \in Servers
      PROVE  RowInstalled(s, q.t)' <=> \E e \in Engines : Done(files[s], Push(e, row))
  BY <1>1, <1>2 DEF RowInstalled
<1>7. ASSUME NEW p \in Requests \ {r}
      PROVE  Current(req[p])'
  <2> PICK x : x = req[p]  OBVIOUS
  <2>1. Current(x) /\ req'[p] = x  BY <1>2 DEF DbInv, AllCurrent
  <2>2. x.pc # "repush"  BY <1>4, StayConnected DEF NamesInv, OneWriter, Critical
  <2>3. CASE x.kind \in {"create", "update", "delete"}
    <3>1. x.t \in Tunnels  BY <2>3 DEF NamesInv, TypeOK, Coherent, TunnelKinds
    <3>2. x.t # q.t  BY <1>4, <2>3 DEF NamesInv, FreshIds, Apart
    <3>3. tun'[x.t] = tun[x.t]  BY <1>2, <3>1, <3>2
    <3>4. x.kind # "retry" /\ x.kind # "engine"  BY <2>3
    <3> QED  BY <2>1, <2>2, <3>3, <3>4 DEF Current
  <2>4. CASE x.kind = "retry"
    <3>1. x.t \in Tunnels  BY <2>4 DEF NamesInv, TypeOK, Coherent, TunnelKinds
    <3>2. RetryOf(x)  BY <2>1, <2>4 DEF Current
    <3>3. CASE x.t # q.t
      <4>1. tun'[x.t] = tun[x.t]  BY <1>2, <3>1, <3>3
      <4>2. \A s \in Servers : RowInstalled(s, x.t)' <=> RowInstalled(s, x.t)  BY <1>5, <3>1, <3>3
      <4>3. RetryOf(x)'  BY <3>2, <4>1, <4>2 DEF RetryOf, Holds
      <4> QED  BY <2>1, <2>2, <2>4, <4>3 DEF Current
    <3>4. CASE x.t = q.t
      <4>1. q.kind = "retry"
        BY <1>4, <2>4, <3>4 DEF NamesInv, FreshIds, Apart, TunnelKinds
      <4>2. Holds(x)' /\ tun'[x.t].st = "live"
        BY <1>2, <1>4, <3>2, <3>4, <4>1 DEF RetryOf, Holds
      <4>3. ASSUME NEW s \in Servers, row.details[s] = "ok"
            PROVE  x.old.details[s] = "ok" \/ RowInstalled(s, q.t)'
        <5>1. CASE cur.details[s] = "ok" /\ RowInstalled(s, q.t)
          <6>1. PICK e \in Engines : Done(files[s], Push(e, cur))  BY <5>1 DEF RowInstalled
          <6>2. Push(e, row) = Push(e, cur)  BY <1>4, <4>1, SamePush
          <6> QED  BY <1>6, <6>1, <6>2
        <5>2. CASE \E e \in Engines : Done(files[s], Push(e, row))  BY <1>6, <5>2
        <5> QED  BY <1>4, <3>2, <3>4, <4>1, <4>3, <5>1, <5>2 DEF RetryOf
      <4>4. RetryOf(x)'  BY <1>2, <3>2, <3>4, <4>2, <4>3 DEF RetryOf
      <4> QED  BY <2>1, <2>2, <2>4, <4>4 DEF Current
    <3> QED  BY <3>3, <3>4
  <2>5. CASE x.kind \notin {"create", "update", "delete", "retry"}
    BY <2>1, <2>2, <2>5 DEF Current
  <2> QED  BY <2>3, <2>4, <2>5
<1>8. AllCurrent'
  <2>1. Current(NoRequest)'  BY <1>3 DEF Current
  <2> QED  BY <1>2, <1>7, <2>1 DEF AllCurrent
<1>9. UnusedRows'  BY <1>2, <1>4 DEF DbInv, UnusedRows
<1>10. EnginesKnown'  BY <1>1 DEF DbInv, EnginesKnown
<1>11. ClaimsCurrent'
  <2> SUFFICES ASSUME NEW t \in Tunnels, NEW s \in Servers, Claims(t, s)', ~Reworked(t)'
               PROVE  RowInstalled(s, t)'
    BY DEF ClaimsCurrent
  <2>1. CASE t = q.t  BY <1>2, <1>4, <1>6, <2>1 DEF Claims
  <2>2. CASE t # q.t
    <3>1. Claims(t, s)  BY <1>2, <2>2 DEF Claims
    <3>2. ~Reworked(t)  BY <1>2, <2>2 DEF Reworked, Reworks
    <3> QED  BY <1>5, <2>2, <3>1, <3>2 DEF DbInv, ClaimsCurrent
  <2> QED  BY <2>1, <2>2
<1> QED  BY <1>8, <1>9, <1>10, <1>11 DEF DbInv

(* Steps that touch neither a row nor a server.                            *)
LEMMA StillMoves ==
    ASSUME DbInv, NEW r \in Requests, NEW z, Goto(r, z), UNCHANGED <<tun, files>>, EnginesKnown',
           At(r, "fanout") => z.pc = "fanout" /\ z.kind = req[r].kind /\ z.t = req[r].t,
           Current(z)
    PROVE  Moves(r, z)
<1>1. \A t, s : RowInstalled(s, t)' <=> RowInstalled(s, t)  BY DEF RowInstalled
<1>2. Current(z)'  BY <1>1 DEF Current, RetryOf, Holds, Cleaning
<1> QED  BY <1>1, <1>2 DEF Moves

LEMMA DbArrive ==
    ASSUME TypeOK, DbInv, Calm, NEW r \in Requests, Arrive(r)
    PROVE  \E z : Moves(r, z)
<1>1. ASSUME NEW z, Begin(r, z), Current(z)
      PROVE  \E y : Moves(r, y)
  <2>1. Goto(r, z) /\ UNCHANGED <<tun, files, srv>> /\ ~At(r, "fanout")
    BY <1>1 DEF Begin, At
  <2>2. EnginesKnown'  BY <2>1 DEF DbInv, EnginesKnown
  <2> QED  BY <1>1, <2>1, <2>2, StillMoves
<1>2. NoRequest.out = NoDetails /\ \A s \in Servers : NoDetails[s] # "failed"
  BY DEF NoRequest, NoDetails
<1>3. ASSUME NEW t \in Tunnels, NEW d \in NewTunnels, BeginCreate(r, t, d)
      PROVE  \E y : Moves(r, y)
  <2> DEFINE z == [NoRequest EXCEPT !.pc = "checked", !.kind = "create", !.t = t, !.patch = d]
  <2>1. z.kind = "create" /\ z.pc = "checked" /\ z.t = t /\ z.old = NoRow /\ z.gone = {}
    BY DEF NoRequest
  <2>2. Begin(r, z) /\ tun[t] = NoRow  BY <1>3 DEF BeginCreate, DbInv, UnusedRows
  <2> HIDE DEF z
  <2> QED  BY <1>1, <2>1, <2>2 DEF Current
<1>4. ASSUME NEW t \in Tunnels, tun[t].st = "live", NEW kind \in OldKinds, NEW p,
             NEW pc \in {"loaded", "checked"}, Begin(r, Loaded(kind, t, p, pc)),
             kind \in {"delete", "retry"} => p = NoPatch,
             kind = "retry" => tun[t].sync \in {"failed", "partial"}
      PROVE  \E y : Moves(r, y)
  <2> DEFINE z == Loaded(kind, t, p, pc)
  <2>1. /\ z.pc = pc /\ z.kind = kind /\ z.t = t /\ z.old = tun[t] /\ z.patch = p
        /\ z.out = NoDetails /\ z.gone = {}
    BY DEF Loaded, NoRequest
  <2>2. Begin(r, z)  BY <1>4
  <2> HIDE DEF z
  <2>3. z.kind \in Kinds  BY <2>2 DEF Begin
  <2>4. z.kind = "delete" => "infra" \notin Faults  BY <2>3 DEF Calm
  <2>5. z.kind = "retry" => RetryOf(z)  BY <1>4, <2>1 DEF RetryOf, Holds
  <2>6. Current(z)  BY <1>2, <1>4, <2>1, <2>4, <2>5 DEF Current, OldKinds
  <2> QED  BY <1>1, <2>2, <2>6
<1>5. ASSUME NEW t \in Tunnels, NEW p, BeginUpdate(r, t, p)
      PROVE  \E y : Moves(r, y)
  <2>1. [Loaded("update", t, p, "checked") EXCEPT !.pc = "loaded"] = Loaded("update", t, p, "loaded")
    BY DEF Loaded, NoRequest
  <2>2. tun[t].st = "live" /\ \E pc \in {"loaded", "checked"} : Begin(r, Loaded("update", t, p, pc))
    BY <1>5, <2>1 DEF BeginUpdate
  <2> QED  BY <1>4, <2>2 DEF OldKinds
<1>6. ASSUME NEW t \in Tunnels, BeginDelete(r, t)
      PROVE  \E y : Moves(r, y)
  BY <1>4, <1>6 DEF BeginDelete, OldKinds
<1>7. ASSUME NEW t \in Tunnels, BeginRetry(r, t)
      PROVE  \E y : Moves(r, y)
  BY <1>4, <1>7 DEF BeginRetry, OldKinds
<1>8. ASSUME NEW t \in Tunnels, BeginRule(r, t)
      PROVE  \E y : Moves(r, y)
  <2> DEFINE z == [NoRequest EXCEPT !.pc = "attach", !.kind = "rule", !.t = t]
  <2>1. z.pc = "attach" /\ z.kind = "rule" /\ z.gone = {}  BY DEF NoRequest
  <2>2. Begin(r, z)  BY <1>8 DEF BeginRule
  <2> HIDE DEF z
  <2> QED  BY <1>1, <2>1, <2>2 DEF Current
<1>9. ASSUME NEW s \in Servers, BeginEngine(r, s)
      PROVE  \E y : Moves(r, y)
  <2> DEFINE z == [NoRequest EXCEPT !.pc = "checked", !.kind = "engine", !.s = s,
                                    !.eng = srv[s].engine]
  <2>1. z.pc = "checked" /\ z.kind = "engine" /\ z.eng = srv[s].engine /\ z.gone = {}
    BY DEF NoRequest
  <2>2. Begin(r, z) /\ srv[s].engine \in Engines  BY <1>9 DEF BeginEngine, DbInv, EnginesKnown
  <2> HIDE DEF z
  <2> QED  BY <1>1, <2>1, <2>2 DEF Current
<1> QED  BY <1>3, <1>5, <1>6, <1>7, <1>8, <1>9 DEF Arrive

(* The steps of a request that only move itself on, or end it before it    *)
(* has asked a server.                                                     *)
LEMMA DbGoesOn ==
    ASSUME TypeOK, DbInv, Calm, NEW r \in Requests,
           \/ CheckName(r) \/ TakeLock(r) \/ LockDenied(r) \/ IndexRejects(r) \/ UpdateQuiet(r)
           \/ (KmsFails(r) /\ req[r].kind = "create")
           \/ (NoServers(r) /\ req[r].kind = "delete")
           \/ StartFanOut(r) \/ StartRepush(r) \/ FinishEngine(r) \/ FinishRule(r)
    PROVE  \E z : Moves(r, z)
<1> PICK q : q = req[r]  OBVIOUS
<1>0. q \in ReqRecs /\ Current(q)  BY DEF TypeOK, DbInv, AllCurrent
<1>1. Current(NoRequest)  BY DEF Current, NoRequest
<1>2. EnginesKnown'
  <2>1. CASE FinishEngine(r)
    <3>1. \A e : OtherEngine(e) \in Engines  BY DEF OtherEngine, Engines
    <3>2. srv' = [srv EXCEPT ![req[r].s].engine = OtherEngine(req[r].eng)]
      BY <2>1 DEF FinishEngine
    <3>3. \A s \in Servers : \/ srv'[s] = srv[s]
                             \/ srv'[s].st = srv[s].st /\ srv'[s].engine \in Engines
      BY <3>1, <3>2 DEF TypeOK
    <3> QED  BY <3>3 DEF DbInv, EnginesKnown
  <2>2. CASE ~FinishEngine(r)
    <3>1. srv' = srv
      BY <2>2 DEF CheckName, TakeLock, LockDenied, IndexRejects, UpdateQuiet, KmsFails, NoServers,
         StartFanOut, StartRepush, FinishRule, Rollback
    <3> QED  BY <3>1 DEF DbInv, EnginesKnown
  <2> QED  BY <2>1, <2>2
<1>3. UNCHANGED <<tun, files>>
  BY DEF CheckName, TakeLock, LockDenied, IndexRejects, UpdateQuiet, KmsFails, NoServers,
     StartFanOut, StartRepush, FinishEngine, FinishRule, Rollback
<1>4. ~At(r, "fanout")
  BY DEF CheckName, TakeLock, LockDenied, IndexRejects, UpdateQuiet, KmsFails, NoServers,
     StartFanOut, StartRepush, FinishEngine, Repushed, FinishRule, TunnelLocked, At
<1>5. ASSUME NEW z, Goto(r, z), Current(z)
      PROVE  \E y : Moves(r, y)
  BY <1>2, <1>3, <1>4, <1>5, StillMoves
<1>6. CASE Goto(r, NoRequest)  BY <1>1, <1>5, <1>6
<1>7. CASE CheckName(r) \/ TakeLock(r)
  <2>1. CASE \E pc \in {"checked", "locked"} : Goto(r, [q EXCEPT !.pc = pc])
    <3>1. PICK pc \in {"checked", "locked"} : Goto(r, [q EXCEPT !.pc = pc])  BY <2>1
    <3> DEFINE z == [q EXCEPT !.pc = pc]
    <3>2. SameJob(q, z) /\ z.pc # "repush" /\ z.out = q.out /\ z.eng = q.eng /\ z.gone = q.gone
      BY <1>0 DEF SameJob, ReqRecs
    <3>3. Goto(r, z) /\ q.pc # "repush"  BY <1>7, <3>1 DEF CheckName, TakeLock, At
    <3> HIDE DEF z
    <3>4. Current(z)  BY <3>3, <1>0, <3>2 DEF Current, SameJob, RetryOf, Holds
    <3> QED  BY <1>5, <3>3, <3>4
  <2> QED  BY <1>6, <1>7, <2>1 DEF CheckName, TakeLock
<1>8. CASE StartFanOut(r)
  <2> DEFINE out == [s \in Servers |-> IF s \in Targets THEN "todo" ELSE "absent"]
             z == [q EXCEPT !.pc = "fanout", !.out = out]
  <2>1. SameJob(q, z) /\ z.pc = "fanout" /\ z.out = out /\ z.eng = q.eng /\ z.gone = q.gone
    BY <1>0 DEF SameJob, ReqRecs
  <2>2. Goto(r, z) /\ q.pc # "repush" /\ \A s \in Servers : out[s] # "failed"
    BY <1>8 DEF StartFanOut, TunnelLocked, At
  <2> HIDE DEF z, out
  <2>3. Current(z)  BY <1>0, <2>1, <2>2 DEF Current, SameJob, RetryOf, Holds
  <2> QED  BY <1>5, <2>2, <2>3
<1>9. CASE StartRepush(r)
  <2> DEFINE live == {t \in Tunnels : tun[t].st = "live"}
             z == [q EXCEPT !.pc = "repush", !.left = live]
  <2>1. SameJob(q, z) /\ z.out = q.out /\ z.eng = q.eng /\ z.left = live /\ z.gone = q.gone
    BY <1>0 DEF SameJob, ReqRecs
  <2>2. Goto(r, z) /\ q.pc # "repush"  BY <1>9 DEF StartRepush, At
  <2> HIDE DEF z
  <2>3. Current(z)  BY <1>0, <2>1, <2>2 DEF Current, SameJob, RetryOf, Holds
  <2> QED  BY <1>5, <2>2, <2>3
<1> QED
  BY <1>6, <1>7, <1>8, <1>9 DEF LockDenied, IndexRejects, UpdateQuiet, KmsFails, NoServers,
     FinishEngine, FinishRule, Rollback, EndOf

(* No other live row has a name that a fan-out works under.                *)
LEMMA OthersNamed ==
    ASSUME NamesInv, Known, DbInv, NEW r \in Requests, At(r, "fanout"),
           NEW t \in Tunnels, tun[t].st = "live", t # req[r].t
    PROVE  /\ req[r].kind # "delete" => Pushed(req[r]).name # tun[t].name
           /\ req[r].kind \in OldKinds => req[r].old.name # tun[t].name
<1> DEFINE q == req[r]
           cur == tun[q.t]
<1>1. /\ q \in ReqRecs /\ q.t \in Tunnels /\ q.kind \in TunnelKinds
      /\ Current(q) /\ JobFilled(q)
  BY DEF NamesInv, TypeOK, Coherent, Known, AskedKnown, Asks, JobsKnown, DbInv, AllCurrent
<1>2. q.kind \in OldKinds => cur.st = "live" /\ cur.name = q.old.name
  BY <1>1 DEF Current, RetryOf, Holds, OldKinds
<1>3. q.kind \in OldKinds => q.old.name # tun[t].name
  BY <1>1, <1>2 DEF NamesInv, UniqueLiveNames
<1>4. ASSUME q.kind # "delete"
      PROVE  Pushed(q).name # tun[t].name
  <2>1. IndexAllows(q)  BY <1>4, StayConnected DEF NamesInv, NameHeld
  <2>2. q.kind = "create" => cur.st = "none"  BY DEF NamesInv, FreshIds
  <2>3. ~NameTaken(Put(Pushed(q).name, q.old.name, cur.name), q.t)
    BY <1>1, <1>2, <1>4, <2>1, <2>2 DEF IndexAllows, OldKinds, TunnelKinds
  <2>4. q.kind = "create" => Pushed(q).name # q.old.name
    BY <1>1, NoneAssumption DEF JobFilled, Pushed, OrElse
  <2>5. Put(Pushed(q).name, q.old.name, cur.name) = Pushed(q).name
    BY <1>1, <1>2, <1>4, <2>4 DEF Put, OldKinds, TunnelKinds
  <2> QED  BY <2>3, <2>5 DEF NameTaken
<1> QED  BY <1>3, <1>4

LEMMA RetryPushes ==
    ASSUME NEW q, RetryOf(q), q.kind = "retry"
    PROVE  /\ Pushed(q).name = tun[q.t].name
           /\ Pushed(q).conf = tun[q.t].conf
           /\ Pushed(q).psk = tun[q.t].psk
           /\ \A e : Work(q, e) = Push(e, Pushed(q))
BY DEF RetryOf, Holds, Pushed, OrElse, NoPatch, Work, Renames

(* A fan-out harms no live row but the one it reworks.                     *)
LEMMA FanOutHarmless ==
    ASSUME NamesInv, Known, DbInv, NEW r \in Requests, At(r, "fanout"),
           NEW t \in Tunnels, tun[t].st = "live", ~Reworks(req[r], t),
           NEW e, NEW k \in 0..Len(Work(req[r], e))
    PROVE  Harmless(Work(req[r], e), k, tun[t])
<1> DEFINE q == req[r]
           w == Work(q, e)
<1>1. q \in ReqRecs /\ q.kind \in TunnelKinds /\ Current(q)
  BY DEF NamesInv, TypeOK, Known, AskedKnown, Asks, DbInv, AllCurrent
<1>2. CASE t # q.t
  <2>1. /\ q.kind # "delete" => Pushed(q).name # tun[t].name
        /\ q.kind \in OldKinds => q.old.name # tun[t].name
    BY <1>2, OthersNamed
  <2>2. w \in Seq(Edits)  BY <1>1, WorkType
  <2>3. \A i \in 1..k : i \in DOMAIN w
    <3> HIDE DEF w
    <3>1. k \in 0..Len(w)  BY DEF w
    <3> QED  BY <2>2, <3>1
  <2>4. ASSUME NEW i \in DOMAIN w
        PROVE  \E p, n : w[i].file = <<p, n>> /\ n # tun[t].name
    <3>1. PICK p, n : /\ w[i].file = <<p, n>>
                      /\ \/ q.kind # "delete" /\ n = Pushed(q).name
                         \/ (q.kind = "delete" \/ Renames(q)) /\ n = q.old.name
      BY <1>1, NamesWork
    <3>2. n # tun[t].name  BY <2>1, <3>1 DEF Renames, OldKinds
    <3> QED  BY <3>1, <3>2
  <2> QED  BY <2>3, <2>4 DEF Harmless
<1>3. CASE t = q.t
  <2>1. q.kind = "retry"
    BY <1>1, <1>3 DEF Current, Reworks, At, TunnelKinds, NoRow
  <2>2. RetryOf(q)  BY <1>1, <2>1 DEF Current
  <2>3. /\ Pushed(q).name = tun[t].name /\ Pushed(q).conf = tun[t].conf
        /\ Pushed(q).psk = tun[t].psk /\ w = Push(e, Pushed(q))
    BY <1>3, <2>1, <2>2, RetryPushes
  <2>4. Push(e, Pushed(q)) \in Seq(Edits)  BY <1>1, PushedType, PushType
  <2> QED  BY <2>3, <2>4, PushHarmless
<1> QED  BY <1>2, <1>3

(* Edits on one server that are harmless to a row leave it installed.      *)
LEMMA StaysInstalled ==
    ASSUME TypeOK, Known, NEW y \in Servers, NEW w, NEW k \in Nat,
           files' = [files EXCEPT ![y] = Edited(@, w, k)], tun' = tun,
           NEW t \in Tunnels, tun[t].st = "live", Harmless(w, k, tun[t]),
           NEW s \in Servers, RowInstalled(s, t)
    PROVE  RowInstalled(s, t)'
<1>1. PICK e \in Engines : Done(files[s], Push(e, tun[t]))  BY DEF RowInstalled
<1>2. files \in [Servers -> [Files -> Contents]] /\ tun[t].name \in Names
  BY DEF TypeOK, Known, RowsFilled, Filled
<1>3. CASE s # y
  <2>1. files'[s] = files[s]  BY <1>2, <1>3
  <2> QED  BY <1>1, <2>1 DEF RowInstalled
<1>4. CASE s = y
  <2>1. files'[s] = Edited(files[s], w, k) /\ files[s] \in [Files -> Contents]
    BY <1>2, <1>4
  <2>2. Done(files'[s], Push(e, tun[t]))  BY <1>1, <1>2, <2>1, EditsKeep
  <2> QED  BY <2>2 DEF RowInstalled
<1> QED  BY <1>3, <1>4

LEMMA DbServer ==
    ASSUME NamesInv, Known, DbInv, NEW r \in Requests, NEW y \in Servers,
           ServerOk(r, y) \/ ServerFails(r, y)
    PROVE  \E z : Moves(r, z)
<1> PICK q : q = req[r]  OBVIOUS
<1> DEFINE w == Work(q, srv[y].engine)
<1>0. q \in ReqRecs /\ Current(q)  BY DEF NamesInv, TypeOK, DbInv, AllCurrent
<1>1. PICK x \in {"ok", "failed"}, k \in 0..Len(w) :
         /\ x = "failed" => "infra" \in Faults
         /\ Goto(r, [q EXCEPT !.out[y] = x])
         /\ files' = [files EXCEPT ![y] = Edited(@, w, k)]
  <2>1. w \in Seq(Edits)  BY <1>0, WorkType
  <2>2. Len(w) \in 0..Len(w)  BY <2>1
  <2> HIDE DEF w
  <2>3. w = Work(q, Engine(r, y))  BY StayConnected DEF w
  <2>4. CASE ServerOk(r, y)  BY <2>2, <2>3, <2>4 DEF ServerOk, Report
  <2>5. CASE ServerFails(r, y)  BY <2>3, <2>5 DEF ServerFails, Report
  <2> QED  BY <2>4, <2>5
<1> DEFINE z == [q EXCEPT !.out[y] = x]
<1>2. /\ SameJob(q, z) /\ z.pc = q.pc /\ z.eng = q.eng /\ z.gone = q.gone
      /\ z.out[y] = x
      /\ \A s \in Servers \ {y} : z.out[s] = q.out[s]
  BY <1>0 DEF SameJob, ReqRecs, Outcomes
<1>3. Goto(r, z)  BY <1>1
<1>4. At(r, "fanout") /\ UNCHANGED <<tun, srv>>  BY DEF ServerOk, ServerFails
<1> HIDE DEF z
<1>5. ASSUME NEW t \in Tunnels, NEW s \in Servers,
             tun[t].st = "live", RowInstalled(s, t), ~Reworks(q, t)
      PROVE  RowInstalled(s, t)'
  <2>1. Harmless(w, k, tun[t])  BY <1>4, <1>5, FanOutHarmless
  <2>2. k \in Nat
    <3>1. w \in Seq(Edits)  BY <1>0, WorkType
    <3> HIDE DEF w
    <3> QED  BY <3>1
  <2> HIDE DEF w
  <2>3. TypeOK  BY DEF NamesInv
  <2> QED  BY <1>1, <1>4, <1>5, <2>1, <2>2, <2>3, StaysInstalled
<1>6. Current(z)'
  <2>1. q.pc = "fanout"  BY <1>4 DEF At
  <2>2. q.kind = "delete" => \A s \in Servers : z.out[s] # "failed"
    BY <1>0, <1>1, <1>2 DEF Current
  <2>3. CASE q.kind = "retry"
    <3>1. RetryOf(q)  BY <1>0, <2>3 DEF Current
    <3>2. q.t \in Tunnels /\ ~Reworks(q, q.t)
      BY <2>3 DEF NamesInv, TypeOK, Coherent, TunnelKinds, Reworks
    <3>3. \A s \in Servers : RowInstalled(s, q.t) => RowInstalled(s, q.t)'
      BY <1>5, <3>1, <3>2 DEF RetryOf
    <3>4. RetryOf(z)'  BY <1>2, <1>4, <3>1, <3>3 DEF RetryOf, Holds, SameJob
    <3> QED  BY <1>0, <1>2, <2>1, <2>3, <3>4 DEF Current, SameJob
  <2>4. CASE q.kind # "retry"
    BY <1>0, <1>2, <1>4, <2>1, <2>2, <2>4 DEF Current, SameJob
  <2> QED  BY <2>3, <2>4
<1>7. EnginesKnown'  BY <1>4 DEF DbInv, EnginesKnown
<1> QED  BY <1>2, <1>3, <1>4, <1>5, <1>6, <1>7 DEF Moves, SameJob, At, Critical

(* The files of one engine are none of the other's.                        *)
LEMMA EnginesApart ==
    ASSUME NEW e \in Engines, NEW row, NEW n,
           NEW i \in DOMAIN Push(OtherEngine(e), row), NEW j \in DOMAIN Remove(e, n)
    PROVE  Push(OtherEngine(e), row)[i].file # Remove(e, n)[j].file
<1> DEFINE W(path) == Write(path, row)
           E(path) == Erase(path, n)
<1>1. /\ \A path : W(path).file = <<path, row.name>>
      /\ \A path : E(path).file = <<path, n>>
  BY DEF Write, Erase, Edit
<1>2. CASE e = "stroke"
  <2>1. Push(OtherEngine(e), row) = << W("swanctl") >>
        /\ Remove(e, n) = << E("conf"), E("secrets") >>
    BY <1>2 DEF OtherEngine, Push, Remove
  <2> HIDE DEF W, E
  <2>2. Push(OtherEngine(e), row)[i] = W("swanctl") /\ Remove(e, n)[j] \in {E("conf"), E("secrets")}
    BY <2>1
  <2> QED  BY <1>1, <2>2, FilesDiffer
<1>3. CASE e = "swanctl"
  <2>1. Push(OtherEngine(e), row) = << W("conf"), W("secrets") >>
        /\ Remove(e, n) = << E("swanctl") >>
    BY <1>3 DEF OtherEngine, Push, Remove
  <2> HIDE DEF W, E
  <2>2. Push(OtherEngine(e), row)[i] \in {W("conf"), W("secrets")} /\ Remove(e, n)[j] = E("swanctl")
    BY <2>1
  <2> QED  BY <1>1, <2>2, FilesDiffer
<1> QED  BY <1>2, <1>3 DEF Engines

(* A re-push leaves every live row installed where it was.                 *)
LEMMA RepushKeeps ==
    ASSUME NamesInv, Known, DbInv, NEW r \in Requests, NEW t \in Tunnels,
           RepushOk(r, t) \/ RepushFails(r, t),
           NEW u \in Tunnels, tun[u].st = "live", NEW s \in Servers, RowInstalled(s, u)
    PROVE  RowInstalled(s, u)'
<1> DEFINE y == req[r].s
           w == Push(OtherEngine(req[r].eng), tun[t])
<1>0. /\ TypeOK /\ y \in Servers /\ tun' = tun /\ tun[t] \in Rows
      /\ t \in req[r].left /\ req[r].pc = "repush"
  BY RepushShape DEF NamesInv, TypeOK, Coherent, RepushOk, RepushFails, Repushing, At
<1>1. tun[t].st = "live"  BY <1>0 DEF DbInv, AllCurrent, Current
<1>2. u # t => tun[u].name # tun[t].name  BY <1>1 DEF NamesInv, UniqueLiveNames
<1>3. w \in Seq(Edits)  BY <1>0, PushType DEF Rows
<1>4. \A k \in 0..Len(w) : Harmless(w, k, tun[u])  BY <1>2, <1>3, PushHarmless
<1>5. Len(w) \in 0..Len(w) /\ \A k \in 0..Len(w) : k \in Nat
  <2> HIDE DEF w
  <2> QED  BY <1>3
<1>6. \/ files' = files
      \/ \E k \in 0..Len(w) : files' = [files EXCEPT ![y] = Edited(@, w, k)]
  <2>1. Row(r, t) = tun[t]  BY StayConnected
  <2>2. CASE RepushOk(r, t)  BY <1>5, <2>1, <2>2 DEF RepushOk
  <2>3. CASE RepushFails(r, t)  BY <2>1, <2>3 DEF RepushFails
  <2> QED  BY <2>2, <2>3
<1>7. CASE files' = files  BY <1>0, <1>7 DEF RowInstalled
<1>8. CASE \E k \in 0..Len(w) : files' = [files EXCEPT ![y] = Edited(@, w, k)]
  <2>1. PICK k \in 0..Len(w) : files' = [files EXCEPT ![y] = Edited(@, w, k)]  BY <1>8
  <2>2. Harmless(w, k, tun[u]) /\ k \in Nat  BY <1>4, <1>5
  <2> HIDE DEF w, y
  <2> QED  BY <1>0, <2>1, <2>2, StaysInstalled
<1> QED  BY <1>6, <1>7, <1>8

(* The push that succeeds installs the tunnel whose old files then go.     *)
LEMMA RepushInstalls ==
    ASSUME NamesInv, Known, DbInv, NEW r \in Requests, NEW t \in Tunnels, RepushOk(r, t)
    PROVE  /\ tun[t].st = "live"
           /\ Done(files'[req[r].s], Push(OtherEngine(req[r].eng), tun[t]))
<1> DEFINE y == req[r].s
           w == Push(OtherEngine(req[r].eng), tun[t])
<1>0. /\ y \in Servers /\ tun[t] \in Rows /\ files \in [Servers -> [Files -> Contents]]
      /\ t \in req[r].left /\ req[r].pc = "repush"
  BY DEF NamesInv, TypeOK, Coherent, RepushOk, Repushing, At
<1>1. tun[t].st = "live"  BY <1>0 DEF DbInv, AllCurrent, Current
<1>2. tun[t].name \in Names  BY <1>1 DEF Known, RowsFilled, Filled
<1>3. w \in Seq(Edits) /\ Distinct(w)  BY <1>0, <1>2, PushType, PushDistinct DEF Rows
<1>4. files' = [files EXCEPT ![y] = Edited(@, w, Len(w))]  BY StayConnected DEF RepushOk
<1> HIDE DEF w, y
<1>5. files'[y] = Edited(files[y], w, Len(w)) /\ files[y] \in [Files -> Contents]
  BY <1>0, <1>4
<1>6. Done(files'[y], w)  BY <1>3, <1>5, EditedDone
<1> QED  BY <1>1, <1>6 DEF w, y

LEMMA DbRepush ==
    ASSUME NamesInv, Known, DbInv, NEW r \in Requests, NEW t \in Tunnels,
           RepushOk(r, t) \/ RepushFails(r, t)
    PROVE  \E z : Moves(r, z)
<1> PICK q : q = req[r]  OBVIOUS
<1> DEFINE gone == FilesOf(Remove(q.eng, Row(r, t).name))
           left == q.left \ {t}
<1>1. q \in ReqRecs /\ Current(q)  BY DEF NamesInv, TypeOK, DbInv, AllCurrent
<1>2. UNCHANGED <<tun, srv>> /\ q.pc = "repush" /\ q.gone = {}
  BY RepushShape DEF NamesInv, RepushOk, RepushFails, Repushing, At
<1>3. q.kind = "engine"  BY <1>2 DEF NamesInv, TypeOK, Coherent
<1>4. PICK z : /\ Goto(r, z)
               /\ \/ RepushOk(r, t) /\ z = [q EXCEPT !.left = left, !.gone = gone]
                  \/ z = [q EXCEPT !.left = left]
  BY DEF RepushOk, RepushFails
<1> HIDE DEF left, gone
<1>5. /\ z.kind = "engine" /\ z.pc = "repush" /\ z.eng = q.eng /\ z.s = q.s /\ z.left = left
      /\ z.gone = {} \/ (RepushOk(r, t) /\ z.gone = gone)
  BY <1>1, <1>2, <1>3, <1>4 DEF ReqRecs
<1>6. ASSUME z.gone # {}
      PROVE  Cleaning(z)'
  <2>1. RepushOk(r, t) /\ z.gone = gone  BY <1>5, <1>6
  <2>2. /\ tun[t].st = "live"
        /\ Done(files'[q.s], Push(OtherEngine(q.eng), tun[t]))
    BY <2>1, RepushInstalls
  <2>3. gone = FilesOf(Remove(q.eng, tun[t].name))  BY StayConnected DEF gone
  <2> QED  BY <1>2, <1>5, <2>1, <2>2, <2>3 DEF Cleaning
<1>7. Current(z)'
  <2>1. \A u \in left : tun'[u].st = "live"  BY <1>1, <1>2 DEF Current, left
  <2> QED  BY <1>1, <1>3, <1>5, <1>6, <2>1 DEF Current
<1>8. EnginesKnown'  BY <1>2 DEF DbInv, EnginesKnown
<1>9. q.pc \in Critical /\ ~At(r, "fanout")  BY <1>2 DEF Critical, At
<1> QED  BY <1>2, <1>4, <1>7, <1>8, <1>9, RepushKeeps DEF Moves

(* A file of the old engine that goes is needed by no row.                 *)
LEMMA CleanupKeeps ==
    ASSUME NamesInv, Known, DbInv, NEW r \in Requests, NEW f \in req[r].gone, Cleanup(r, f),
           NEW u \in Tunnels, tun[u].st = "live", NEW e \in Engines,
           NEW t \in Tunnels, tun[t].st = "live",
           req[r].gone \subseteq FilesOf(Remove(req[r].eng, tun[t].name)),
           u = t => e = OtherEngine(req[r].eng),
           NEW s \in Servers, Done(files[s], Push(e, tun[u]))
    PROVE  Done(files'[s], Push(e, tun[u]))
<1> DEFINE y == req[r].s
           w == Remove(req[r].eng, tun[t].name)
           p == Push(e, tun[u])
<1>1. /\ files \in [Servers -> [Files -> Contents]] /\ req[r].pc = "repush"
      /\ tun[u].name \in Names /\ req[r].eng \in Engines
  <2>1. req[r].pc = "repush"  BY DEF Cleanup, At
  <2>2. req[r].kind = "engine"  BY <2>1 DEF NamesInv, TypeOK, Coherent
  <2> QED  BY <2>1, <2>2 DEF NamesInv, TypeOK, Known, RowsFilled, Filled, DbInv, AllCurrent, Current
<1>2. PICK j \in DOMAIN w : f = w[j].file  BY DEF FilesOf
<1>3. \A i \in DOMAIN p : p[i].file # f
  <2>1. CASE u = t  BY <1>1, <1>2, <2>1, EnginesApart
  <2>2. CASE u # t
    <3>1. tun[u].name # tun[t].name  BY <2>2 DEF NamesInv, UniqueLiveNames
    <3> QED  BY <1>2, <3>1, NamesPushed, NamesRemoved, FilesDiffer
  <2> QED  BY <2>1, <2>2
<1>4. Distinct(p)  BY <1>1, PushDistinct
<1>5. files' = files \/ files' = [files EXCEPT ![y][f] = None]  BY DEF Cleanup
<1>6. \A g \in Files : g # f => files'[s][g] = files[s][g]
  <2> HIDE DEF y
  <2> QED  BY <1>1, <1>5
<1> HIDE DEF p
<1> QED  BY <1>3, <1>4, <1>6 DEF Done, Distinct, p

LEMMA DbCleanup ==
    ASSUME NamesInv, Known, DbInv, NEW r \in Requests, NEW f \in req[r].gone, Cleanup(r, f)
    PROVE  \E z : Moves(r, z)
<1> PICK q : q = req[r]  OBVIOUS
<1> DEFINE gone == q.gone \ {f}
<1>1. q \in ReqRecs /\ Current(q)  BY DEF NamesInv, TypeOK, DbInv, AllCurrent
<1>2. UNCHANGED <<tun, srv>> /\ q.pc = "repush"
  BY CleanupShape DEF NamesInv, Cleanup, At
<1>3. q.kind = "engine" /\ q.s \in Servers  BY <1>2 DEF NamesInv, TypeOK, Coherent
<1>4. PICK z : Goto(r, z) /\ z = [q EXCEPT !.gone = gone]  BY DEF Cleanup
<1> HIDE DEF gone
<1>5. /\ z.kind = "engine" /\ z.pc = "repush" /\ z.eng = q.eng /\ z.s = q.s /\ z.left = q.left
      /\ z.gone = gone
  BY <1>1, <1>2, <1>3, <1>4 DEF ReqRecs
<1>6. Cleaning(q)  BY <1>1 DEF Current
<1>7. PICK t \in Tunnels : /\ tun[t].st = "live"
                           /\ Done(files[q.s], Push(OtherEngine(q.eng), tun[t]))
                           /\ q.gone \subseteq FilesOf(Remove(q.eng, tun[t].name))
  BY <1>6 DEF Cleaning
<1>8. OtherEngine(q.eng) \in Engines  BY DEF OtherEngine, Engines
<1>9. Done(files'[q.s], Push(OtherEngine(q.eng), tun[t]))  BY <1>3, <1>7, <1>8, CleanupKeeps
<1>10. Current(z)'
  <2>1. Cleaning(z)'  BY <1>2, <1>5, <1>7, <1>9 DEF Cleaning, gone
  <2> QED  BY <1>1, <1>2, <1>3, <1>5, <2>1 DEF Current
<1>11. ASSUME NEW u \in Tunnels, NEW s \in Servers, tun[u].st = "live", RowInstalled(s, u)
       PROVE  RowInstalled(s, u)'
  <2>1. CASE u = t /\ s = q.s  BY <1>2, <1>8, <1>9, <2>1 DEF RowInstalled
  <2>2. CASE s # q.s
    <3>1. files'[s] = files[s]
      BY <2>2 DEF Cleanup, NamesInv, TypeOK
    <3> QED  BY <1>2, <1>11, <3>1 DEF RowInstalled
  <2>3. CASE u # t
    <3>1. PICK e \in Engines : Done(files[s], Push(e, tun[u]))  BY <1>11 DEF RowInstalled
    <3>2. Done(files'[s], Push(e, tun[u]))  BY <1>7, <1>11, <2>3, <3>1, CleanupKeeps
    <3> QED  BY <1>2, <3>2 DEF RowInstalled
  <2> QED  BY <2>1, <2>2, <2>3
<1>12. EnginesKnown'  BY <1>2 DEF DbInv, EnginesKnown
<1>13. q.pc \in Critical /\ ~At(r, "fanout")  BY <1>2 DEF Critical, At
<1> QED  BY <1>2, <1>4, <1>10, <1>11, <1>12, <1>13 DEF Moves

-----------------------------------------------------------------------------
(* The commits.                                                            *)

(* A request that never reached a server: its row ends "failed", or keeps  *)
(* what a retry found.                                                     *)
LEMMA DbUnsynced ==
    ASSUME NamesInv, Known, DbInv, NEW r \in Requests, TunnelLocked(r),
           req[r].kind \in {"create", "update", "retry"},
           NEW sync, NEW psk,
           Commit(r, Saved(req[r], tun[req[r].t], sync, psk, tun[req[r].t].details)),
           \/ sync = "failed"
           \/ req[r].kind = "retry" /\ sync = tun[req[r].t].sync,
           req[r].kind = "retry" => psk = tun[req[r].t].psk
    PROVE  \E row : Fitting(r, row)
<1> PICK q : q = req[r]  OBVIOUS
<1> DEFINE cur == tun[q.t]
           row == Saved(q, cur, sync, psk, cur.details)
<1>1. Current(q) /\ q.t \in Tunnels /\ q.kind \in TunnelKinds
  BY DEF DbInv, AllCurrent, NamesInv, TypeOK, Coherent, TunnelKinds
<1>2. q.kind = "retry" => RetryOf(q)  BY <1>1 DEF Current
<1>3. q.pc = "locked" /\ Commit(r, row)  BY DEF TunnelLocked, At
<1>4. /\ row.st = IF q.kind = "create" THEN "live" ELSE cur.st
      /\ row.name = Put(Pushed(q).name, q.old.name, cur.name)
      /\ row.conf = Put(Pushed(q).conf, q.old.conf, cur.conf)
      /\ row.psk = psk /\ row.sync = sync /\ row.details = cur.details
  BY DEF Saved
<1>5. q.kind = "retry" => /\ row.st = "live"
                          /\ row.name = cur.name /\ row.conf = cur.conf /\ row.psk = cur.psk
  BY <1>2, <1>4 DEF RetryOf, Pushed, OrElse, NoPatch, Put
<1>6. row.st # "none"  BY <1>1, <1>4, <1>5 DEF Current
<1> HIDE DEF row
<1>7. ASSUME NEW s \in Servers, row.st = "live", row.sync \in {"synced", "partial"},
             row.details[s] = "ok"
      PROVE  \E e \in Engines : Done(files[s], Push(e, row))
  <2>1. q.kind = "retry" /\ sync = cur.sync  BY <1>4, <1>7
  <2>2. Claims(q.t, s)  BY <1>2, <1>4, <1>7, <2>1 DEF Claims, RetryOf
  <2>3. ~Reworked(q.t)
    BY <1>3, StayConnected DEF Reworked, Reworks, NamesInv, OneWriter, Critical
  <2>4. PICK e \in Engines : Done(files[s], Push(e, cur))
    BY <1>1, <2>2, <2>3 DEF DbInv, ClaimsCurrent, RowInstalled
  <2>5. Push(e, row) = Push(e, cur)  BY <1>5, <2>1, SamePush
  <2> QED  BY <2>4, <2>5
<1>8. Fitting(r, row)  BY <1>1, <1>3, <1>4, <1>5, <1>6, <1>7 DEF Fitting
<1> QED  BY <1>8

(* The fan-out is gathered: what the row then claims, servers confirmed.   *)
LEMMA DbSynced ==
    ASSUME NamesInv, Known, OkMeansDone, DbInv, NEW r \in Requests, FinishSync(r)
    PROVE  \E row : Fitting(r, row)
<1> PICK q : q = req[r]  OBVIOUS
<1> DEFINE cur == tun[q.t]
           details == Put(q.out, q.old.details, cur.details)
           row == Saved(q, cur, SyncStatus(q.out), SavedPsk(q, cur), details)
<1>1. /\ Current(q) /\ q.t \in Tunnels /\ q.kind \in TunnelKinds \ {"delete"}
      /\ q \in ReqRecs /\ q.pc = "fanout" /\ JobFilled(q)
  BY DEF DbInv, AllCurrent, NamesInv, TypeOK, Coherent, FinishSync, Gathered, At, Known,
     AskedKnown, Asks, JobsKnown
<1>2. q.kind = "retry" => RetryOf(q)  BY <1>1 DEF Current
<1>3. Commit(r, row)  BY DEF FinishSync
<1>4. /\ row.st = IF q.kind = "create" THEN "live" ELSE cur.st
      /\ row.name = Put(Pushed(q).name, q.old.name, cur.name)
      /\ row.conf = Put(Pushed(q).conf, q.old.conf, cur.conf)
      /\ row.psk = OrElse(q.patch.psk, cur.psk) /\ row.details = details
  BY DEF Saved, SavedPsk
<1> HIDE DEF row
<1>5. q.kind = "retry" => /\ row.st = "live"
                          /\ row.name = cur.name /\ row.conf = cur.conf /\ row.psk = cur.psk
  BY <1>2, <1>4 DEF RetryOf, Pushed, OrElse, NoPatch, Put
(* The request works on a copy of the row that is still good.              *)
<1>6. /\ Pushed(q).name = row.name
      /\ Pushed(q).conf = row.conf
      /\ Pushed(q).psk = row.psk
  <2>1. cur.name = q.old.name /\ cur.conf = q.old.conf /\ cur.psk = q.old.psk
    BY <1>1, <1>2 DEF Current, RetryOf, Holds, TunnelKinds
  <2> QED  BY <1>4, <2>1 DEF Pushed, OrElse, Put
<1>7. row.st # "none"  BY <1>1, <1>2, <1>4 DEF Current, RetryOf, TunnelKinds
<1>8. ASSUME NEW s \in Servers, q.out[s] = "ok"
      PROVE  \E e \in Engines : Done(files[s], Push(e, row))
  <2> DEFINE e == srv[s].engine
  <2>1. e \in Engines
    <3>1. srv[s].st # "none"  BY <1>1, <1>8 DEF Known, AskedKnown, Asks, At
    <3> QED  BY <3>1 DEF DbInv, EnginesKnown
  <2>2. Done(files[s], Work(q, e))  BY <1>1, <1>8 DEF OkMeansDone, At
  <2>3. Done(files[s], Push(e, Pushed(q)))  BY <1>1, <2>2, WorkPushes
  <2>4. Push(e, Pushed(q)) = Push(e, row)  BY <1>6, SamePush
  <2> QED  BY <2>1, <2>3, <2>4
<1>9. ASSUME NEW s \in Servers, row.details[s] = "ok", q.out[s] # "ok"
      PROVE  q.kind = "retry" /\ cur.details[s] = "ok" /\ RowInstalled(s, q.t)
  <2>1. q.out = q.old.details /\ cur.details[s] = "ok"  BY <1>4, <1>9 DEF Put
  <2>2. q.kind = "retry"  BY <1>1, <1>9, <2>1 DEF Current, TunnelKinds
  <2> QED  BY <1>2, <1>9, <2>1, <2>2 DEF RetryOf
<1>10. ASSUME NEW s \in Servers, row.details[s] = "ok"
       PROVE  \E e \in Engines : Done(files[s], Push(e, row))
  <2>1. CASE q.out[s] = "ok"  BY <1>8, <2>1
  <2>2. CASE q.out[s] # "ok"
    <3>1. q.kind = "retry" /\ RowInstalled(s, q.t)  BY <1>9, <1>10, <2>2
    <3>2. PICK e \in Engines : Done(files[s], Push(e, cur))  BY <3>1 DEF RowInstalled
    <3>3. Push(e, row) = Push(e, cur)  BY <1>5, <3>1, SamePush
    <3> QED  BY <3>2, <3>3
  <2> QED  BY <2>1, <2>2
<1>11. Fitting(r, row)  BY <1>1, <1>3, <1>5, <1>7, <1>10 DEF Fitting
<1> QED  BY <1>11

LEMMA DbDeleted ==
    ASSUME NamesInv, NEW r \in Requests, FinishDelete(r)
    PROVE  \E row : Fitting(r, row)
<1> DEFINE q == req[r]
           row == [tun[q.t] EXCEPT !.st = "deleted", !.sync = "pending_delete"]
<1>1. Commit(r, row) /\ q.kind = "delete" /\ q.pc = "fanout"
  BY DEF FinishDelete, Gathered, At
<1>2. row.st = "deleted"
  <2>1. tun[q.t] \in Rows  BY <1>1 DEF NamesInv, TypeOK, Coherent, TunnelKinds
  <2> QED  BY <2>1 DEF Rows
<1> HIDE DEF row
<1> QED  BY <1>1, <1>2 DEF Fitting, TunnelKinds

(* A delete reaches every server: nothing fails in its workload.           *)
LEMMA NoFailedDelete ==
    ASSUME TypeOK, DbInv, NEW r \in Requests
    PROVE  ~DeleteAborted(r)
<1>1. req[r] \in ReqRecs  BY DEF TypeOK
<1>2. \A s \in Servers : req[r].out[s] \in {"absent", "todo", "ok", "failed"}
  BY <1>1 DEF ReqRecs, Outcomes
<1> QED
  BY <1>2 DEF DbInv, AllCurrent, Current, DeleteAborted, Gathered, AllOk, Asked

LEMMA DbProgress ==
    ASSUME FleetInv, NamesInv, DbInv, Apart, Calm, NEW r \in Requests, Progress(r) \/ Abort(r)
    PROVE  DbInv'
<1> DEFINE q == req[r]
           cur == tun[q.t]
<1>1. TypeOK /\ Known /\ OkMeansDone  BY DEF FleetInv
<1>2. CASE \E z : Moves(r, z)  BY <1>1, <1>2, DbKept DEF FleetInv
<1>3. CASE \E row : Fitting(r, row)  BY <1>1, <1>3, DbCommit
<1>4. CASE \E y \in Servers : ServerOk(r, y) \/ ServerFails(r, y)
  BY <1>1, <1>2, <1>4, DbServer
<1>5. ASSUME NEW t \in Tunnels, RepushOk(r, t) \/ RepushFails(r, t)
      PROVE  DbInv'
  BY <1>1, <1>2, <1>5, DbRepush
<1>12. ASSUME NEW f \in req[r].gone, Cleanup(r, f)
       PROVE  DbInv'
  BY <1>1, <1>2, <1>12, DbCleanup
<1>6. CASE RenameWithoutPsk(r) \/ (KmsFails(r) /\ q.kind # "create")
  <2>1. CommitUnsynced(r) /\ TunnelLocked(r) /\ q.kind \in {"update", "retry"}
    BY <1>6 DEF RenameWithoutPsk, RenamesWithoutPsk, Renames, KmsFails, UsesKms
  <2> DEFINE sync == Put("failed", q.old.sync, cur.sync)
  <2>2. Commit(r, Saved(q, cur, sync, cur.psk, cur.details))  BY <2>1 DEF CommitUnsynced
  <2>3. sync = "failed" \/ (q.kind = "retry" /\ sync = cur.sync)
    BY <2>1 DEF Put, DbInv, AllCurrent, Current
  <2> HIDE DEF sync
  <2>4. \E row : Fitting(r, row)  BY <1>1, <2>1, <2>2, <2>3, DbUnsynced
  <2> QED  BY <1>3, <2>4
<1>7. CASE NoServers(r) /\ q.kind # "delete"
  <2>1. /\ TunnelLocked(r) /\ q.kind \in {"create", "update", "retry"}
        /\ Commit(r, Saved(q, cur, "failed", SavedPsk(q, cur), cur.details))
    BY <1>7 DEF NoServers, UsesKms
  <2>2. q.kind = "retry" => SavedPsk(q, cur) = cur.psk
    BY DEF DbInv, AllCurrent, Current, RetryOf, SavedPsk, OrElse, NoPatch
  <2>3. \E row : Fitting(r, row)  BY <1>1, <2>1, <2>2, DbUnsynced
  <2> QED  BY <1>3, <2>3
<1>8. CASE FinishSync(r)  BY <1>1, <1>3, <1>8, DbSynced
<1>9. CASE FinishDelete(r)  BY <1>3, <1>9, DbDeleted
<1>10. ~DeleteAborted(r) /\ ~Abort(r) /\ ~CutEnds(r)
  BY <1>1, NoFailedDelete, StayConnected DEF Abort, Calm
<1>11. CASE \/ CheckName(r) \/ TakeLock(r) \/ LockDenied(r) \/ IndexRejects(r) \/ UpdateQuiet(r)
            \/ (KmsFails(r) /\ q.kind = "create") \/ (NoServers(r) /\ q.kind = "delete")
            \/ StartFanOut(r) \/ StartRepush(r) \/ FinishEngine(r) \/ FinishRule(r)
  BY <1>1, <1>2, <1>11, DbGoesOn
<1> QED  BY <1>4, <1>5, <1>6, <1>7, <1>8, <1>9, <1>10, <1>11, <1>12 DEF Progress

LEMMA DbStep ==
    FleetInv /\ NamesInv /\ DbInv /\ Apart /\ Calm /\ [Next]_vars => DbInv'
<1> SUFFICES ASSUME FleetInv, NamesInv, DbInv, Apart, Calm, [Next]_vars PROVE DbInv'
  OBVIOUS
<1>1. TypeOK /\ Known  BY DEF FleetInv
<1>2. ASSUME NEW r \in Requests, Arrive(r)
      PROVE  DbInv'
  BY <1>1, <1>2, DbArrive, DbKept DEF FleetInv
<1>3. ASSUME UNCHANGED <<tun, files, req>>, EnginesKnown'
      PROVE  DbInv'
  <2>1. \A t, s : RowInstalled(s, t)' <=> RowInstalled(s, t)  BY <1>3 DEF RowInstalled
  <2>2. \A q : Current(q) => Current(q)'  BY <1>3, <2>1 DEF Current, RetryOf, Holds, Cleaning
  <2>3. AllCurrent'  BY <1>3, <2>2 DEF DbInv, AllCurrent
  <2>4. UnusedRows'  BY <1>3 DEF DbInv, UnusedRows
  <2>5. ClaimsCurrent'
    BY <1>3, <2>1 DEF DbInv, ClaimsCurrent, Claims, Reworked
  <2> QED  BY <1>3, <2>3, <2>4, <2>5 DEF DbInv
<1>4. CASE Fleet
  <2>1. UNCHANGED <<tun, files, req>>
    BY <1>4 DEF Fleet, CreateServer, SetActive, DeleteServer, FleetChange
  <2>2. PICK y \in Servers : \/ \E e \in Engines : CreateServer(y, e)
                             \/ SetActive(y) \/ DeleteServer(y)
    BY <1>4 DEF Fleet
  <2>3. \A s \in Servers : srv'[s].st # "none" => srv'[s].engine \in Engines
    <3>1. CASE \E e \in Engines : CreateServer(y, e)
      <4>1. PICK e \in Engines : srv' = [srv EXCEPT ![y] = [st |-> "live", active |-> TRUE,
                                                           engine |-> e]]
        BY <3>1 DEF CreateServer, FleetChange
      <4> QED  BY <4>1 DEF DbInv, EnginesKnown, TypeOK
    <3>2. CASE SetActive(y)
      BY <3>2 DEF SetActive, FleetChange, DbInv, EnginesKnown, TypeOK, FleetInv
    <3>3. CASE DeleteServer(y)
      BY <3>3 DEF DeleteServer, FleetChange, DbInv, EnginesKnown, TypeOK, FleetInv
    <3> QED  BY <2>2, <3>1, <3>2, <3>3
  <2> QED  BY <1>3, <2>1, <2>3 DEF EnginesKnown
<1>5. CASE UNCHANGED vars
  BY <1>3, <1>5 DEF vars, DbInv, EnginesKnown
<1>6. ASSUME NEW c \in late, LateLands(c)
      PROVE  DbInv'
  BY <1>1, <1>6 DEF Known
<1>7. ASSUME NEW r \in Requests, Progress(r) \/ Abort(r)
      PROVE  DbInv'
  BY <1>7, DbProgress
<1>8. ASSUME NEW r \in Requests PROVE ~Disconnect(r)
  BY DEF Disconnect, Calm, Steady
<1> QED  BY <1>2, <1>4, <1>5, <1>6, <1>7, <1>8 DEF Next

LEMMA DbInit == Init => DbInv
<1> SUFFICES ASSUME Init PROVE DbInv
  OBVIOUS
<1>1. NoRequest.kind = "none" /\ NoRequest.pc = "idle" /\ NoServer.st = "none" /\ NoRow.st = "none"
      /\ NoRequest.gone = {}
  BY DEF NoRequest, NoServer, NoRow
<1>2. AllCurrent  BY <1>1 DEF Init, AllCurrent, Current
<1>3. UnusedRows  BY DEF Init, UnusedRows
<1>4. EnginesKnown
  <2>1. \A s \in Servers : \/ srv[s] = NoServer
                           \/ srv[s].engine = InitEngine[s] /\ InitEngine[s] # None
    BY DEF Init
  <2> QED  BY <1>1, <2>1, InitEngineAssumption DEF EnginesKnown
<1>5. ClaimsCurrent  BY <1>1 DEF Init, ClaimsCurrent, Claims
<1> QED  BY <1>2, <1>3, <1>4, <1>5 DEF DbInv

(* For any number of requests, servers and tunnels: whenever no request    *)
(* holds the lock, a server that a live row calls ok has that row's        *)
(* settings and key, although servers fail, KMS fails, engines are         *)
(* switched under the rows and retries of a tunnel overlap                 *)
(* (tunnel_service.py:71, server_service.py:1019).  Needed: no update or  *)
(* delete overlaps another request on its tunnel; no request dies or loses *)
(* its database connection, and no delete fails, half way through its      *)
(* servers (README, section 5); no SSM command lands late.                 *)
THEOREM DbHoldsOnFleet == Calm => (Spec /\ []Apart => []DbMatchesFleet)
<1> SUFFICES ASSUME Calm PROVE Spec /\ []Apart => []DbMatchesFleet
  OBVIOUS
<1> DEFINE Inv == FleetInv /\ NamesInv /\ DbInv
<1>1. Init => Inv
  <2> SUFFICES ASSUME Init PROVE Inv
    OBVIOUS
  <2>1. FleetInv  BY FleetInit
  <2>2. NamesInv
    <3>1. \A r \in Requests : req[r].pc = "idle" /\ req[r].kind = "none"
      BY DEF Init, NoRequest
    <3>2. \A t \in Tunnels : tun[t].st = "none"  BY DEF Init, NoRow
    <3> QED  BY <2>1, <3>1, <3>2 DEF FleetInv, NamesInv, FreshIds, NameHeld, At, UniqueLiveNames
  <2> QED  BY <2>1, <2>2, DbInit
<1>2. Inv /\ Apart /\ [Next]_vars => Inv'
  BY FleetStep, NamesStep, DbStep DEF Calm
<1>3. Inv => DbMatchesFleet
  <2> SUFFICES ASSUME Inv, lock = None, NEW t \in Tunnels, NEW s \in Servers, Claims(t, s)
               PROVE  RowInstalled(s, t)
    BY DEF DbMatchesFleet, Claims
  <2>1. \A r \in Requests : req[r].pc # "fanout"
    BY NoneAssumption, StayConnected DEF FleetInv, NamesInv, OneWriter, Critical
  <2>2. ~Reworked(t)  BY <2>1 DEF Reworked, Reworks
  <2> QED  BY <2>2 DEF DbInv, ClaimsCurrent
<1> HIDE DEF Inv
<1> QED  BY <1>1, <1>2, <1>3, PTL DEF Spec

(* Requests that come one at a time never overlap.                         *)
THEOREM DbHoldsInSequence ==
    Calm /\ (\A p, r \in Requests : p = r) => (Spec => []DbMatchesFleet)
<1> SUFFICES ASSUME Calm, \A p, r \in Requests : p = r
             PROVE  Spec => []DbMatchesFleet
  OBVIOUS
<1>1. Apart  BY DEF Apart
<1> QED  BY <1>1, DbHoldsOnFleet, PTL
=============================================================================
