-------------------------- MODULE TunnelSyncProofs --------------------------
(* Proofs about TunnelSync for every fleet, every set of tunnels and any   *)
(* number of concurrent requests.                                          *)
EXTENDS TunnelSync, TLAPS

Edits  == [file : Paths \X (Names \cup {None}), to : Contents]
Fleets == [Servers -> [st : {"none", "live", "deleted"}, active : BOOLEAN,
                       engine : Engines \cup {None}]]
Reads  == [tun : [Tunnels -> Rows], engine : [Servers -> Engines \cup {None}]]

-----------------------------------------------------------------------------
(* Types.                                                                  *)

LEMMA PushType ==
    ASSUME NEW e, NEW row,
           row.name \in Names \cup {None}, row.conf \in Confs \cup {None},
           row.psk \in Psks \cup {None}
    PROVE  Push(e, row) \in Seq(Edits)
<1> DEFINE W(path) == Write(path, row)
<1>1. \A path \in Paths : W(path) \in Edits
  BY DEF Write, Edit, Content, Edits, Paths, Contents
<1>2. << W("swanctl") >> \in Seq(Edits) /\ << W("conf"), W("secrets") >> \in Seq(Edits)
  <2> HIDE DEF W
  <2> QED  BY <1>1 DEF Paths
<1> QED  BY <1>2 DEF Push

LEMMA RemoveType ==
    ASSUME NEW e, NEW n \in Names \cup {None}
    PROVE  Remove(e, n) \in Seq(Edits)
<1> DEFINE W(path) == Erase(path, n)
<1>1. \A path \in Paths : W(path) \in Edits
  BY DEF Erase, Edit, Edits, Paths, Contents
<1>2. << W("swanctl") >> \in Seq(Edits) /\ << W("conf"), W("secrets") >> \in Seq(Edits)
  <2> HIDE DEF W
  <2> QED  BY <1>1 DEF Paths
<1> QED  BY <1>2 DEF Remove

LEMMA PushedType ==
    ASSUME NEW q \in ReqRecs
    PROVE  /\ Pushed(q).name \in Names \cup {None}
           /\ Pushed(q).conf \in Confs \cup {None}
           /\ Pushed(q).psk \in Psks \cup {None}
           /\ q.old.name \in Names \cup {None}
BY DEF ReqRecs, Rows, Patches, Pushed, OrElse

LEMMA WorkType ==
    ASSUME NEW q \in ReqRecs, NEW e
    PROVE  Work(q, e) \in Seq(Edits)
<1>1. Remove(e, q.old.name) \in Seq(Edits)  BY PushedType, RemoveType
<1>2. Push(e, Pushed(q)) \in Seq(Edits)     BY PushedType, PushType
<1>3. Remove(e, q.old.name) \o Push(e, Pushed(q)) \in Seq(Edits)  BY <1>1, <1>2
<1> QED  BY <1>1, <1>2, <1>3 DEF Work

LEMMA EditedType ==
    ASSUME NEW fs \in [Files -> Contents], NEW w \in Seq(Edits), NEW k \in 0..Len(w)
    PROVE  Edited(fs, w, k) \in [Files -> Contents]
<1> SUFFICES ASSUME NEW f \in Files
             PROVE  Edited(fs, w, k)[f] \in Contents
  BY DEF Edited
<1>1. \A i \in 1..k : w[i] \in Edits  OBVIOUS
<1> QED  BY <1>1 DEF Edited, Edits

LEMMA LateType ==
    ASSUME TypeOK, NEW s \in Servers, NEW w \in Seq(Edits), NEW k \in 0..Len(w),
           NEW L \in MayLandLate(s, w, k)
    PROVE  L \subseteq [s : Servers, file : Paths \X (Names \cup {None}), to : Contents]
<1>1. k < Len(w) => w[k + 1] \in Edits  OBVIOUS
<1> QED  BY <1>1 DEF MayLandLate, Edits, TypeOK

LEMMA SyncStatusType ==
    ASSUME NEW out
    PROVE  SyncStatus(out) \in {"synced", "partial", "failed"}
BY DEF SyncStatus

LEMMA SavedType ==
    ASSUME NEW q \in ReqRecs, NEW cur \in Rows,
           NEW sync \in {"none", "synced", "partial", "failed", "pending_delete"},
           NEW psk \in Psks \cup {None}, NEW details \in Outcomes
    PROVE  Saved(q, cur, sync, psk, details) \in Rows
BY PushedType DEF Saved, Rows, Put

LEMMA NoRequestType == NoRequest \in ReqRecs
BY DEF NoRequest, ReqRecs, RuleStates, Rows, NoRow, NoPatch, Patches, NoDetails, Outcomes

(* What a request read is a row, whether its connection lives or not.      *)
LEMMA RowType ==
    ASSUME TypeOK, NEW r \in Requests, NEW t \in Tunnels
    PROVE  Row(r, t) \in Rows
<1>1. tun[t] \in Rows /\ \A p \in DOMAIN cut : cut[p] \in Reads  BY DEF TypeOK, Reads
<1> QED  BY <1>1 DEF Row, Connected, Reads

LEMMA LoadedType ==
    ASSUME TypeOK, NEW t \in Tunnels, NEW patch \in Patches,
           NEW kind \in {"update", "delete", "retry"}, NEW pc \in {"loaded", "checked"}
    PROVE  Loaded(kind, t, patch, pc) \in ReqRecs
<1>1. tun[t] \in Rows  BY DEF TypeOK
<1>2. rule[t] \in RuleStates  BY DEF TypeOK
<1> QED  BY <1>1, <1>2, NoRequestType DEF Loaded, NoRequest, ReqRecs, TunnelKinds

(* What the type invariant says of a request at work.                      *)
LEMMA ReqType ==
    ASSUME TypeOK, NEW r \in Requests
    PROVE  req[r] \in ReqRecs
BY DEF TypeOK

LEMMA NullTypes == NoPatch \in Patches /\ NoRow \in Rows /\ NoDetails \in Outcomes
BY DEF NoPatch, Patches, NoRow, Rows, NoDetails, Outcomes

-----------------------------------------------------------------------------
(* Every step keeps the types: one lemma per part of the next-state        *)
(* relation.                                                               *)

Fits(q) == q \in ReqRecs /\ Coherent(q)

(* The part of the type invariant that speaks of the requests.             *)
RequestsOK == /\ lock \in Requests \cup {None}
              /\ req \in [Requests -> ReqRecs]
              /\ \A r \in Requests : Coherent(req[r])
              /\ DOMAIN cut \subseteq Requests
              /\ \A r \in DOMAIN cut : cut[r] \in Reads
              /\ arrivals \in 0..MaxArrivals

LEMMA EndType ==
    ASSUME TypeOK, NEW r \in Requests, EndOf(r)
    PROVE  RequestsOK'
<1>1. Fits(NoRequest)  BY NoRequestType DEF Fits, Coherent, NoRequest, TunnelKinds
<1> QED  BY <1>1 DEF EndOf, Goto, TypeOK, Fits, RequestsOK, Reads

LEMMA GotoType ==
    ASSUME TypeOK, NEW r \in Requests, NEW q, Fits(q), Goto(r, q),
           lock' \in {lock, r}, arrivals' = arrivals, cut' = cut
    PROVE  RequestsOK'
BY DEF Goto, TypeOK, Fits, RequestsOK, Reads

LEMMA RollbackType ==
    ASSUME TypeOK, NEW r \in Requests, Rollback(r), fw' \subseteq Tunnels
    PROVE  TypeOK'
<1>1. RequestsOK'  BY EndType DEF Rollback
<1> QED  BY <1>1 DEF Rollback, TypeOK, RequestsOK, Reads

LEMMA CommitType ==
    ASSUME TypeOK, NEW r \in Requests, NEW row \in Rows, Commit(r, row),
           fw' \subseteq Tunnels, rule' \in [Tunnels -> RuleStates]
    PROVE  TypeOK'
<1>1. RequestsOK'  BY EndType DEF Commit
<1>2. tun' \in [Tunnels -> Rows]  BY DEF Commit, TypeOK
<1> QED  BY <1>1, <1>2 DEF Commit, TypeOK, RequestsOK, Reads

LEMMA CleanRulesType ==
    ASSUME TypeOK, NEW q, CleanRules(q)
    PROVE  fw' \subseteq Tunnels
BY DEF TypeOK, CleanRules

LEMMA CommitUnsyncedType ==
    ASSUME TypeOK, NEW r \in Requests, req[r].t \in Tunnels, CommitUnsynced(r)
    PROVE  TypeOK'
<1> DEFINE q == req[r]
           cur == tun[q.t]
           row == Saved(q, cur, Put("failed", q.old.sync, cur.sync), cur.psk, cur.details)
<1>1. cur \in Rows /\ q \in ReqRecs  BY DEF TypeOK
<1>2. Put("failed", q.old.sync, cur.sync)
         \in {"none", "synced", "partial", "failed", "pending_delete"}
  BY <1>1 DEF Put, Rows
<1>3. cur.psk \in Psks \cup {None} /\ cur.details \in Outcomes  BY <1>1 DEF Rows
<1>4. row \in Rows  BY <1>1, <1>2, <1>3, SavedType
<1>5. Commit(r, row) /\ UNCHANGED <<rule, fw>>  BY DEF CommitUnsynced
<1> HIDE DEF row
<1> QED  BY <1>4, <1>5, CommitType DEF TypeOK

LEMMA TypeArrive ==
    ASSUME TypeOK, NEW r \in Requests, Arrive(r)
    PROVE  TypeOK'
<1>1. ASSUME NEW q, Fits(q), Begin(r, q)
      PROVE  TypeOK'
  BY <1>1, BoundAssumption DEF Begin, Goto, TypeOK, At, Fits
<1>2. ASSUME NEW t \in Tunnels, NEW d \in NewTunnels, BeginCreate(r, t, d)
      PROVE  TypeOK'
  <2>1. d \in Patches  BY DEF NewTunnels, Patches
  <2>2. Fits([NoRequest EXCEPT !.pc = "checked", !.kind = "create", !.t = t, !.patch = d])
    BY <2>1, NoRequestType DEF Fits, Coherent, NoRequest, ReqRecs, TunnelKinds
  <2> QED  BY <1>1, <1>2, <2>2 DEF BeginCreate
<1>3. ASSUME NEW t \in Tunnels, NEW p \in Patches, NEW pc \in {"loaded", "checked"},
             NEW kind \in {"update", "delete", "retry"}
      PROVE  Fits(Loaded(kind, t, p, pc))
  <2>1. Loaded(kind, t, p, pc) \in ReqRecs  BY LoadedType
  <2> QED  BY <2>1 DEF Fits, Coherent, Loaded, NoRequest, TunnelKinds
<1>4. ASSUME NEW t \in Tunnels, NEW p \in Patches, BeginUpdate(r, t, p)
      PROVE  TypeOK'
  <2> DEFINE q == Loaded("update", t, p, "checked")
             z == [q EXCEPT !.pc = "loaded"]
  <2>1. z = Loaded("update", t, p, "loaded")  BY DEF Loaded, NoRequest
  <2>2. Fits(q) /\ Fits(z)  BY <1>3, <2>1
  <2>3. Begin(r, q) \/ Begin(r, z)  BY <1>4 DEF BeginUpdate
  <2> HIDE DEF q, z
  <2> QED  BY <1>1, <2>2, <2>3
<1>5. ASSUME NEW t \in Tunnels, BeginDelete(r, t) \/ BeginRetry(r, t)
      PROVE  TypeOK'
  BY <1>1, <1>3, <1>5, NullTypes DEF BeginDelete, BeginRetry
<1>6. ASSUME NEW t \in Tunnels, BeginRule(r, t)
      PROVE  TypeOK'
  <2>1. Fits([NoRequest EXCEPT !.pc = "attach", !.kind = "rule", !.t = t])
    BY NoRequestType DEF Fits, Coherent, NoRequest, ReqRecs, TunnelKinds
  <2> QED  BY <1>1, <1>6, <2>1 DEF BeginRule
<1>7. ASSUME NEW s \in Servers, BeginEngine(r, s)
      PROVE  TypeOK'
  <2>1. srv[s].engine \in Engines \cup {None}  BY DEF TypeOK
  <2>2. Fits([NoRequest EXCEPT !.pc = "checked", !.kind = "engine", !.s = s,
                               !.eng = srv[s].engine])
    BY <2>1, NoRequestType DEF Fits, Coherent, NoRequest, ReqRecs, TunnelKinds
  <2> QED  BY <1>1, <1>7, <2>2 DEF BeginEngine
<1> QED  BY <1>2, <1>4, <1>5, <1>6, <1>7 DEF Arrive

LEMMA TunnelLockedHas ==
    ASSUME TypeOK, NEW r \in Requests, TunnelLocked(r), req[r].kind \in TunnelKinds
    PROVE  req[r].t \in Tunnels
BY DEF TypeOK, Coherent

LEMMA TypeLocked ==
    ASSUME TypeOK, NEW r \in Requests,
           \/ CheckName(r) \/ TakeLock(r) \/ LockDenied(r)
           \/ IndexRejects(r) \/ UpdateQuiet(r) \/ RenameWithoutPsk(r)
           \/ KmsFails(r) \/ NoServers(r) \/ StartFanOut(r)
    PROVE  TypeOK'
<1> DEFINE q == req[r]
<1>1. Fits(q)  BY DEF TypeOK, Fits
<1>2. Fits(NoRequest)  BY NoRequestType DEF Fits, Coherent, NoRequest, TunnelKinds
<1>3. \A pc \in {"checked", "locked", "fanout"} : Fits([q EXCEPT !.pc = pc])
  BY <1>1 DEF Fits, Coherent, ReqRecs
<1>4. fw \subseteq Tunnels  BY DEF TypeOK
<1> HIDE DEF q
<1>5. CASE CheckName(r) \/ LockDenied(r)
  <2>1. RequestsOK'
    <3>1. Goto(r, NoRequest) \/ Goto(r, [q EXCEPT !.pc = "checked"])
      BY <1>5 DEF CheckName, LockDenied, q
    <3>2. lock' \in {lock, r} /\ UNCHANGED <<cut, arrivals>>  BY <1>5 DEF CheckName, LockDenied
    <3> QED  BY <1>2, <1>3, <3>1, <3>2, GotoType
  <2> QED  BY <1>5, <2>1 DEF CheckName, LockDenied, TypeOK, RequestsOK, Reads
<1>6. CASE TakeLock(r)
  <2>1. RequestsOK'  BY <1>3, <1>6, GotoType DEF TakeLock, q
  <2> QED  BY <1>6, <2>1 DEF TakeLock, TypeOK, RequestsOK, Reads
<1>7. CASE IndexRejects(r) \/ UpdateQuiet(r)
  BY <1>4, <1>7, RollbackType DEF IndexRejects, UpdateQuiet
<1>8. CASE RenameWithoutPsk(r)
  <2>1. q.kind \in TunnelKinds
    BY <1>8 DEF RenameWithoutPsk, RenamesWithoutPsk, Renames, TunnelKinds, q
  <2> QED  BY <1>8, <2>1, TunnelLockedHas, CommitUnsyncedType DEF RenameWithoutPsk, q
<1>9. CASE KmsFails(r)
  <2>1. q.kind \in TunnelKinds  BY <1>9 DEF KmsFails, UsesKms, TunnelKinds, q
  <2>2. q.t \in Tunnels  BY <1>9, <2>1, TunnelLockedHas DEF KmsFails, q
  <2> QED  BY <1>4, <1>9, <2>2, RollbackType, CommitUnsyncedType DEF KmsFails, q
<1>10. CASE NoServers(r)
  <2>1. fw' \subseteq Tunnels  BY <1>10, CleanRulesType DEF NoServers
  <2>2. CASE Rollback(r)  BY <2>1, <2>2, RollbackType
  <2>3. CASE ~Rollback(r)
    <3> DEFINE cur == tun[q.t]
               row == Saved(q, cur, "failed", SavedPsk(q, cur), cur.details)
    <3>1. q.kind \in TunnelKinds
      BY <1>10 DEF NoServers, UsesKms, TunnelKinds, q
    <3>2. q.t \in Tunnels  BY <1>10, <3>1, TunnelLockedHas DEF NoServers, q
    <3>3. cur \in Rows  BY <3>2 DEF TypeOK
    <3>4. SavedPsk(q, cur) \in Psks \cup {None} /\ cur.details \in Outcomes
      BY <1>1, <3>3 DEF SavedPsk, OrElse, Rows, Fits, ReqRecs, Patches
    <3>5. row \in Rows  BY <1>1, <3>3, <3>4, SavedType DEF Fits
    <3>6. Commit(r, row) /\ UNCHANGED rule  BY <1>10, <2>3 DEF NoServers, q
    <3> HIDE DEF row
    <3> QED  BY <2>1, <3>5, <3>6, CommitType DEF TypeOK
  <2> QED  BY <2>2, <2>3
<1>11. CASE StartFanOut(r)
  <2> DEFINE out == [s \in Servers |-> IF s \in Targets THEN "todo" ELSE "absent"]
             z == [q EXCEPT !.pc = "fanout", !.out = out]
  <2>1. out \in Outcomes  BY DEF Outcomes
  <2> HIDE DEF out
  <2>2. Fits(z)  BY <1>1, <2>1 DEF Fits, Coherent, ReqRecs
  <2>3. Goto(r, z)  BY <1>11 DEF StartFanOut, q, out
  <2> HIDE DEF z
  <2>4. RequestsOK'  BY <1>11, <2>2, <2>3, GotoType DEF StartFanOut
  <2>5. fw' \subseteq Tunnels  BY <1>11, CleanRulesType DEF StartFanOut
  <2> QED  BY <1>11, <2>4, <2>5 DEF StartFanOut, TypeOK, RequestsOK, Reads
<1> QED  BY <1>5, <1>6, <1>7, <1>8, <1>9, <1>10, <1>11

(* Files and late edits after k edits of a list on one server.             *)
LEMMA FilesType ==
    ASSUME TypeOK, NEW s \in Servers, NEW w \in Seq(Edits), NEW k \in 0..Len(w),
           files' = [files EXCEPT ![s] = Edited(@, w, k)]
    PROVE  files' \in [Servers -> [Files -> Contents]]
<1>1. files[s] \in [Files -> Contents]  BY DEF TypeOK
<1>2. Edited(files[s], w, k) \in [Files -> Contents]  BY <1>1, EditedType
<1> QED  BY <1>2 DEF TypeOK

LEMMA TypeFanOut ==
    ASSUME TypeOK, NEW r \in Requests, NEW s \in Servers, ServerOk(r, s) \/ ServerFails(r, s)
    PROVE  TypeOK'
<1> DEFINE q == req[r]
           w == Work(q, Engine(r, s))
           z(outcome) == [q EXCEPT !.out[s] = outcome]
<1>1. Fits(q)  BY DEF TypeOK, Fits
<1>2. w \in Seq(Edits)  BY <1>1, WorkType DEF Fits
<1>3. Len(w) \in 0..Len(w)  BY <1>2
<1>4. \A o \in {"ok", "failed"} : Fits(z(o))
  <2>1. q.out \in Outcomes  BY <1>1 DEF Fits, ReqRecs
  <2>2. \A o \in {"ok", "failed"} : [q.out EXCEPT ![s] = o] \in Outcomes
    BY <2>1 DEF Outcomes
  <2> QED  BY <1>1, <2>2 DEF Fits, Coherent, ReqRecs
<1>5. Goto(r, z("ok")) \/ Goto(r, z("failed"))
  BY DEF ServerOk, ServerFails, Report
<1> HIDE DEF w, z
<1>6. UNCHANGED <<lock, cut, arrivals>>  BY DEF ServerOk, ServerFails
<1>7. RequestsOK'  BY <1>4, <1>5, <1>6, GotoType
<1>8. PICK k \in 0..Len(w) : /\ files' = [files EXCEPT ![s] = Edited(files[s], w, k)]
                             /\ late' = late \/ late' \in MayLandLate(s, w, k)
  <2>1. CASE ServerOk(r, s)     BY <1>3, <2>1 DEF ServerOk, w
  <2>2. CASE ServerFails(r, s)  BY <2>2 DEF ServerFails, w
  <2> QED  BY <2>1, <2>2
<1>9. files' \in [Servers -> [Files -> Contents]]  BY <1>2, <1>8, FilesType
<1>10. late' \subseteq [s : Servers, file : Paths \X (Names \cup {None}), to : Contents]
  BY <1>2, <1>8, LateType DEF TypeOK
<1>11. UNCHANGED <<tun, rule, srv, fw>>  BY DEF ServerOk, ServerFails
<1> QED  BY <1>7, <1>9, <1>10, <1>11 DEF TypeOK, RequestsOK, Reads

LEMMA TypeFinish ==
    ASSUME TypeOK, NEW r \in Requests,
           \/ FinishSync(r) \/ FinishDelete(r) \/ DeleteAborted(r)
           \/ Abort(r) \/ CutEnds(r)
    PROVE  TypeOK'
<1> DEFINE q == req[r]
           cur == tun[q.t]
<1>1. Fits(q) /\ fw \subseteq Tunnels /\ rule \in [Tunnels -> RuleStates]
  BY DEF TypeOK, Fits
<1>2. q.t \in Tunnels => cur \in Rows  BY DEF TypeOK
<1>3. CASE DeleteAborted(r) \/ Abort(r)
  BY <1>1, <1>3, RollbackType DEF DeleteAborted, Abort
<1>6. CASE CutEnds(r)
  <2>1. At(r, "attach") => q.t \in Tunnels  BY DEF TypeOK, Coherent, At
  <2>2. fw' \subseteq Tunnels  BY <1>1, <1>6, <2>1, CleanRulesType DEF CutEnds
  <2> QED  BY <1>6, <2>2, RollbackType DEF CutEnds
<1>4. CASE FinishSync(r)
  <2> DEFINE row == Saved(q, cur, SyncStatus(q.out), SavedPsk(q, cur),
                          Put(q.out, q.old.details, cur.details))
  <2>1. CASE q.t \in Tunnels
    <3>1. SavedPsk(q, cur) \in Psks \cup {None}
      BY <1>1, <1>2, <2>1 DEF SavedPsk, OrElse, Rows, Fits, ReqRecs, Patches
    <3>2. Put(q.out, q.old.details, cur.details) \in Outcomes
      BY <1>1, <1>2, <2>1 DEF Put, Rows, Fits, ReqRecs
    <3>3. row \in Rows
      BY <1>1, <1>2, <2>1, <3>1, <3>2, SavedType, SyncStatusType DEF Fits
    <3>4. Commit(r, row) /\ UNCHANGED <<rule, fw>>  BY <1>4 DEF FinishSync
    <3> HIDE DEF row
    <3> QED  BY <1>1, <3>3, <3>4, CommitType
  <2>2. CASE q.t \notin Tunnels
    <3>1. RequestsOK'  BY <1>4, EndType DEF FinishSync, Commit
    <3>2. tun' = tun  BY <1>4, <2>2 DEF FinishSync, Commit, TypeOK
    <3> QED  BY <1>4, <3>1, <3>2 DEF FinishSync, Commit, TypeOK, RequestsOK, Reads
  <2> QED  BY <2>1, <2>2
<1>5. CASE FinishDelete(r)
  <2> DEFINE row == [cur EXCEPT !.st = "deleted", !.sync = "pending_delete"]
  <2>1. q.t \in Tunnels  BY <1>1, <1>5 DEF FinishDelete, Fits, Coherent, TunnelKinds
  <2>2. row \in Rows  BY <1>2, <2>1 DEF Rows
  <2>3. rule' \in [Tunnels -> RuleStates]  BY <1>1, <1>5 DEF FinishDelete, RuleStates
  <2>4. Commit(r, row) /\ fw' = fw  BY <1>5 DEF FinishDelete
  <2> HIDE DEF row
  <2> QED  BY <1>1, <2>2, <2>3, <2>4, CommitType
<1> QED  BY <1>3, <1>4, <1>5, <1>6

LEMMA TypeCut ==
    ASSUME TypeOK, NEW r \in Requests, Disconnect(r)
    PROVE  TypeOK'
<1>1. Read \in Reads  BY DEF TypeOK, Read, Reads
<1>2. /\ cut' = [p \in DOMAIN cut \cup {r} |-> IF p = r THEN Read ELSE cut[p]]
      /\ lock' \in {lock, None}
      /\ UNCHANGED <<tun, rule, srv, files, fw, late, req, arrivals>>
  BY DEF Disconnect
<1>3. DOMAIN cut' \subseteq Requests /\ \A p \in DOMAIN cut' : cut'[p] \in Reads
  BY <1>1, <1>2 DEF TypeOK, Reads
<1> QED  BY <1>2, <1>3 DEF TypeOK, Reads

LEMMA TypeRepush ==
    ASSUME TypeOK, NEW r \in Requests, NEW t \in Tunnels, RepushOk(r, t) \/ RepushFails(r, t)
    PROVE  TypeOK'
<1> DEFINE q == req[r]
           s == q.s
           w == Push(OtherEngine(q.eng), Row(r, t))
           old == Remove(q.eng, Row(r, t).name)
           gone == FilesOf(old)
           y == [q EXCEPT !.left = @ \ {t}]
           z == [q EXCEPT !.left = @ \ {t}, !.gone = gone]
<1>1. Fits(q) /\ s \in Servers
  BY DEF TypeOK, Fits, RepushOk, RepushFails, Repushing, At, Coherent
<1>2. /\ w \in Seq(Edits) /\ old \in Seq(Edits)
      /\ Len(w) \in 0..Len(w)
  <2>1. w \in Seq(Edits) /\ old \in Seq(Edits)
    BY RowType, PushType, RemoveType DEF Rows
  <2> HIDE DEF w
  <2> QED  BY <2>1
<1>3. gone \subseteq Paths \X (Names \cup {None})
  <2> HIDE DEF old
  <2>1. \A i \in DOMAIN old : old[i] \in Edits  BY <1>2
  <2> QED  BY <2>1 DEF Edits, FilesOf
<1> HIDE DEF w, gone
<1>4. Fits(y) /\ Fits(z)  BY <1>1, <1>3 DEF Fits, Coherent, ReqRecs
<1>5. RequestsOK'
  <2>1. Goto(r, y) \/ Goto(r, z)  BY DEF RepushOk, RepushFails, gone
  <2>2. UNCHANGED <<lock, cut, arrivals>>  BY DEF RepushOk, RepushFails, Repushing
  <2> HIDE DEF y, z
  <2> QED  BY <1>4, <2>1, <2>2, GotoType
<1>6. UNCHANGED <<tun, rule, srv, fw>>  BY DEF RepushOk, RepushFails, Repushing
<1>7. CASE UNCHANGED <<files, late>>
  BY <1>5, <1>6, <1>7 DEF TypeOK, RequestsOK, Reads
<1>8. CASE ~UNCHANGED <<files, late>>
  <2>1. PICK k \in 0..Len(w) : /\ files' = [files EXCEPT ![s] = Edited(files[s], w, k)]
                               /\ late' = late \/ late' \in MayLandLate(s, w, k)
    BY <1>2, <1>8 DEF RepushOk, RepushFails, w
  <2>2. files' \in [Servers -> [Files -> Contents]]  BY <1>1, <1>2, <2>1, FilesType
  <2>3. late' \subseteq [s : Servers, file : Paths \X (Names \cup {None}), to : Contents]
    BY <1>1, <1>2, <2>1, LateType DEF TypeOK
  <2> QED  BY <1>5, <1>6, <2>2, <2>3 DEF TypeOK, RequestsOK, Reads
<1> QED  BY <1>7, <1>8

LEMMA TypeCleanup ==
    ASSUME TypeOK, NEW r \in Requests, NEW f \in req[r].gone, Cleanup(r, f)
    PROVE  TypeOK'
<1> DEFINE q == req[r]
           s == q.s
           w == << Erase(f[1], f[2]) >>
           z == [q EXCEPT !.gone = @ \ {f}]
<1>1. Fits(q) /\ s \in Servers  BY DEF TypeOK, Fits, Cleanup, At, Coherent
<1>2. f[1] \in Paths /\ f[2] \in Names \cup {None}  BY <1>1 DEF Fits, ReqRecs
<1>3. Fits(z)  BY <1>1 DEF Fits, Coherent, ReqRecs
<1>4. RequestsOK'
  <2>1. Goto(r, z) /\ UNCHANGED <<lock, cut, arrivals>>  BY DEF Cleanup
  <2> HIDE DEF z
  <2> QED  BY <1>3, <2>1, GotoType
<1>5. UNCHANGED <<tun, rule, srv, fw>>  BY DEF Cleanup
<1>6. files' \in [Servers -> [Files -> Contents]]
  <2>1. files \in [Servers -> [Files -> Contents]]  BY DEF TypeOK
  <2>2. None \in Contents  BY DEF Contents
  <2>3. files' = files \/ files' = [files EXCEPT ![s][f] = None]  BY DEF Cleanup
  <2> QED  BY <1>1, <2>1, <2>2, <2>3
<1>7. late' \subseteq [s : Servers, file : Paths \X (Names \cup {None}), to : Contents]
  <2>1. Erase(f[1], f[2]) \in Edits  BY <1>2 DEF Erase, Edit, Edits, Contents
  <2>2. w \in Seq(Edits) /\ Len(w) = 1  BY <2>1
  <2>3. late' = late \/ late' \in MayLandLate(s, w, 0)  BY DEF Cleanup
  <2> HIDE DEF w
  <2>4. 0 \in 0..Len(w)  BY <2>2
  <2>5. CASE late' = late  BY <2>5 DEF TypeOK
  <2>6. CASE late' \in MayLandLate(s, w, 0)  BY <1>1, <2>2, <2>4, <2>6, LateType
  <2> QED  BY <2>3, <2>5, <2>6
<1> QED  BY <1>4, <1>5, <1>6, <1>7 DEF TypeOK, RequestsOK, Reads

LEMMA TypeEngine ==
    ASSUME TypeOK, NEW r \in Requests, StartRepush(r) \/ FinishEngine(r)
    PROVE  TypeOK'
<1> DEFINE q == req[r]
           left == {t \in Tunnels : tun[t].st = "live"}
           z == [q EXCEPT !.pc = "repush", !.left = left]
<1>1. Fits(q)  BY DEF TypeOK, Fits
<1>2. CASE StartRepush(r)
  <2>1. left \subseteq Tunnels /\ q.kind = "engine"  BY <1>2 DEF StartRepush
  <2> HIDE DEF left
  <2>3. Fits(z)
    <3>1. q \in ReqRecs /\ Coherent(q)  BY <1>1 DEF Fits
    <3>2. z \in ReqRecs  BY <2>1, <3>1 DEF ReqRecs
    <3>3. /\ z.kind = q.kind /\ z.t = q.t /\ z.s = q.s /\ z.pc = "repush"
      BY <3>1 DEF ReqRecs
    <3> QED  BY <2>1, <3>1, <3>2, <3>3 DEF Fits, Coherent, TunnelKinds
  <2>4. Goto(r, z) /\ UNCHANGED <<lock, cut, arrivals>>  BY <1>2 DEF StartRepush, left
  <2> HIDE DEF z
  <2>5. RequestsOK'  BY <2>3, <2>4, GotoType
  <2> QED  BY <1>2, <2>5 DEF StartRepush, TypeOK, RequestsOK, Reads
<1>3. CASE FinishEngine(r)
  <2>1. RequestsOK'  BY <1>3, EndType DEF FinishEngine
  <2>2. OtherEngine(q.eng) \in Engines  BY DEF OtherEngine, Engines
  <2>3. srv' = [srv EXCEPT ![q.s].engine = OtherEngine(q.eng)]  BY <1>3 DEF FinishEngine
  <2>4. srv \in Fleets  BY DEF TypeOK, Fleets
  <2>5. srv' \in Fleets  BY <2>2, <2>3, <2>4 DEF Fleets
  <2>6. UNCHANGED <<tun, rule, files, fw, late>>  BY <1>3 DEF FinishEngine
  <2> QED  BY <2>1, <2>5, <2>6 DEF TypeOK, RequestsOK, Reads, Fleets
<1> QED  BY <1>2, <1>3

LEMMA TypeRule ==
    ASSUME TypeOK, NEW r \in Requests, FinishRule(r)
    PROVE  TypeOK'
<1>1. RequestsOK'  BY EndType DEF FinishRule
<1>2. req[r].t \in Tunnels  BY DEF FinishRule, TypeOK, Coherent, At
<1>3. fw' \subseteq Tunnels  BY <1>2 DEF FinishRule, TypeOK
<1>4. rule' \in [Tunnels -> RuleStates]  BY DEF FinishRule, TypeOK, RuleStates
<1> QED  BY <1>1, <1>3, <1>4 DEF FinishRule, TypeOK, RequestsOK, Reads

LEMMA TypeFleet ==
    ASSUME TypeOK, Fleet
    PROVE  TypeOK'
<1>1. srv \in Fleets  BY DEF TypeOK, Fleets
<1>2. srv' \in Fleets
  <2>1. ASSUME NEW s \in Servers, NEW e \in Engines, CreateServer(s, e)
        PROVE  srv' \in Fleets
    BY <1>1, <2>1 DEF CreateServer, FleetChange, Fleets
  <2>2. ASSUME NEW s \in Servers, SetActive(s)
        PROVE  srv' \in Fleets
    BY <1>1, <2>2 DEF SetActive, FleetChange, Fleets
  <2>3. ASSUME NEW s \in Servers, DeleteServer(s)
        PROVE  srv' \in Fleets
    BY <1>1, <2>3 DEF DeleteServer, FleetChange, Fleets
  <2> QED  BY <2>1, <2>2, <2>3 DEF Fleet
<1>3. UNCHANGED <<tun, rule, files, fw, late, lock, req, cut, arrivals>>
  BY DEF Fleet, CreateServer, SetActive, DeleteServer, FleetChange
<1> QED  BY <1>2, <1>3 DEF TypeOK, Fleets

LEMMA TypeLate ==
    ASSUME TypeOK, NEW c \in late, LateLands(c)
    PROVE  TypeOK'
BY DEF LateLands, TypeOK

LEMMA TypeInit == Init => TypeOK
<1> SUFFICES ASSUME Init PROVE TypeOK
  OBVIOUS
<1>1. Fits(NoRequest)  BY NoRequestType DEF Fits, Coherent, NoRequest, TunnelKinds
<1>2. NoRow \in Rows  BY NullTypes
<1> QED  BY <1>1, <1>2, InitEngineAssumption, BoundAssumption
         DEF Init, TypeOK, Fits, RuleStates, NoServer, Contents

LEMMA TypeStep == TypeOK /\ [Next]_vars => TypeOK'
<1> SUFFICES ASSUME TypeOK, [Next]_vars PROVE TypeOK'
  OBVIOUS
<1>1. CASE UNCHANGED vars  BY <1>1 DEF vars, TypeOK
<1>2. ASSUME NEW r \in Requests, Progress(r) PROVE TypeOK'
  BY <1>2, TypeLocked, TypeFanOut, TypeFinish, TypeRepush, TypeCleanup, TypeEngine, TypeRule
     DEF Progress
<1> QED  BY <1>1, <1>2, TypeArrive, TypeFinish, TypeCut, TypeFleet, TypeLate DEF Next

(* In every behaviour, whatever the fleet and however many requests, the   *)
(* rows, files and requests of tunnel_service.py and server_service.py     *)
(* stay in their types.                                                    *)
THEOREM TypeCorrect == Spec => []TypeOK
BY TypeInit, TypeStep, PTL DEF Spec

(* Two versions of a request that work on the same row with the same body. *)
SameJob(q, z) == /\ z.kind = q.kind /\ z.t = q.t
                 /\ z.patch = q.patch /\ z.old = q.old

(* A request that re-pushes or cleans up.                                  *)
Loops(r) == \E z : Goto(r, z) /\ SameJob(req[r], z) /\ req[r].pc = "repush" /\ z.pc = "repush"

LEMMA RepushShape ==
    ASSUME TypeOK, NEW r \in Requests, NEW t \in Tunnels, RepushOk(r, t) \/ RepushFails(r, t)
    PROVE  Loops(r) /\ UNCHANGED <<tun, rule, srv, fw, lock, cut, arrivals>>
<1> DEFINE q == req[r]
           left == q.left \ {t}
           gone == FilesOf(Remove(q.eng, Row(r, t).name))
<1>1. Repushing(r, t)  BY DEF RepushOk, RepushFails
<1>2. Goto(r, [q EXCEPT !.left = left, !.gone = gone]) \/ Goto(r, [q EXCEPT !.left = left])
  BY DEF RepushOk, RepushFails
<1>3. UNCHANGED <<tun, rule, srv, fw, lock, cut, arrivals>>  BY <1>1 DEF Repushing
<1>4. q \in ReqRecs /\ q.pc = "repush"  BY <1>1 DEF Repushing, At, TypeOK
<1> HIDE DEF q, left, gone
<1>5. PICK z : /\ Goto(r, z)
               /\ z = [q EXCEPT !.left = left, !.gone = gone] \/ z = [q EXCEPT !.left = left]
  BY <1>2
<1>6. SameJob(q, z) /\ z.pc = "repush"  BY <1>4, <1>5 DEF SameJob, ReqRecs
<1> QED  BY <1>3, <1>4, <1>5, <1>6 DEF Loops, q

LEMMA CleanupShape ==
    ASSUME TypeOK, NEW r \in Requests, NEW f, Cleanup(r, f)
    PROVE  Loops(r) /\ UNCHANGED <<tun, rule, srv, fw, lock, cut, arrivals>>
<1> DEFINE q == req[r]
           gone == q.gone \ {f}
<1>1. Goto(r, [q EXCEPT !.gone = gone])  BY DEF Cleanup
<1>2. UNCHANGED <<tun, rule, srv, fw, lock, cut, arrivals>>  BY DEF Cleanup
<1>3. q \in ReqRecs /\ q.pc = "repush"  BY DEF Cleanup, At, TypeOK
<1> HIDE DEF q, gone
<1>4. PICK z : Goto(r, z) /\ z = [q EXCEPT !.gone = gone]  BY <1>1
<1>5. SameJob(q, z) /\ z.pc = "repush"  BY <1>3, <1>4 DEF SameJob, ReqRecs
<1> QED  BY <1>2, <1>3, <1>4, <1>5 DEF Loops, q

-----------------------------------------------------------------------------
(* Mutual exclusion under LOCK_IPSEC_CONFIG.                               *)

LEMMA OneWriterStep == TypeOK /\ OneWriter /\ [Next]_vars => OneWriter'
<1> SUFFICES ASSUME TypeOK, OneWriter, [Next]_vars PROVE OneWriter'
  OBVIOUS
<1>1. None \notin Requests  BY NoneAssumption
(* A request that ends leaves the critical section with the lock.          *)
<1>2. ASSUME NEW r \in Requests, EndOf(r) PROVE OneWriter'
  BY <1>1, <1>2 DEF EndOf, Goto, NoRequest, TypeOK, OneWriter, Critical, Connected
(* A step that keeps the lock and stays on its side of require_lock.       *)
<1>3. ASSUME NEW r \in Requests, NEW q, Goto(r, q), UNCHANGED <<lock, cut>>,
             q.pc \in Critical <=> req[r].pc \in Critical
      PROVE  OneWriter'
  BY <1>3 DEF Goto, TypeOK, OneWriter, Connected
<1>4. ASSUME NEW r \in Requests, Arrive(r) PROVE OneWriter'
  <2>1. ASSUME NEW q, Begin(r, q), q.pc \notin Critical PROVE OneWriter'
    BY <1>3, <2>1 DEF Begin, At, Critical
  <2>2. ASSUME NEW t \in Tunnels, NEW d, BeginCreate(r, t, d) PROVE OneWriter'
    BY <2>1, <2>2 DEF BeginCreate, NoRequest, Critical
  <2>3. ASSUME NEW t \in Tunnels, NEW p, BeginUpdate(r, t, p) PROVE OneWriter'
    <3> DEFINE q == Loaded("update", t, p, "checked")
               z == [q EXCEPT !.pc = "loaded"]
    <3>1. q.pc \notin Critical /\ z.pc \notin Critical  BY DEF Loaded, NoRequest, Critical
    <3>2. Begin(r, q) \/ Begin(r, z)  BY <2>3 DEF BeginUpdate
    <3> HIDE DEF q, z
    <3> QED  BY <2>1, <3>1, <3>2
  <2>4. ASSUME NEW t \in Tunnels, BeginDelete(r, t) \/ BeginRetry(r, t) PROVE OneWriter'
    BY <2>1, <2>4 DEF BeginDelete, BeginRetry, Loaded, NoRequest, Critical
  <2>5. ASSUME NEW t \in Tunnels, BeginRule(r, t) PROVE OneWriter'
    BY <2>1, <2>5 DEF BeginRule, NoRequest, Critical
  <2>6. ASSUME NEW s \in Servers, BeginEngine(r, s) PROVE OneWriter'
    BY <2>1, <2>6 DEF BeginEngine, NoRequest, Critical
  <2> QED  BY <1>4, <2>2, <2>3, <2>4, <2>5, <2>6 DEF Arrive
<1>5. ASSUME NEW r \in Requests, Progress(r) \/ Abort(r) PROVE OneWriter'
  <2>1. CASE TakeLock(r)
    BY <1>1, <2>1 DEF TakeLock, Goto, At, TypeOK, OneWriter, Critical, Connected
  <2>2. CASE CheckName(r) \/ LockDenied(r)
    BY <1>3, <2>2 DEF CheckName, LockDenied, At, NoRequest, Critical, TypeOK, ReqRecs
  <2>3. CASE EndOf(r)  BY <1>2, <2>3
  <2>4. CASE StartFanOut(r)
    BY <1>3, <2>4 DEF StartFanOut, TunnelLocked, At, Critical, TypeOK, ReqRecs
  <2>5. CASE StartRepush(r)
    BY <1>3, <2>5 DEF StartRepush, At, Critical, TypeOK, ReqRecs
  <2>6. ASSUME NEW s \in Servers, ServerOk(r, s) \/ ServerFails(r, s) PROVE OneWriter'
    BY <1>3, <2>6 DEF ServerOk, ServerFails, Report, At, Critical, TypeOK, ReqRecs
  <2>7. ASSUME Loops(r), UNCHANGED <<lock, cut>> PROVE OneWriter'
    BY <1>3, <2>7 DEF Loops
  <2>8. IndexRejects(r) \/ UpdateQuiet(r) \/ RenameWithoutPsk(r) \/ KmsFails(r)
           \/ NoServers(r) \/ FinishSync(r) \/ FinishDelete(r) \/ DeleteAborted(r)
           \/ FinishEngine(r) \/ FinishRule(r) \/ Abort(r) \/ CutEnds(r)
        => EndOf(r)
    BY DEF IndexRejects, UpdateQuiet, RenameWithoutPsk, CommitUnsynced, KmsFails, NoServers,
           FinishSync, FinishDelete, DeleteAborted, FinishEngine, FinishRule, Abort,
           CutEnds, Rollback, Commit
  <2> QED
    BY <1>5, <2>1, <2>2, <2>3, <2>4, <2>5, <2>6, <2>7, <2>8, RepushShape, CleanupShape
       DEF Progress
<1>6. CASE UNCHANGED <<lock, req, cut>>  BY <1>6 DEF OneWriter, Connected
<1>7. CASE Fleet  BY <1>6, <1>7 DEF Fleet, CreateServer, SetActive, DeleteServer, FleetChange
<1>8. ASSUME NEW c \in late, LateLands(c) PROVE OneWriter'
  BY <1>6, <1>8 DEF LateLands
(* The lock goes with the connection.                                      *)
<1>9. ASSUME NEW r \in Requests, Disconnect(r) PROVE OneWriter'
  <2>1. /\ DOMAIN cut' = DOMAIN cut \cup {r} /\ req' = req
        /\ lock' = IF lock = r THEN None ELSE lock
    BY <1>9 DEF Disconnect
  <2> QED  BY <1>1, <2>1 DEF OneWriter, Connected
<1> QED  BY <1>4, <1>5, <1>6, <1>7, <1>8, <1>9 DEF Next, vars

(* However many requests run, only the holder of LOCK_IPSEC_CONFIG is past *)
(* require_lock: no two of them touch rows or servers at the same time.    *)
THEOREM MutualExclusion == Spec => []OneWriter
<1>1. Init => OneWriter
  BY NoneAssumption DEF Init, OneWriter, NoRequest, Critical
<1> QED  BY <1>1, TypeCorrect, OneWriterStep, PTL DEF Spec

-----------------------------------------------------------------------------
(* Names stay unique among the live rows.                                  *)

(* The id of a create has no row yet and belongs to no other request.      *)
FreshIds == \A r \in Requests : req[r].kind = "create" =>
               /\ tun[req[r].t].st = "none"
               /\ \A p \in Requests \ {r} : req[p].t # req[r].t

(* The name a request flushed before its fan-out stays free for it while   *)
(* its connection lives: the lock keeps every other commit away.           *)
NameHeld == \A r \in Requests :
               At(r, "fanout") /\ Connected(r) /\ req[r].kind # "delete" => IndexAllows(req[r])

NamesInv == TypeOK /\ OneWriter /\ FreshIds /\ NameHeld /\ UniqueLiveNames

LEMMA IndexSame ==
    ASSUME NEW q, NEW z, SameJob(q, z), IndexAllows(q)
    PROVE  IndexAllows(z)
BY DEF SameJob, IndexAllows, Pushed, OrElse

(* A request that goes on with its job.                                    *)
LEMMA NamesGoOn ==
    ASSUME NamesInv, NEW r \in Requests, NEW z, SameJob(req[r], z), Goto(r, z),
           UNCHANGED <<tun, cut>>,
           z.pc = "fanout" /\ Connected(r) /\ z.kind # "delete" => IndexAllows(req[r])
    PROVE  FreshIds' /\ NameHeld' /\ UniqueLiveNames'
<1> USE DEF NamesInv
<1>1. req' = [req EXCEPT ![r] = z] /\ req \in [Requests -> ReqRecs]  BY DEF Goto, TypeOK
<1>2. \A p \in Requests : SameJob(req[p], req'[p])  BY <1>1 DEF SameJob
<1>3. FreshIds'  BY <1>2 DEF FreshIds, SameJob
<1>4. NameHeld'
  <2> SUFFICES ASSUME NEW p \in Requests, req'[p].pc = "fanout", req'[p].kind # "delete",
                      Connected(p)
               PROVE  IndexAllows(req'[p])
    BY DEF NameHeld, At, IndexAllows, NameTaken, Connected
  <2>1. IndexAllows(req[p])
    <3>1. CASE p = r  BY <1>1, <3>1
    <3>2. CASE p # r  BY <1>1, <3>2 DEF NameHeld, At
    <3> QED  BY <3>1, <3>2
  <2> QED  BY <1>2, <2>1, IndexSame
<1> QED  BY <1>3, <1>4 DEF UniqueLiveNames

(* No request but r gets its connection back.                              *)
KeepsCut(r) == DOMAIN cut \ {r} \subseteq DOMAIN cut'

(* A request that ends without writing a row.                              *)
LEMMA NamesDropped ==
    ASSUME NamesInv, NEW r \in Requests, Goto(r, NoRequest), tun' = tun, KeepsCut(r)
    PROVE  FreshIds' /\ NameHeld' /\ UniqueLiveNames'
<1> USE DEF NamesInv
<1>1. req' = [req EXCEPT ![r] = NoRequest] /\ req \in [Requests -> ReqRecs]
  BY DEF Goto, TypeOK
<1>2. NoRequest.kind = "none" /\ NoRequest.pc = "idle" /\ NoRequest.t = None
  BY DEF NoRequest
<1>3. \A p \in Requests : req[p].kind = "create" => req[p].t # None
  BY NoneAssumption DEF TypeOK, Coherent, TunnelKinds
<1> HIDE DEF NamesInv
<1>4. FreshIds'  BY <1>1, <1>2, <1>3 DEF FreshIds, NamesInv
<1>5. NameHeld'
  BY <1>1, <1>2 DEF NameHeld, At, IndexAllows, NameTaken, NamesInv, Connected, KeepsCut
<1> QED  BY <1>4, <1>5 DEF UniqueLiveNames, NamesInv

(* A request that commits a row under a name no other live row has.        *)
LEMMA NamesCommit ==
    ASSUME NamesInv, NEW r \in Requests, NEW row, Commit(r, row),
           req[r].pc \in {"locked", "fanout"}, Connected(r),
           row.st = "live" => ~NameTaken(row.name, req[r].t)
    PROVE  FreshIds' /\ NameHeld' /\ UniqueLiveNames'
<1> USE DEF NamesInv
<1>1. /\ req' = [req EXCEPT ![r] = NoRequest] /\ req \in [Requests -> ReqRecs]
      /\ tun' = [tun EXCEPT ![req[r].t] = row] /\ tun \in [Tunnels -> Rows]
  BY DEF Commit, EndOf, Goto, TypeOK
<1>2. NoRequest.kind = "none" /\ NoRequest.pc = "idle" /\ NoRequest.t = None
  BY DEF NoRequest
<1>3. \A p \in Requests : req[p].kind = "create" => req[p].t # None /\ req[p].t \in Tunnels
  BY NoneAssumption DEF TypeOK, Coherent, TunnelKinds
<1>4. \A p \in Requests \ {r} : req[p].pc = "fanout" => p \in DOMAIN cut'
  BY DEF OneWriter, Critical, Connected, Commit, EndOf
<1> HIDE DEF NamesInv
<1>5. NameHeld'  BY <1>1, <1>2, <1>4 DEF NameHeld, At, Connected
<1>6. FreshIds'
  <2>1. ASSUME NEW p \in Requests, req'[p].kind = "create"
        PROVE  /\ tun'[req'[p].t].st = "none"
               /\ \A x \in Requests \ {p} : req'[x].t # req'[p].t
    <3>1. p # r /\ req'[p] = req[p]  BY <1>1, <1>2, <2>1
    <3>2. req[p].t # req[r].t /\ tun[req[p].t].st = "none"
          /\ \A x \in Requests \ {p} : req[x].t # req[p].t
      BY <2>1, <3>1 DEF FreshIds, NamesInv
    <3>3. tun'[req[p].t] = tun[req[p].t]  BY <1>1, <1>3, <2>1, <3>1, <3>2
    <3>4. \A x \in Requests \ {p} : req'[x].t # req[p].t
      BY <1>1, <1>2, <1>3, <2>1, <3>1, <3>2
    <3> QED  BY <3>1, <3>2, <3>3, <3>4
  <2> QED  BY <2>1 DEF FreshIds
<1>7. UniqueLiveNames'
  BY <1>1 DEF UniqueLiveNames, NameTaken, NamesInv
<1> QED  BY <1>5, <1>6, <1>7

(* What the flush lets through is unique.                                  *)
LEMMA SavedUnique ==
    ASSUME NamesInv, NEW r \in Requests, req[r].kind # "delete", IndexAllows(req[r]),
           NEW sync, NEW psk, NEW details,
           Saved(req[r], tun[req[r].t], sync, psk, details).st = "live"
    PROVE  ~NameTaken(Saved(req[r], tun[req[r].t], sync, psk, details).name, req[r].t)
BY DEF NamesInv, FreshIds, IndexAllows, Saved

LEMMA NamesArrive ==
    ASSUME NamesInv, NEW r \in Requests, Arrive(r)
    PROVE  FreshIds' /\ NameHeld' /\ UniqueLiveNames'
<1> USE DEF NamesInv
<1>1. ASSUME NEW q, Begin(r, q), q.pc # "fanout",
             q.kind = "create" => /\ tun[q.t].st = "none"
                                  /\ \A p \in Requests : req[p].t # q.t,
             q.kind # "create" => \A p \in Requests : req[p].kind = "create" => req[p].t # q.t
      PROVE  FreshIds' /\ NameHeld' /\ UniqueLiveNames'
  <2>1. req' = [req EXCEPT ![r] = q] /\ tun' = tun /\ req \in [Requests -> ReqRecs]
    BY <1>1 DEF Begin, Goto, TypeOK
  <2>2. FreshIds'
    <3>1. ASSUME NEW p \in Requests, req'[p].kind = "create"
          PROVE  /\ tun'[req'[p].t].st = "none"
                 /\ \A x \in Requests \ {p} : req'[x].t # req'[p].t
      <4>1. CASE p = r
        <5>1. req'[p] = q /\ \A x \in Requests \ {p} : req'[x] = req[x]  BY <2>1, <4>1
        <5>2. q.kind = "create"  BY <3>1, <5>1
        <5> QED  BY <1>1, <2>1, <5>1, <5>2
      <4>2. CASE p # r
        <5>1. req'[p] = req[p] /\ req[p].kind = "create"  BY <2>1, <3>1, <4>2
        <5>2. req[p].t # q.t  BY <1>1, <5>1
        <5> QED  BY <2>1, <4>2, <5>1, <5>2 DEF FreshIds
      <4> QED  BY <4>1, <4>2
    <3> QED  BY <3>1 DEF FreshIds
  <2>3. NameHeld'
    BY <1>1, <2>1 DEF NameHeld, At, IndexAllows, NameTaken, Connected, Begin
  <2> QED  BY <2>1, <2>2, <2>3 DEF UniqueLiveNames
<1>2. ASSUME NEW t \in Tunnels, NEW d, BeginCreate(r, t, d)
      PROVE  FreshIds' /\ NameHeld' /\ UniqueLiveNames'
  <2> DEFINE q == [NoRequest EXCEPT !.pc = "checked", !.kind = "create", !.t = t, !.patch = d]
  <2>1. q.pc = "checked" /\ q.t = t /\ q.kind = "create"  BY DEF NoRequest
  <2>2. Begin(r, q)  BY <1>2 DEF BeginCreate
  <2>3. tun[t].st = "none" /\ \A p \in Requests : req[p].t # t  BY <1>2 DEF BeginCreate
  <2> HIDE DEF q
  <2> QED  BY <1>1, <2>1, <2>2, <2>3
<1>3. ASSUME NEW q, Begin(r, q), q.pc # "fanout", q.kind # "create",
             q.t = None \/ tun[q.t].st = "live"
      PROVE  FreshIds' /\ NameHeld' /\ UniqueLiveNames'
  <2>1. \A p \in Requests : req[p].kind = "create" => req[p].t # q.t
    BY <1>3, NoneAssumption DEF FreshIds, TypeOK, Coherent, TunnelKinds
  <2> QED  BY <1>1, <1>3, <2>1
<1>4. ASSUME NEW t \in Tunnels, tun[t].st = "live", NEW kind \in {"update", "delete", "retry"},
             NEW p, NEW pc \in {"loaded", "checked"}, Begin(r, Loaded(kind, t, p, pc))
      PROVE  FreshIds' /\ NameHeld' /\ UniqueLiveNames'
  <2> DEFINE q == Loaded(kind, t, p, pc)
  <2>1. q.pc = pc /\ q.kind = kind /\ q.t = t  BY DEF Loaded, NoRequest
  <2>2. Begin(r, q)  BY <1>4
  <2> HIDE DEF q
  <2> QED  BY <1>3, <1>4, <2>1, <2>2
<1>5. ASSUME NEW t \in Tunnels, NEW p, BeginUpdate(r, t, p)
      PROVE  FreshIds' /\ NameHeld' /\ UniqueLiveNames'
  <2>1. [Loaded("update", t, p, "checked") EXCEPT !.pc = "loaded"] = Loaded("update", t, p, "loaded")
    BY DEF Loaded, NoRequest
  <2> QED  BY <1>4, <1>5, <2>1 DEF BeginUpdate
<1>6. ASSUME NEW t \in Tunnels, BeginDelete(r, t) \/ BeginRetry(r, t)
      PROVE  FreshIds' /\ NameHeld' /\ UniqueLiveNames'
  BY <1>4, <1>6 DEF BeginDelete, BeginRetry
<1>7. ASSUME NEW t \in Tunnels, BeginRule(r, t)
      PROVE  FreshIds' /\ NameHeld' /\ UniqueLiveNames'
  <2> DEFINE q == [NoRequest EXCEPT !.pc = "attach", !.kind = "rule", !.t = t]
  <2>1. q.pc = "attach" /\ q.kind = "rule" /\ q.t = t  BY DEF NoRequest
  <2>2. Begin(r, q) /\ tun[t].st = "live"  BY <1>7 DEF BeginRule
  <2> HIDE DEF q
  <2> QED  BY <1>3, <2>1, <2>2
<1>8. ASSUME NEW s \in Servers, BeginEngine(r, s)
      PROVE  FreshIds' /\ NameHeld' /\ UniqueLiveNames'
  <2> DEFINE q == [NoRequest EXCEPT !.pc = "checked", !.kind = "engine", !.s = s,
                                    !.eng = srv[s].engine]
  <2>1. q.pc = "checked" /\ q.kind = "engine" /\ q.t = None  BY DEF NoRequest
  <2>2. Begin(r, q)  BY <1>8 DEF BeginEngine
  <2> HIDE DEF q
  <2> QED  BY <1>3, <2>1, <2>2
<1> QED  BY <1>2, <1>5, <1>6, <1>7, <1>8 DEF Arrive

LEMMA NamesProgress ==
    ASSUME NamesInv, NEW r \in Requests, Progress(r) \/ Abort(r)
    PROVE  FreshIds' /\ NameHeld' /\ UniqueLiveNames'
<1> DEFINE q == req[r]
<1>0. q \in ReqRecs  BY DEF NamesInv, TypeOK
<1>1. CASE Goto(r, NoRequest) /\ tun' = tun /\ KeepsCut(r)  BY <1>1, NamesDropped
<1>2. CASE CommitUnsynced(r) /\ TunnelLocked(r) /\ q.kind # "delete"
  <2> DEFINE row == Saved(q, tun[q.t], Put("failed", q.old.sync, tun[q.t].sync),
                          tun[q.t].psk, tun[q.t].details)
  <2>1. Commit(r, row) /\ IndexAllows(q)  BY <1>2 DEF CommitUnsynced
  <2>2. row.st = "live" => ~NameTaken(row.name, q.t)  BY <1>2, <2>1, SavedUnique
  <2> HIDE DEF row
  <2> QED  BY <1>2, <2>1, <2>2, NamesCommit DEF TunnelLocked, At
<1>3. CASE NoServers(r) /\ q.kind # "delete"
  <2> DEFINE row == Saved(q, tun[q.t], "failed", SavedPsk(q, tun[q.t]), tun[q.t].details)
  <2>1. Commit(r, row) /\ IndexAllows(q)  BY <1>3 DEF NoServers
  <2>2. row.st = "live" => ~NameTaken(row.name, q.t)  BY <1>3, <2>1, SavedUnique
  <2> HIDE DEF row
  <2> QED  BY <1>3, <2>1, <2>2, NamesCommit DEF NoServers, TunnelLocked, At
<1>4. CASE FinishSync(r)
  <2> DEFINE row == Saved(q, tun[q.t], SyncStatus(q.out), SavedPsk(q, tun[q.t]),
                          Put(q.out, q.old.details, tun[q.t].details))
  <2>1. Commit(r, row) /\ q.kind # "delete" /\ q.pc = "fanout" /\ Connected(r)
    BY <1>4 DEF FinishSync, Gathered, At
  <2>2. IndexAllows(q)  BY <2>1 DEF NamesInv, NameHeld, At
  <2>3. row.st = "live" => ~NameTaken(row.name, q.t)  BY <2>1, <2>2, SavedUnique
  <2> HIDE DEF row
  <2> QED  BY <2>1, <2>3, NamesCommit
<1>5. CASE FinishDelete(r)
  <2> DEFINE row == [tun[q.t] EXCEPT !.st = "deleted", !.sync = "pending_delete"]
  <2>1. Commit(r, row) /\ q.kind = "delete" /\ q.pc = "fanout" /\ Connected(r)
    BY <1>5 DEF FinishDelete, Gathered, At
  <2>2. row.st = "deleted"
    <3>1. tun[q.t] \in Rows  BY <2>1 DEF NamesInv, TypeOK, Coherent, TunnelKinds
    <3> QED  BY <3>1 DEF Rows
  <2> HIDE DEF row
  <2> QED  BY <2>1, <2>2, NamesCommit
<1>6. CASE CheckName(r) \/ TakeLock(r) \/ StartFanOut(r) \/ StartRepush(r)
  <2>0. tun' = tun /\ cut' = cut /\ KeepsCut(r)
    BY <1>6 DEF CheckName, TakeLock, StartFanOut, StartRepush, KeepsCut
  <2>1. CASE Goto(r, NoRequest)  BY <2>0, <2>1, NamesDropped
  <2>2. CASE ~Goto(r, NoRequest)
    <3> DEFINE out == [s \in Servers |-> IF s \in Targets THEN "todo" ELSE "absent"]
               fan == [q EXCEPT !.pc = "fanout", !.out = out]
               rep == [q EXCEPT !.pc = "repush", !.left = {t \in Tunnels : tun[t].st = "live"}]
    <3>1. CASE CheckName(r)
      <4>1. Goto(r, [q EXCEPT !.pc = "checked"]) /\ tun' = tun
        BY <2>2, <3>1 DEF CheckName
      <4>2. SameJob(q, [q EXCEPT !.pc = "checked"]) /\ [q EXCEPT !.pc = "checked"].pc = "checked"
        BY <1>0 DEF SameJob, ReqRecs
      <4> QED  BY <2>0, <4>1, <4>2, NamesGoOn
    <3>2. CASE TakeLock(r)
      <4>1. Goto(r, [q EXCEPT !.pc = "locked"]) /\ tun' = tun  BY <3>2 DEF TakeLock
      <4>2. SameJob(q, [q EXCEPT !.pc = "locked"]) /\ [q EXCEPT !.pc = "locked"].pc = "locked"
        BY <1>0 DEF SameJob, ReqRecs
      <4> QED  BY <2>0, <4>1, <4>2, NamesGoOn
    <3>3. CASE StartFanOut(r)
      <4>1. Goto(r, fan) /\ tun' = tun /\ (q.kind = "delete" \/ IndexAllows(q))
        BY <3>3 DEF StartFanOut
      <4>2. SameJob(q, fan)  BY <1>0 DEF SameJob, ReqRecs
      <4> HIDE DEF fan
      <4> QED  BY <2>0, <4>1, <4>2, NamesGoOn DEF SameJob
    <3>4. CASE StartRepush(r)
      <4>1. Goto(r, rep) /\ tun' = tun  BY <3>4 DEF StartRepush
      <4>2. SameJob(q, rep) /\ rep.pc = "repush"  BY <1>0 DEF SameJob, ReqRecs
      <4> HIDE DEF rep
      <4> QED  BY <2>0, <4>1, <4>2, NamesGoOn
    <3> QED  BY <1>6, <3>1, <3>2, <3>3, <3>4
  <2> QED  BY <2>1, <2>2
<1>7. ASSUME NEW s \in Servers, ServerOk(r, s) \/ ServerFails(r, s)
      PROVE  FreshIds' /\ NameHeld' /\ UniqueLiveNames'
  <2>1. PICK x : Goto(r, [q EXCEPT !.out[s] = x])
    BY <1>7 DEF ServerOk, ServerFails, Report
  <2>2. At(r, "fanout") /\ UNCHANGED <<tun, cut>>  BY <1>7 DEF ServerOk, ServerFails
  <2>3. SameJob(q, [q EXCEPT !.out[s] = x])  BY <1>0 DEF SameJob, ReqRecs
  <2>4. q.kind # "delete" /\ Connected(r) => IndexAllows(q)  BY <2>2 DEF NamesInv, NameHeld
  <2> QED  BY <2>1, <2>2, <2>3, <2>4, NamesGoOn DEF SameJob
<1>8. ASSUME Loops(r), UNCHANGED <<tun, cut>>
      PROVE  FreshIds' /\ NameHeld' /\ UniqueLiveNames'
  BY <1>8, NamesGoOn DEF Loops
<1>9. LockDenied(r) \/ IndexRejects(r) \/ UpdateQuiet(r) \/ DeleteAborted(r)
         \/ FinishEngine(r) \/ FinishRule(r) \/ Abort(r) \/ CutEnds(r)
         \/ (NoServers(r) /\ q.kind = "delete") \/ (KmsFails(r) /\ q.kind = "create")
      => Goto(r, NoRequest) /\ tun' = tun /\ KeepsCut(r)
  <2>1. EndOf(r) => KeepsCut(r)  BY DEF EndOf, KeepsCut
  <2>2. LockDenied(r) => KeepsCut(r)  BY DEF LockDenied, KeepsCut
  <2> QED
    BY <2>1, <2>2 DEF LockDenied, IndexRejects, UpdateQuiet, DeleteAborted, FinishEngine,
       FinishRule, Abort, CutEnds, NoServers, KmsFails, Rollback, EndOf
<1>10. CASE RenameWithoutPsk(r) \/ (KmsFails(r) /\ q.kind # "create")
  BY <1>2, <1>10 DEF RenameWithoutPsk, RenamesWithoutPsk, Renames, KmsFails, UsesKms
<1>11. TypeOK  BY DEF NamesInv
<1> QED
  BY <1>1, <1>3, <1>4, <1>5, <1>6, <1>7, <1>8, <1>9, <1>10, <1>11, RepushShape, CleanupShape
     DEF Progress

LEMMA NamesStep == NamesInv /\ [Next]_vars => NamesInv'
<1> SUFFICES ASSUME NamesInv, [Next]_vars PROVE NamesInv'
  OBVIOUS
<1>1. TypeOK' /\ OneWriter'  BY TypeStep, OneWriterStep DEF NamesInv
<1>2. ASSUME UNCHANGED <<tun, req>>, DOMAIN cut \subseteq DOMAIN cut'
      PROVE  FreshIds' /\ NameHeld' /\ UniqueLiveNames'
  BY <1>2 DEF NamesInv, FreshIds, NameHeld, At, IndexAllows, NameTaken, UniqueLiveNames, Connected
<1>3. Fleet => UNCHANGED <<tun, req, cut>>
  BY DEF Fleet, CreateServer, SetActive, DeleteServer, FleetChange
<1>4. \A c \in late : LateLands(c) => UNCHANGED <<tun, req, cut>>  BY DEF LateLands
<1>6. \A r \in Requests : Disconnect(r) =>
         UNCHANGED <<tun, req>> /\ DOMAIN cut \subseteq DOMAIN cut'
  BY DEF Disconnect
<1>5. FreshIds' /\ NameHeld' /\ UniqueLiveNames'
  BY <1>2, <1>3, <1>4, <1>6, NamesArrive, NamesProgress DEF Next, vars
<1> QED  BY <1>1, <1>5 DEF NamesInv

(* No two live tunnels ever share a name, although requests look for it    *)
(* before they have the lock (tunnel_service.py:188): the index refuses    *)
(* the second flush, and under the lock no third request can slip between  *)
(* the flush and the commit.                                               *)
THEOREM NamesUnique == Spec => []UniqueLiveNames
<1>1. Init => NamesInv
  <2> SUFFICES ASSUME Init PROVE NamesInv
    OBVIOUS
  <2>1. \A r \in Requests : req[r].pc = "idle" /\ req[r].kind = "none"
    BY DEF Init, NoRequest
  <2>2. \A t \in Tunnels : tun[t].st = "none"  BY DEF Init, NoRow
  <2>3. OneWriter  BY <2>1, NoneAssumption DEF Init, OneWriter, Critical
  <2> QED  BY <2>1, <2>2, <2>3, TypeInit DEF NamesInv, FreshIds, NameHeld, At, UniqueLiveNames
<1>2. NamesInv => UniqueLiveNames  BY DEF NamesInv
<1> QED  BY <1>1, <1>2, NamesStep, PTL DEF Spec

-----------------------------------------------------------------------------
(* What every row and request has: a name, settings and a key; and every   *)
(* fan-out: servers that exist.                                            *)

OldKinds == {"update", "delete", "retry"}

(* The columns a request works under, and those it loaded.                 *)
JobFilled(q) ==
    /\ q.kind = "create" => /\ q.old.name = None /\ q.old.conf = None
                            /\ q.patch.name \in Names /\ q.patch.conf \in Confs
                            /\ q.patch.psk \in Psks
    /\ q.kind \in {"update", "delete", "retry"} => /\ q.old.name \in Names
                                                   /\ q.old.conf \in Confs
                                                   /\ q.old.psk \in Psks

Filled(row) == row.name \in Names /\ row.conf \in Confs /\ row.psk \in Psks
RowsFilled == \A t \in Tunnels : tun[t].st # "none" => Filled(tun[t])
JobsKnown == \A r \in Requests :
    JobFilled(req[r]) /\ (req[r].kind \in OldKinds => tun[req[r].t].st # "none")
Asks(q)    == /\ q.kind \in TunnelKinds
              /\ \A s \in Servers : q.out[s] # "absent" => srv[s].st # "none"
AskedKnown == \A r \in Requests : At(r, "fanout") => Asks(req[r])

Informed == RowsFilled /\ JobsKnown /\ AskedKnown

LEMMA ArriveShape ==
    ASSUME TypeOK, Informed, NEW r \in Requests, Arrive(r)
    PROVE  \E q : /\ Begin(r, q) /\ q.pc \notin Critical /\ JobFilled(q)
                  /\ q.kind \in OldKinds => tun[q.t].st # "none"
<1>1. ASSUME NEW t \in Tunnels, NEW d \in NewTunnels, BeginCreate(r, t, d)
      PROVE  \E q : /\ Begin(r, q) /\ q.pc \notin Critical /\ JobFilled(q)
                    /\ q.kind \in OldKinds => tun[q.t].st # "none"
  <2> DEFINE q == [NoRequest EXCEPT !.pc = "checked", !.kind = "create", !.t = t, !.patch = d]
  <2>1. q.pc = "checked" /\ q.kind = "create" /\ q.patch = d
      /\ q.old.name = None /\ q.old.conf = None
    BY DEF NoRequest, NoRow
  <2>2. Begin(r, q)  BY <1>1 DEF BeginCreate
  <2> HIDE DEF q
  <2> QED  BY <2>1, <2>2 DEF JobFilled, NewTunnels, OldKinds, Critical
<1>2. ASSUME NEW t \in Tunnels, tun[t].st = "live", NEW kind \in OldKinds, NEW p,
             NEW pc \in {"loaded", "checked"}, Begin(r, Loaded(kind, t, p, pc))
      PROVE  \E q : /\ Begin(r, q) /\ q.pc \notin Critical /\ JobFilled(q)
                    /\ q.kind \in OldKinds => tun[q.t].st # "none"
  <2> DEFINE q == Loaded(kind, t, p, pc)
  <2>1. q.pc = pc /\ q.kind = kind /\ q.t = t /\ q.old = tun[t]  BY DEF Loaded, NoRequest
  <2>2. Begin(r, q) /\ Filled(tun[t])  BY <1>2 DEF Informed, RowsFilled
  <2> HIDE DEF q
  <2> QED  BY <1>2, <2>1, <2>2 DEF JobFilled, OldKinds, Filled, Critical
<1>3. ASSUME NEW t \in Tunnels, NEW p, BeginUpdate(r, t, p)
      PROVE  \E q : /\ Begin(r, q) /\ q.pc \notin Critical /\ JobFilled(q)
                    /\ q.kind \in OldKinds => tun[q.t].st # "none"
  <2>1. [Loaded("update", t, p, "checked") EXCEPT !.pc = "loaded"] = Loaded("update", t, p, "loaded")
    BY DEF Loaded, NoRequest
  <2>2. tun[t].st = "live" /\ \E pc \in {"loaded", "checked"} : Begin(r, Loaded("update", t, p, pc))
    BY <1>3, <2>1 DEF BeginUpdate
  <2> QED  BY <1>2, <2>2 DEF OldKinds
<1>4. ASSUME NEW t \in Tunnels, BeginDelete(r, t) \/ BeginRetry(r, t)
      PROVE  \E q : /\ Begin(r, q) /\ q.pc \notin Critical /\ JobFilled(q)
                    /\ q.kind \in OldKinds => tun[q.t].st # "none"
  BY <1>2, <1>4 DEF BeginDelete, BeginRetry, OldKinds
<1>5. ASSUME NEW q, Begin(r, q), q.pc \notin Critical, q.kind \in {"rule", "engine"}
      PROVE  \E z : /\ Begin(r, z) /\ z.pc \notin Critical /\ JobFilled(z)
                    /\ z.kind \in OldKinds => tun[z.t].st # "none"
  BY <1>5 DEF JobFilled, OldKinds
<1>6. ASSUME NEW t \in Tunnels, BeginRule(r, t)
      PROVE  \E q : /\ Begin(r, q) /\ q.pc \notin Critical /\ JobFilled(q)
                    /\ q.kind \in OldKinds => tun[q.t].st # "none"
  <2> DEFINE q == [NoRequest EXCEPT !.pc = "attach", !.kind = "rule", !.t = t]
  <2>1. q.pc = "attach" /\ q.kind = "rule"  BY DEF NoRequest
  <2>2. Begin(r, q)  BY <1>6 DEF BeginRule
  <2> HIDE DEF q
  <2> QED  BY <1>5, <2>1, <2>2 DEF Critical
<1>7. ASSUME NEW s \in Servers, BeginEngine(r, s)
      PROVE  \E q : /\ Begin(r, q) /\ q.pc \notin Critical /\ JobFilled(q)
                    /\ q.kind \in OldKinds => tun[q.t].st # "none"
  <2> DEFINE q == [NoRequest EXCEPT !.pc = "checked", !.kind = "engine", !.s = s,
                                    !.eng = srv[s].engine]
  <2>1. q.pc = "checked" /\ q.kind = "engine"  BY DEF NoRequest
  <2>2. Begin(r, q)  BY <1>7 DEF BeginEngine
  <2> HIDE DEF q
  <2> QED  BY <1>5, <2>1, <2>2 DEF Critical
<1> QED  BY <1>1, <1>3, <1>4, <1>6, <1>7 DEF Arrive

(* What a request at work does to itself, the rows and the servers.        *)
GoesOn(r)  == \E z : /\ Goto(r, z) /\ SameJob(req[r], z)
                     /\ UNCHANGED <<tun, srv>>
                     /\ z.pc = "fanout" => Asks(z)
Drops(r)   == /\ Goto(r, NoRequest)
              /\ UNCHANGED tun
              /\ \A s \in Servers : srv'[s].st = srv[s].st
Commits(r) == \E row : /\ Commit(r, row)
                       /\ Filled(row) /\ row.st # "none"

LEMMA SavedFilled ==
    ASSUME TypeOK, Informed, NEW r \in Requests, req[r].kind \in TunnelKinds \ {"delete"},
           NEW sync, NEW details, NEW psk,
           \/ psk = SavedPsk(req[r], tun[req[r].t])
           \/ req[r].kind # "create" /\ psk = tun[req[r].t].psk
    PROVE  LET row == Saved(req[r], tun[req[r].t], sync, psk, details)
           IN  Filled(row) /\ row.st # "none"
<1> DEFINE q == req[r]
           cur == tun[q.t]
<1>1. q \in ReqRecs /\ q.t \in Tunnels /\ JobFilled(q)
      /\ (q.kind \in OldKinds => cur.st # "none")
  BY DEF TypeOK, Coherent, Informed, JobsKnown
<1>2. /\ q.patch.name = None \/ q.patch.name \in Names
      /\ q.patch.conf = None \/ q.patch.conf \in Confs
      /\ q.patch.psk = None \/ q.patch.psk \in Psks
  BY <1>1 DEF ReqRecs, Patches
<1>3. q.kind \in OldKinds \/ q.kind = "create"  BY DEF OldKinds, TunnelKinds
<1>4. q.kind \in OldKinds => Filled(cur)  BY <1>1 DEF Informed, RowsFilled
<1>5. q.kind \in OldKinds => Filled(q.old)  BY <1>1 DEF JobFilled, OldKinds, Filled
<1> HIDE DEF q, cur
<1>6. Put(Pushed(q).name, q.old.name, cur.name) \in Names
  BY <1>1, <1>2, <1>3, <1>4, <1>5, NoneAssumption DEF Put, Pushed, OrElse, Filled, JobFilled
<1>7. Put(Pushed(q).conf, q.old.conf, cur.conf) \in Confs
  BY <1>1, <1>2, <1>3, <1>4, <1>5, NoneAssumption DEF Put, Pushed, OrElse, Filled, JobFilled
<1>8. psk \in Psks
  BY <1>1, <1>2, <1>3, <1>4, NoneAssumption DEF SavedPsk, OrElse, Filled, JobFilled, OldKinds,
     q, cur
<1>9. (IF q.kind = "create" THEN "live" ELSE cur.st) # "none"
  BY <1>1, <1>3
<1> QED  BY <1>6, <1>7, <1>8, <1>9 DEF Saved, Filled, q, cur

LEMMA ProgressShape ==
    ASSUME TypeOK, Informed, NEW r \in Requests, Progress(r) \/ Abort(r)
    PROVE  GoesOn(r) \/ Drops(r) \/ Commits(r)
<1> DEFINE q == req[r]
<1>1. q \in ReqRecs /\ Coherent(q)  BY DEF TypeOK
<1>2. CASE CheckName(r) \/ TakeLock(r) \/ LockDenied(r)
  <2>1. CASE Goto(r, NoRequest)
    BY <1>2, <2>1 DEF CheckName, TakeLock, LockDenied, Drops
  <2>2. CASE ~Goto(r, NoRequest)
    <3>1. PICK pc \in {"checked", "locked"} : Goto(r, [q EXCEPT !.pc = pc])
      BY <1>2, <2>2 DEF CheckName, TakeLock, LockDenied
    <3> DEFINE z == [q EXCEPT !.pc = pc]
    <3>2. SameJob(q, z) /\ z.pc # "fanout"  BY <1>1 DEF SameJob, ReqRecs
    <3>3. UNCHANGED <<tun, srv>>  BY <1>2 DEF CheckName, TakeLock, LockDenied
    <3>4. Goto(r, z)  BY <3>1
    <3> HIDE DEF z
    <3> QED  BY <3>2, <3>3, <3>4 DEF GoesOn
  <2> QED  BY <2>1, <2>2
<1>3. CASE StartFanOut(r) \/ StartRepush(r)
  <2> DEFINE out == [s \in Servers |-> IF s \in Targets THEN "todo" ELSE "absent"]
             fan == [q EXCEPT !.pc = "fanout", !.out = out]
             rep == [q EXCEPT !.pc = "repush", !.left = {t \in Tunnels : tun[t].st = "live"}]
  <2>1. UNCHANGED <<tun, srv>>  BY <1>3 DEF StartFanOut, StartRepush
  <2>2. SameJob(q, fan) /\ fan.out = out  BY <1>1 DEF SameJob, ReqRecs
  <2>3. SameJob(q, rep) /\ rep.pc = "repush"  BY <1>1 DEF SameJob, ReqRecs
  <2>4. \A s \in Servers : out[s] # "absent" => srv[s].st # "none"  BY DEF Targets
  <2>5. (Goto(r, fan) /\ q.kind \in TunnelKinds) \/ Goto(r, rep)
    BY <1>3 DEF StartFanOut, StartRepush, UsesKms, TunnelKinds
  <2> HIDE DEF fan, rep, out
  <2> QED  BY <2>1, <2>2, <2>3, <2>4, <2>5 DEF GoesOn, Asks, SameJob
<1>4. ASSUME NEW s \in Servers, ServerOk(r, s) \/ ServerFails(r, s)
      PROVE  GoesOn(r)
  <2>1. PICK x \in {"ok", "failed"} : Goto(r, [q EXCEPT !.out[s] = x])
    BY <1>4 DEF ServerOk, ServerFails, Report
  <2> DEFINE z == [q EXCEPT !.out[s] = x]
  <2>2. SameJob(q, z) /\ \A y \in Servers : z.out[y] # "absent" => q.out[y] # "absent"
    <3>1. q.out[s] = "todo" /\ q.out \in [Servers -> {"absent", "todo", "ok", "failed"}]
      BY <1>1, <1>4 DEF ServerOk, ServerFails, ReqRecs, Outcomes
    <3>2. z.out = [q.out EXCEPT ![s] = x]  BY <1>1 DEF ReqRecs
    <3>3. \A y \in Servers : z.out[y] # "absent" => q.out[y] # "absent"  BY <3>1, <3>2
    <3> QED  BY <1>1, <3>3 DEF SameJob, ReqRecs
  <2>3. UNCHANGED <<tun, srv>> /\ At(r, "fanout")
    BY <1>4 DEF ServerOk, ServerFails
  <2>4. Goto(r, z)  BY <2>1
  <2> HIDE DEF z
  <2>5. Asks(q)  BY <2>3 DEF Informed, AskedKnown
  <2> QED  BY <2>2, <2>3, <2>4, <2>5 DEF GoesOn, Asks, SameJob
<1>5. ASSUME Loops(r), UNCHANGED <<tun, srv>>
      PROVE  GoesOn(r)
  BY <1>5 DEF Loops, GoesOn
<1>6. CASE \/ IndexRejects(r) \/ UpdateQuiet(r) \/ DeleteAborted(r) \/ FinishRule(r)
           \/ Abort(r) \/ CutEnds(r)
           \/ (NoServers(r) /\ q.kind = "delete") \/ (KmsFails(r) /\ q.kind = "create")
  BY <1>6 DEF IndexRejects, UpdateQuiet, DeleteAborted, Abort, CutEnds, FinishRule, NoServers,
     KmsFails, Rollback, EndOf, Drops
<1>7. CASE FinishEngine(r)
  <2>1. \A s \in Servers : srv'[s].st = srv[s].st  BY <1>7 DEF FinishEngine, TypeOK
  <2> QED  BY <1>7, <2>1 DEF FinishEngine, EndOf, Drops
<1>8. CASE \/ RenameWithoutPsk(r) \/ (KmsFails(r) /\ q.kind # "create")
           \/ (NoServers(r) /\ q.kind # "delete") \/ FinishSync(r)
  <2>1. q.kind \in TunnelKinds \ {"delete"}
    BY <1>1, <1>8 DEF RenameWithoutPsk, RenamesWithoutPsk, Renames, KmsFails, NoServers, UsesKms,
       FinishSync, Gathered, At, TunnelKinds, Informed, AskedKnown, Asks
  <2>2. \E sync, details, psk :
           /\ Commit(r, Saved(q, tun[q.t], sync, psk, details))
           /\ \/ psk = SavedPsk(q, tun[q.t])
              \/ q.kind # "create" /\ psk = tun[q.t].psk
    BY <1>8 DEF RenameWithoutPsk, RenamesWithoutPsk, Renames, KmsFails, CommitUnsynced,
       NoServers, FinishSync
  <2> QED  BY <2>1, <2>2, SavedFilled DEF Commits
<1>9. CASE FinishDelete(r)
  <2> DEFINE row == [tun[q.t] EXCEPT !.st = "deleted", !.sync = "pending_delete"]
  <2>1. Commit(r, row) /\ q.kind = "delete"  BY <1>9 DEF FinishDelete
  <2>2. tun[q.t] \in Rows /\ Filled(tun[q.t])
    BY <1>1, <2>1 DEF TypeOK, Coherent, TunnelKinds, Informed, JobsKnown, RowsFilled, OldKinds
  <2>3. Filled(row) /\ row.st = "deleted"  BY <2>2 DEF Rows, Filled
  <2> HIDE DEF row
  <2> QED  BY <2>1, <2>3 DEF Commits
<1> QED
  BY <1>2, <1>3, <1>4, <1>5, <1>6, <1>7, <1>8, <1>9, RepushShape, CleanupShape DEF Progress

LEMMA InformedStep ==
    ASSUME TypeOK, OneWriter, Informed, [Next]_vars
    PROVE  Informed'
<1> USE DEF Informed
<1>0. req \in [Requests -> ReqRecs] /\ tun \in [Tunnels -> Rows]  BY DEF TypeOK
<1>1. ASSUME UNCHANGED <<tun, req>>, \A s \in Servers : srv[s].st # "none" => srv'[s].st # "none"
      PROVE  Informed'
  BY <1>1 DEF RowsFilled, JobsKnown, AskedKnown, JobFilled, At, Asks
(* A request that begins, goes on or ends, the rows left as they are.      *)
<1>2. ASSUME NEW r \in Requests, NEW z, Goto(r, z), JobFilled(z),
             z.kind \in OldKinds => tun[z.t].st # "none",
             z.pc = "fanout" => Asks(z),
             UNCHANGED tun, \A s \in Servers : srv'[s].st = srv[s].st
      PROVE  Informed'
  <2>1. req' = [req EXCEPT ![r] = z]  BY <1>2 DEF Goto
  <2>2. JobsKnown'  BY <1>0, <1>2, <2>1 DEF JobsKnown, JobFilled
  <2>3. AskedKnown'  BY <1>0, <1>2, <2>1 DEF AskedKnown, At, Asks
  <2> QED  BY <1>2, <2>2, <2>3 DEF RowsFilled
<1>3. NoRequest.kind = "none" /\ NoRequest.pc = "idle" /\ JobFilled(NoRequest)
  BY DEF NoRequest, JobFilled
<1>4. ASSUME NEW r \in Requests, Arrive(r)
      PROVE  Informed'
  <2>1. PICK q : /\ Begin(r, q) /\ q.pc \notin Critical /\ JobFilled(q)
                 /\ q.kind \in OldKinds => tun[q.t].st # "none"
    BY <1>4, ArriveShape
  <2> QED  BY <1>2, <2>1 DEF Begin, Critical
<1>5. ASSUME NEW r \in Requests, GoesOn(r)
      PROVE  Informed'
  <2>1. PICK z : /\ Goto(r, z) /\ SameJob(req[r], z) /\ UNCHANGED <<tun, srv>>
                 /\ z.pc = "fanout" => Asks(z)
    BY <1>5 DEF GoesOn
  <2>2. JobFilled(z) /\ (z.kind \in OldKinds => tun[z.t].st # "none")
    BY <2>1 DEF JobsKnown, JobFilled, SameJob
  <2> QED  BY <1>2, <2>1, <2>2
<1>6. ASSUME NEW r \in Requests, Drops(r)
      PROVE  Informed'
  BY <1>2, <1>3, <1>6 DEF Drops, OldKinds
<1>7. ASSUME NEW r \in Requests, Commits(r)
      PROVE  Informed'
  <2>1. PICK row : Commit(r, row) /\ Filled(row) /\ row.st # "none"
    BY <1>7 DEF Commits
  <2>2. /\ tun' = [tun EXCEPT ![req[r].t] = row] /\ req' = [req EXCEPT ![r] = NoRequest]
        /\ UNCHANGED srv
    BY <2>1 DEF Commit, EndOf, Goto
  <2>3. \A t \in Tunnels : tun'[t] = tun[t] \/ tun'[t] = row  BY <1>0, <2>2
  <2>4. RowsFilled'  BY <2>1, <2>3 DEF RowsFilled
  <2>5. \A p \in Requests : req'[p] = req[p] \/ req'[p] = NoRequest  BY <1>0, <2>2
  <2>6. \A p \in Requests : req[p].kind \in OldKinds => req[p].t \in Tunnels
    BY DEF TypeOK, Coherent, OldKinds, TunnelKinds
  <2>7. JobsKnown'  BY <1>3, <2>1, <2>3, <2>5, <2>6 DEF JobsKnown, JobFilled, OldKinds
  <2>8. AskedKnown'  BY <1>3, <2>2, <2>5 DEF AskedKnown, At, Asks
  <2> QED  BY <2>2, <2>4, <2>7, <2>8
<1>8. ASSUME Fleet
      PROVE  Informed'
  <2>1. \A s \in Servers : srv[s].st # "none" => srv'[s].st # "none"
    <3>1. \A s \in Servers, e \in Engines : CreateServer(s, e) =>
            \A u \in Servers : srv[u].st # "none" => srv'[u].st # "none"
      BY DEF CreateServer, FleetChange, TypeOK
    <3>2. \A s \in Servers : SetActive(s) =>
            \A u \in Servers : srv[u].st # "none" => srv'[u].st # "none"
      BY DEF SetActive, FleetChange, TypeOK
    <3>3. \A s \in Servers : DeleteServer(s) =>
            \A u \in Servers : srv[u].st # "none" => srv'[u].st # "none"
      BY DEF DeleteServer, FleetChange, TypeOK
    <3> QED  BY <1>8, <3>1, <3>2, <3>3 DEF Fleet
  <2>2. UNCHANGED <<tun, req>>
    BY <1>8 DEF Fleet, CreateServer, SetActive, DeleteServer, FleetChange
  <2> QED  BY <1>1, <2>1, <2>2
<1>9. CASE UNCHANGED vars  BY <1>1, <1>9 DEF vars
<1>10. ASSUME NEW c \in late, LateLands(c)
       PROVE  Informed'
  BY <1>1, <1>10 DEF LateLands
<1>11. ASSUME NEW r \in Requests, Disconnect(r)
       PROVE  Informed'
  BY <1>1, <1>11 DEF Disconnect
<1> QED
  BY <1>4, <1>5, <1>6, <1>7, <1>8, <1>9, <1>10, <1>11, ProgressShape DEF Next

-----------------------------------------------------------------------------
(* TunnelSync implements TunnelContract.                                   *)

ContractInv == NamesInv /\ Informed

Showing == [t \in Tunnels |-> Shown(t)]
Job     == IF lock = None THEN NoJob ELSE JobOf(req[lock])

(* A step of the contract, or one it does not see.                         *)
ContractStep == Contract!Next \/ UNCHANGED <<Showing, Job>>

(* A row, as the tunnels list shows it.                                    *)
AsShown(row) == IF row.st = "live"
                THEN [st |-> "live", name |-> row.name, conf |-> row.conf,
                      psk |-> row.psk, sync |-> row.sync]
                ELSE Contract!Hidden(IF row.st = "none" THEN "absent" ELSE "gone")

LEMMA ShownRows == Showing = [t \in Tunnels |-> AsShown(tun[t])]
BY DEF Showing, Shown, AsShown, Contract!Hidden

LEMMA SameRows ==
    ASSUME tun' = tun
    PROVE  Showing' = Showing
BY DEF Showing, Shown

(* What the list shows after a commit.                                     *)
LEMMA ShownCommit ==
    ASSUME TypeOK, NEW t \in Tunnels, NEW row, tun' = [tun EXCEPT ![t] = row]
    PROVE  Showing' = [Showing EXCEPT ![t] = AsShown(row)]
<1>1. \A u \in Tunnels : tun'[u] = IF u = t THEN row ELSE tun[u]  BY DEF TypeOK
<1>2. Showing' = [u \in Tunnels |-> AsShown(tun'[u])]
  BY DEF Showing, Shown, AsShown, Contract!Hidden
<1>3. Showing = [u \in Tunnels |-> AsShown(tun[u])]  BY ShownRows
<1> HIDE DEF Showing
<1> QED  BY <1>1, <1>2, <1>3

LEMMA NoJobs == /\ Contract!NoJob = NoJob
                /\ \A q : q.pc \notin {"fanout", "repush"} => JobOf(q) = NoJob
                /\ JobOf(NoRequest) = NoJob
<1>1. Contract!NoJob = NoJob  BY DEF Contract!NoJob, Contract!NoAnswers, NoJob, NoDetails
<1>2. \A q : q.pc \notin {"fanout", "repush"} => JobOf(q) = NoJob  BY DEF JobOf
<1>3. NoRequest.pc = "idle"  BY DEF NoRequest
<1> QED  BY <1>1, <1>2, <1>3

(* The holder of the lock moves on, or leaves.                             *)
LEMMA JobHeld ==
    ASSUME TypeOK, OneWriter, NEW r \in Requests, NEW z, Goto(r, z),
           req[r].pc \in Critical, Connected(r),
           lock' = lock \/ (lock' = None /\ JobOf(z) = NoJob)
    PROVE  Job = JobOf(req[r]) /\ Job' = JobOf(z)
<1>1. lock = r /\ r # None  BY NoneAssumption DEF OneWriter
<1>2. req'[r] = z  BY DEF Goto, TypeOK
<1>3. Job = JobOf(req[r])  BY <1>1 DEF Job
<1>4. Job' = IF lock' = None THEN NoJob ELSE JobOf(req'[lock'])
  BY DEF Job, JobOf, NoJob, Pushed, OrElse, NoDetails
<1> QED  BY <1>1, <1>2, <1>3, <1>4

(* A request that is not at work on the servers before nor after.          *)
LEMMA ContractQuiet ==
    ASSUME TypeOK, NEW r \in Requests, NEW z, Goto(r, z), tun' = tun,
           req[r].pc \notin {"fanout", "repush"}, z.pc \notin {"fanout", "repush"},
           lock' = lock \/ (lock \in {r, None} /\ lock' \in {r, None})
    PROVE  UNCHANGED <<Showing, Job>>
<1>1. \A p \in Requests : req'[p] = IF p = r THEN z ELSE req[p]  BY DEF Goto, TypeOK
<1>2. JobOf(req[r]) = NoJob /\ JobOf(z) = NoJob  BY NoJobs
<1>3. Job' = IF lock' = None THEN NoJob ELSE JobOf(req'[lock'])
  BY DEF Job, JobOf, NoJob, Pushed, OrElse, NoDetails
<1>4. lock \in Requests \cup {None} /\ None \notin Requests  BY NoneAssumption DEF TypeOK
<1>5. CASE lock' = lock
  <2>1. CASE lock \in {r, None}
    <3>1. Job = NoJob  BY <1>2, <2>1 DEF Job
    <3>2. Job' = NoJob  BY <1>1, <1>2, <1>3, <1>5, <2>1
    <3>3. Job' = Job  BY <3>1, <3>2
    <3> QED  BY <3>3, SameRows
  <2>2. CASE lock \in Requests \ {r}
    <3>1. req'[lock] = req[lock] /\ lock # None  BY <1>1, <1>4, <2>2
    <3>2. Job = JobOf(req[lock])  BY <3>1 DEF Job
    <3>3. Job' = JobOf(req[lock])  BY <1>3, <1>5, <3>1
    <3>4. Job' = Job  BY <3>2, <3>3
    <3> QED  BY <3>4, SameRows
  <2> QED  BY <1>4, <2>1, <2>2
<1>6. CASE lock \in {r, None} /\ lock' \in {r, None}
  <2>1. Job = NoJob  BY <1>2, <1>6 DEF Job
  <2>2. Job' = NoJob  BY <1>1, <1>2, <1>3, <1>6
  <2>3. Job' = Job  BY <2>1, <2>2
  <2> QED  BY <2>3, SameRows
<1> QED  BY <1>5, <1>6

(* A request that no longer holds the lock does nothing the contract sees. *)
LEMMA ContractUnseen ==
    ASSUME TypeOK, NEW r \in Requests, NEW z, Goto(r, z), UNCHANGED <<tun, lock>>, lock # r
    PROVE  UNCHANGED <<Showing, Job>>
<1>1. lock # None => req'[lock] = req[lock]  BY DEF Goto, TypeOK
<1>2. Job' = IF lock' = None THEN NoJob ELSE JobOf(req'[lock'])
  BY DEF Job, JobOf, NoJob, Pushed, OrElse, NoDetails
<1>3. Job' = Job  BY <1>1, <1>2 DEF Job
<1> QED  BY <1>3, SameRows

(* A request that ends without writing its row.                            *)
LEMMA ContractDrops ==
    ASSUME ContractInv, NEW r \in Requests, EndOf(r), tun' = tun
    PROVE  ContractStep
<1> USE DEF ContractInv, NamesInv
<1>1. Goto(r, NoRequest) /\ lock' = IF lock = r THEN None ELSE lock  BY DEF EndOf
<1>2. CASE req[r].pc \notin {"fanout", "repush"}
  <2>1. NoRequest.pc = "idle"  BY DEF NoRequest
  <2> QED  BY <1>1, <1>2, <2>1, ContractQuiet DEF ContractStep
<1>4. CASE lock # r  BY <1>1, <1>4, ContractUnseen DEF ContractStep
<1>3. CASE req[r].pc \in {"fanout", "repush"} /\ lock = r
  <2>1. req[r].pc \in Critical /\ Connected(r)  BY <1>3 DEF OneWriter
  <2>2. lock = r  BY <2>1 DEF OneWriter
  <2>3. Job = JobOf(req[r]) /\ Job' = NoJob
    BY <1>1, <2>1, <2>2, JobHeld, NoJobs
  <2>4. JobOf(req[r]).kind # "none"  BY <1>3 DEF JobOf, NoJob
  <2>5. Contract!GiveUp
    BY <2>3, <2>4, SameRows, NoJobs DEF Contract!GiveUp, Job, Showing
  <2> QED  BY <2>5 DEF ContractStep, Contract!Next
<1> QED  BY <1>2, <1>3, <1>4

(* The holder of the lock loses its connection: its job is given up.       *)
LEMMA ContractCut ==
    ASSUME ContractInv, NEW r \in Requests, Disconnect(r)
    PROVE  ContractStep
<1> USE DEF ContractInv, NamesInv
<1>1. UNCHANGED <<tun, req>> /\ lock' = IF lock = r THEN None ELSE lock  BY DEF Disconnect
<1>2. Job' = IF lock' = None THEN NoJob ELSE JobOf(req[lock'])
  BY <1>1 DEF Job, JobOf, NoJob, Pushed, OrElse, NoDetails
<1>3. CASE lock # r
  <2>1. Job' = Job  BY <1>1, <1>2, <1>3 DEF Job
  <2> QED  BY <1>1, <2>1, SameRows DEF ContractStep
<1>4. CASE lock = r
  <2>1. Job = JobOf(req[r]) /\ Job' = NoJob  BY <1>1, <1>2, <1>4, NoneAssumption DEF Job
  <2>2. CASE req[r].pc \in {"fanout", "repush"}
    <3>1. JobOf(req[r]).kind # "none"  BY <2>2 DEF JobOf, NoJob
    <3>2. Contract!GiveUp
      BY <1>1, <2>1, <3>1, SameRows, NoJobs DEF Contract!GiveUp, Job, Showing
    <3> QED  BY <3>2 DEF ContractStep, Contract!Next
  <2>3. CASE req[r].pc \notin {"fanout", "repush"}
    <3>1. Job' = Job  BY <2>1, <2>3, NoJobs
    <3> QED  BY <1>1, <3>1, SameRows DEF ContractStep
  <2> QED  BY <2>2, <2>3
<1> QED  BY <1>3, <1>4

(* A commit ends the job of the request.                                   *)
LEMMA JobCommitted ==
    ASSUME ContractInv, NEW r \in Requests, NEW row, Commit(r, row), req[r].pc \in Critical,
           Connected(r)
    PROVE  Job = JobOf(req[r]) /\ Job' = NoJob
<1>1. lock = r  BY DEF ContractInv, NamesInv, OneWriter
<1>2. Goto(r, NoRequest) /\ lock' = None  BY <1>1 DEF Commit, EndOf
<1> QED  BY <1>2, JobHeld, NoJobs DEF ContractInv, NamesInv

(* What a request other than a delete writes is a value the contract lets  *)
(* its row take.                                                           *)
LEMMA ContractRow ==
    ASSUME ContractInv, NEW r \in Requests, req[r].kind \in TunnelKinds \ {"delete"},
           IndexAllows(req[r]), NEW sync, NEW psk, NEW details, NEW row,
           row = Saved(req[r], tun[req[r].t], sync, psk, details), Commit(r, row)
    PROVE  /\ req[r].t \in Tunnels
           /\ IF tun[req[r].t].st = "deleted"
              THEN \A n, c, p, y : Contract!Becomes(req[r].t, n, c, p, y)
              ELSE /\ Contract!Becomes(req[r].t, row.name, row.conf, row.psk, sync)
                   /\ req[r].kind # "create" => tun[req[r].t].st = "live"
<1> USE DEF ContractInv, NamesInv
<1>1. PICK q \in ReqRecs : q = req[r]  BY DEF TypeOK
<1>2. PICK t \in Tunnels : t = q.t  BY <1>1 DEF TypeOK, Coherent
<1>3. /\ tun[t] \in Rows /\ (q.kind = "create" => tun[t].st = "none")
      /\ q.kind # "create" => tun[t].st # "none"
  BY <1>1, <1>2 DEF TypeOK, FreshIds, Informed, JobsKnown, OldKinds, TunnelKinds
<1>4. tun' = [tun EXCEPT ![t] = row]  BY <1>1, <1>2 DEF Commit
<1>5. Showing' = [Showing EXCEPT ![t] = AsShown(row)]  BY <1>4, ShownCommit
<1>6. Showing = [u \in Tunnels |-> AsShown(tun[u])]  BY ShownRows
<1>7. Showing[t] = AsShown(tun[t])  BY <1>6
<1>8. /\ row.st = IF q.kind = "create" THEN "live" ELSE tun[t].st
      /\ row.sync = sync
  BY <1>1, <1>2 DEF Saved
<1>9. CASE tun[t].st = "deleted"
  <2>1. AsShown(row) = AsShown(tun[t])  BY <1>3, <1>8, <1>9 DEF AsShown
  <2>2. Showing' = Showing  BY <1>5, <1>6, <1>7, <2>1
  <2>3. Showing[t].st = "gone"  BY <1>7, <1>9 DEF AsShown, Contract!Hidden
  <2>4. \A n, c, p, y : Contract!Becomes(t, n, c, p, y)
    BY <2>2, <2>3 DEF Contract!Becomes, Showing
  <2> QED  BY <1>1, <1>2, <1>9, <2>4
<1>10. CASE tun[t].st # "deleted"
  <2>1. row.st = "live"  BY <1>3, <1>8, <1>10 DEF Rows
  <2>2. ~NameTaken(row.name, t)  BY <1>1, <1>2, <2>1, SavedUnique
  <2>3. Contract!IsFree(row.name, t)
    <3>1. ASSUME NEW u \in Tunnels \ {t}, Showing[u].st = "live"
          PROVE  Showing[u].name # row.name
      <4>1. Showing[u] = AsShown(tun[u])  BY <1>6
      <4>2. tun[u].st = "live"  BY <3>1, <4>1 DEF AsShown, Contract!Hidden
      <4> QED  BY <2>2, <4>1, <4>2 DEF AsShown, NameTaken
    <3> QED  BY <3>1 DEF Contract!IsFree, Showing
  <2>4. AsShown(row) = [st |-> "live", name |-> row.name, conf |-> row.conf,
                        psk |-> row.psk, sync |-> sync]
    BY <1>8, <2>1 DEF AsShown
  <2>5. Showing[t].st # "gone"
    BY <1>3, <1>7, <1>10 DEF AsShown, Contract!Hidden, Rows
  <2>6. Contract!Becomes(t, row.name, row.conf, row.psk, sync)
    BY <1>5, <2>3, <2>4, <2>5 DEF Contract!Becomes, Showing
  <2>7. q.kind # "create" => tun[t].st = "live"  BY <1>3, <1>10 DEF Rows
  <2> QED  BY <1>1, <1>2, <1>10, <2>6, <2>7
<1> QED  BY <1>9, <1>10

(* A request that ends "failed" before the fan-out.                        *)
LEMMA ContractUnsynced ==
    ASSUME ContractInv, NEW r \in Requests, At(r, "locked"), Connected(r),
           req[r].kind \in TunnelKinds \ {"delete"}, IndexAllows(req[r]),
           NEW sync, NEW psk, NEW details,
           Commit(r, Saved(req[r], tun[req[r].t], sync, psk, details)),
           \/ psk = SavedPsk(req[r], tun[req[r].t])
           \/ req[r].kind # "create" /\ psk = tun[req[r].t].psk,
           sync = "failed" \/ (req[r].kind # "create" /\ sync = tun[req[r].t].sync)
    PROVE  Contract!Next
<1> DEFINE row == Saved(req[r], tun[req[r].t], sync, psk, details)
<1>1. Commit(r, row)  OBVIOUS
<1>2. Filled(row)  BY SavedFilled DEF ContractInv, NamesInv
<1> HIDE DEF row
<1>3. PICK t \in Tunnels : t = req[r].t  BY ContractRow
<1>4. IF tun[t].st = "deleted"
      THEN \A n, c, p, y : Contract!Becomes(t, n, c, p, y)
      ELSE /\ Contract!Becomes(t, row.name, row.conf, row.psk, sync)
           /\ req[r].kind # "create" => tun[t].st = "live"
  BY <1>1, <1>3, ContractRow DEF row
<1>5. Showing[t] = AsShown(tun[t])  BY ShownRows
<1>6. \/ Contract!Becomes(t, row.name, row.conf, row.psk, "failed")
      \/ /\ Showing[t].st = "live"
         /\ Contract!Becomes(t, row.name, row.conf, row.psk, Showing[t].sync)
  <2>1. CASE tun[t].st = "deleted" \/ sync = "failed"  BY <1>4, <2>1
  <2>2. CASE tun[t].st # "deleted" /\ sync # "failed"
    <3>1. tun[t].st = "live" /\ sync = tun[t].sync  BY <1>3, <1>4, <2>2
    <3>2. Showing[t].st = "live" /\ Showing[t].sync = sync  BY <1>5, <3>1 DEF AsShown
    <3> QED  BY <1>4, <2>2, <3>2
  <2> QED  BY <2>1, <2>2
<1>7. Job = NoJob /\ Job' = NoJob
  <2>1. req[r].pc \in Critical /\ req[r].pc \notin {"fanout", "repush"}
    BY DEF At, Critical
  <2> QED  BY <1>1, <2>1, JobCommitted, NoJobs
<1>8. Contract!Unsynced(t, row.name, row.conf, row.psk)
  BY <1>6, <1>7, NoJobs DEF Contract!Unsynced, Job, Showing
<1> QED  BY <1>2, <1>8 DEF Contract!Next, Filled
LEMMA ContractFinish ==
    ASSUME ContractInv, NEW r \in Requests, FinishSync(r)
    PROVE  Contract!Next
<1> USE DEF ContractInv, NamesInv
<1>1. PICK q \in ReqRecs : q = req[r]  BY DEF TypeOK
<1>2. /\ q.pc = "fanout" /\ q.kind \in TunnelKinds \ {"delete"} /\ JobFilled(q) /\ Connected(r)
      /\ \A s \in Servers : q.out[s] # "todo"
      /\ IndexAllows(q)
  BY <1>1 DEF FinishSync, Gathered, At, Informed, AskedKnown, Asks, JobsKnown, NameHeld
<1>3. PICK t \in Tunnels : t = q.t  BY <1>1, <1>2 DEF TypeOK, Coherent
<1>4. PICK sync : sync = SyncStatus(q.out)  OBVIOUS
<1>5. PICK details : details = Put(q.out, q.old.details, tun[t].details)  OBVIOUS
<1>6. PICK row : row = Saved(q, tun[t], sync, SavedPsk(q, tun[t]), details)  OBVIOUS
<1>7. Commit(r, row)  BY <1>1, <1>3, <1>4, <1>5, <1>6 DEF FinishSync
<1>8. IF tun[t].st = "deleted"
      THEN \A n, c, p, y : Contract!Becomes(t, n, c, p, y)
      ELSE /\ Contract!Becomes(t, row.name, row.conf, row.psk, sync)
           /\ q.kind # "create" => tun[t].st = "live"
  BY <1>1, <1>2, <1>3, <1>6, <1>7, ContractRow
<1>9. Job = JobOf(q) /\ Job' = NoJob
  BY <1>1, <1>2, <1>7, JobCommitted DEF Critical
<1>10. JobOf(q) = [kind |-> "push", t |-> t, name |-> Pushed(q).name, conf |-> Pushed(q).conf,
                   psk |-> Pushed(q).psk, out |-> q.out]
  BY <1>2, <1>3 DEF JobOf
<1>11. PICK job : job = JobOf(q)  OBVIOUS
<1>12. /\ job.kind = "push" /\ job.t = t /\ job.out = q.out
       /\ job.name = Pushed(q).name /\ job.conf = Pushed(q).conf /\ job.psk = Pushed(q).psk
  BY <1>10, <1>11
<1>13. Job = job  BY <1>9, <1>11
<1>14. Contract!Answered  BY <1>2, <1>12, <1>13 DEF Contract!Answered, Job
<1>15. Contract!Verdict = sync
  <2>1. Contract!AllSaid <=> AllOk(q.out)
    <3>1. \A s \in Servers : q.out[s] \in {"absent", "todo", "ok", "failed"}
      BY <1>1 DEF ReqRecs, Outcomes
    <3> QED  BY <1>2, <1>12, <1>13, <3>1 DEF Contract!AllSaid, AllOk, Asked, Job
  <2> QED  BY <1>4, <1>12, <1>13, <2>1 DEF Contract!Verdict, SyncStatus, Job
<1>16. \E n \in Contract!Either(job.name, Showing[t].name),
          c \in Contract!Either(job.conf, Showing[t].conf),
          p \in Contract!Either(job.psk, Showing[t].psk) :
             Contract!Becomes(t, n, c, p, sync)
  <2>1. CASE tun[t].st = "deleted"  BY <1>8, <2>1 DEF Contract!Either
  <2>2. CASE tun[t].st # "deleted" /\ q.kind = "create"
    <3>1. row.name = job.name /\ row.conf = job.conf /\ row.psk = job.psk
      BY <1>2, <1>6, <1>12, <2>2, NoneAssumption
         DEF Saved, SavedPsk, Put, Pushed, OrElse, JobFilled
    <3> QED  BY <1>8, <2>2, <3>1 DEF Contract!Either
  <2>3. CASE tun[t].st # "deleted" /\ q.kind # "create"
    <3>1. tun[t].st = "live"  BY <1>8, <2>3
    <3>2. Filled(tun[t])  BY <3>1 DEF Informed, RowsFilled
    <3>3. Showing[t] = AsShown(tun[t])  BY ShownRows
    <3>4. /\ Showing[t].name = tun[t].name /\ Showing[t].conf = tun[t].conf
          /\ Showing[t].psk = tun[t].psk
      BY <3>1, <3>3 DEF AsShown
    <3>5. None \notin Names \cup Confs \cup Psks  BY NoneAssumption
    <3>6. /\ row.name \in {job.name, tun[t].name} /\ row.conf \in {job.conf, tun[t].conf}
          /\ row.psk \in {job.psk, tun[t].psk}
      BY <1>6, <1>12 DEF Saved, SavedPsk, Put, Pushed, OrElse
    <3>7. /\ row.name \in Contract!Either(job.name, Showing[t].name)
          /\ row.conf \in Contract!Either(job.conf, Showing[t].conf)
          /\ row.psk \in Contract!Either(job.psk, Showing[t].psk)
      BY <3>2, <3>4, <3>5, <3>6 DEF Contract!Either, Filled
    <3> QED  BY <1>8, <2>3, <3>7
  <2> QED  BY <2>1, <2>2, <2>3
<1>17. Contract!EndPush
  BY <1>9, <1>12, <1>13, <1>14, <1>15, <1>16, NoJobs DEF Contract!EndPush, Job, Showing
<1> QED  BY <1>17 DEF Contract!Next

LEMMA ContractDelete ==
    ASSUME ContractInv, NEW r \in Requests, FinishDelete(r)
    PROVE  Contract!Next
<1> USE DEF ContractInv, NamesInv
<1>1. PICK q \in ReqRecs : q = req[r]  BY DEF TypeOK
<1>2. /\ q.pc = "fanout" /\ q.kind = "delete" /\ AllOk(q.out) /\ Connected(r)
  BY <1>1 DEF FinishDelete, Gathered, At
<1>3. PICK t \in Tunnels : t = q.t  BY <1>1, <1>2 DEF TypeOK, Coherent, TunnelKinds
<1>4. PICK row : row = [tun[t] EXCEPT !.st = "deleted", !.sync = "pending_delete"]  OBVIOUS
<1>5. Commit(r, row)  BY <1>1, <1>3, <1>4 DEF FinishDelete
<1>6. Job = JobOf(q) /\ Job' = NoJob
  BY <1>1, <1>2, <1>5, JobCommitted DEF Critical
<1>7. JobOf(q) = [NoJob EXCEPT !.kind = "remove", !.t = t, !.out = q.out]
  BY <1>2, <1>3 DEF JobOf
<1>8. Job.kind = "remove" /\ Job.t = t /\ Job.out = q.out
  <2>1. PICK job : job = JobOf(q)  OBVIOUS
  <2>2. job.kind = "remove" /\ job.t = t /\ job.out = q.out  BY <1>7, <2>1 DEF NoJob
  <2> QED  BY <1>6, <2>1, <2>2
<1>9. Contract!AllSaid
  <2>1. \A s \in Servers : q.out[s] \in {"ok", "absent"}  BY <1>2 DEF AllOk, Asked
  <2> QED  BY <1>8, <2>1 DEF Contract!AllSaid, Job
<1>10. Showing' = [Showing EXCEPT ![t] = Contract!Hidden("gone")]
  <2>1. tun[t] \in Rows  BY DEF TypeOK
  <2>2. row.st = "deleted"  BY <1>4, <2>1 DEF Rows
  <2>3. AsShown(row) = Contract!Hidden("gone")  BY <2>2 DEF AsShown
  <2>4. tun' = [tun EXCEPT ![t] = row]  BY <1>1, <1>3, <1>5 DEF Commit
  <2> QED  BY <2>3, <2>4, ShownCommit
<1>11. Contract!EndRemove
  BY <1>6, <1>8, <1>9, <1>10, NoJobs DEF Contract!EndRemove, Job, Showing
<1> QED  BY <1>11 DEF Contract!Next

LEMMA ContractStart ==
    ASSUME ContractInv, NEW r \in Requests, StartFanOut(r)
    PROVE  Contract!Next
<1> USE DEF ContractInv, NamesInv
<1>1. PICK q \in ReqRecs : q = req[r]  BY DEF TypeOK
<1>2. PICK out : out = Contract!Asking(Targets)  OBVIOUS
<1>3. PICK z : z = [q EXCEPT !.pc = "fanout", !.out = out]  OBVIOUS
<1>4. Goto(r, z) /\ lock' = lock /\ tun' = tun
  BY <1>1, <1>2, <1>3 DEF StartFanOut, Contract!Asking
<1>5. /\ q.pc = "locked" /\ q.kind \in TunnelKinds /\ JobFilled(q) /\ Connected(r)
      /\ q.kind \in OldKinds => tun[q.t].st # "none"
  BY <1>1 DEF StartFanOut, TunnelLocked, At, UsesKms, TunnelKinds, Informed, JobsKnown
<1>6. PICK t \in Tunnels : t = q.t  BY <1>1, <1>5 DEF TypeOK, Coherent
<1>7. Job = NoJob /\ Job' = JobOf(z)
  BY <1>1, <1>4, <1>5, JobHeld, NoJobs DEF Critical
<1>8. z.pc = "fanout" /\ SameJob(q, z) /\ z.out = out  BY <1>1, <1>3 DEF SameJob, ReqRecs
<1>9. Targets \in (SUBSET Servers) \ {{}}
  <2>1. Targets # {}  BY DEF StartFanOut
  <2>2. Targets \subseteq Servers  BY DEF Targets
  <2> QED  BY <2>1, <2>2
<1>10. CASE q.kind = "delete"
  <2>1. JobOf(z) = [NoJob EXCEPT !.kind = "remove", !.t = t, !.out = out]
    BY <1>6, <1>8, <1>10 DEF JobOf, SameJob
  <2>2. Showing[t].st # "absent"
    <3>1. Showing[t] = AsShown(tun[t])  BY ShownRows
    <3> QED  BY <1>5, <1>6, <1>10, <3>1 DEF AsShown, Contract!Hidden, OldKinds
  <2>3. Contract!Remove(t, Targets)
    BY <1>2, <1>4, <1>7, <2>1, <2>2, SameRows, NoJobs DEF Contract!Remove, Job, Showing
  <2> QED  BY <1>9, <2>3 DEF Contract!Next
<1>11. CASE q.kind # "delete"
  <2>1. Pushed(z) = Pushed(q)  BY <1>8 DEF Pushed, OrElse, SameJob
  <2>2. PICK n, c, p : n = Pushed(q).name /\ c = Pushed(q).conf /\ p = Pushed(q).psk
    OBVIOUS
  <2>3. JobOf(z) = [kind |-> "push", t |-> t, name |-> n, conf |-> c, psk |-> p, out |-> out]
    BY <1>6, <1>8, <1>11, <2>1, <2>2 DEF JobOf, SameJob
  <2>4. n \in Names /\ c \in Confs /\ p \in Psks
    BY <1>1, <1>5, <1>11, <2>2, NoneAssumption
       DEF JobFilled, TunnelKinds, Pushed, OrElse, ReqRecs, Patches
  <2>5. Contract!Push(t, n, c, p, Targets)
    BY <1>2, <1>4, <1>7, <2>3, SameRows, NoJobs DEF Contract!Push, Job, Showing
  <2> QED  BY <1>9, <2>4, <2>5 DEF Contract!Next
<1> QED  BY <1>10, <1>11

LEMMA ContractAnswer ==
    ASSUME ContractInv, NEW r \in Requests, NEW s \in Servers,
           ServerOk(r, s) \/ ServerFails(r, s)
    PROVE  ContractStep
<1> USE DEF ContractInv, NamesInv
<1>1. PICK q \in ReqRecs : q = req[r]  BY DEF TypeOK
<1>2. PICK x \in {"ok", "failed"} : Goto(r, [q EXCEPT !.out[s] = x])
  BY <1>1 DEF ServerOk, ServerFails, Report
<1>3. PICK z : z = [q EXCEPT !.out[s] = x]  OBVIOUS
<1>11. CASE ~Connected(r)
  <2>1. lock # r  BY <1>11 DEF OneWriter
  <2>2. Goto(r, z) /\ UNCHANGED <<tun, lock>>  BY <1>1, <1>2, <1>3 DEF ServerOk, ServerFails
  <2> QED  BY <2>1, <2>2, ContractUnseen DEF ContractStep
<1> SUFFICES ASSUME Connected(r) PROVE Contract!Next
  BY <1>11 DEF ContractStep
<1>4. Goto(r, z) /\ lock' = lock /\ tun' = tun /\ q.pc = "fanout" /\ q.out[s] = "todo"
  BY <1>1, <1>2, <1>3 DEF ServerOk, ServerFails, At
<1>5. Job = JobOf(q) /\ Job' = JobOf(z)  BY <1>1, <1>4, JobHeld DEF Critical
<1>6. z.pc = "fanout" /\ SameJob(q, z) /\ z.out = [q.out EXCEPT ![s] = x]
  BY <1>1, <1>3, <1>4 DEF SameJob, ReqRecs
<1>7. Pushed(z) = Pushed(q)  BY <1>6 DEF Pushed, OrElse, SameJob
<1>8. JobOf(z) = [JobOf(q) EXCEPT !.out[s] = x] /\ JobOf(q).out = q.out
  <2>1. CASE q.kind = "delete"
    <3>1. JobOf(q) = [NoJob EXCEPT !.kind = "remove", !.t = q.t, !.out = q.out]
      BY <1>4, <2>1 DEF JobOf
    <3>2. JobOf(z) = [NoJob EXCEPT !.kind = "remove", !.t = q.t, !.out = z.out]
      BY <1>6, <2>1 DEF JobOf, SameJob
    <3> QED  BY <1>6, <3>1, <3>2 DEF NoJob
  <2>2. CASE q.kind # "delete"
    <3>1. JobOf(q) = [kind |-> "push", t |-> q.t, name |-> Pushed(q).name,
                      conf |-> Pushed(q).conf, psk |-> Pushed(q).psk, out |-> q.out]
      BY <1>4, <2>2 DEF JobOf
    <3>2. JobOf(z) = [kind |-> "push", t |-> q.t, name |-> Pushed(q).name,
                      conf |-> Pushed(q).conf, psk |-> Pushed(q).psk, out |-> z.out]
      BY <1>6, <1>7, <2>2 DEF JobOf, SameJob
    <3> QED  BY <1>6, <3>1, <3>2
  <2> QED  BY <2>1, <2>2
<1>9. Job' = [Job EXCEPT !.out[s] = x] /\ Job.out[s] = "todo"  BY <1>4, <1>5, <1>8
<1>10. Contract!Answer(s, x)
  BY <1>4, <1>9, SameRows DEF Contract!Answer, Job, Showing
<1> QED  BY <1>10 DEF Contract!Next

LEMMA ContractProgress ==
    ASSUME ContractInv, NEW r \in Requests, Progress(r) \/ Abort(r)
    PROVE  ContractStep
<1> USE DEF ContractInv, NamesInv
<1>1. PICK q \in ReqRecs : q = req[r]  BY DEF TypeOK
<1>2. CASE EndOf(r) /\ tun' = tun  BY <1>2, ContractDrops
<1>3. CASE CheckName(r) \/ TakeLock(r) \/ LockDenied(r)
  <2>1. PICK z : Goto(r, z) /\ z.pc \notin {"fanout", "repush"}
    <3>1. \A pc \in {"checked", "locked"} : [q EXCEPT !.pc = pc].pc = pc  BY DEF ReqRecs
    <3>2. \/ Goto(r, NoRequest)
          \/ \E pc \in {"checked", "locked"} : Goto(r, [q EXCEPT !.pc = pc])
      BY <1>1, <1>3 DEF CheckName, TakeLock, LockDenied
    <3>3. NoRequest.pc = "idle"  BY DEF NoRequest
    <3> QED  BY <3>1, <3>2, <3>3
  <2>2. /\ tun' = tun /\ req[r].pc \notin {"fanout", "repush"}
        /\ lock' = lock \/ (lock = None /\ lock' = r)
    BY <1>3 DEF CheckName, TakeLock, LockDenied, At
  <2> QED  BY <2>1, <2>2, ContractQuiet DEF ContractStep
<1>4. CASE RenameWithoutPsk(r) \/ (KmsFails(r) /\ q.kind # "create")
  <2>1. /\ At(r, "locked") /\ q.kind \in TunnelKinds \ {"delete"} /\ q.kind # "create"
        /\ Connected(r)
        /\ CommitUnsynced(r)
    BY <1>1, <1>4 DEF RenameWithoutPsk, RenamesWithoutPsk, Renames, KmsFails, UsesKms,
       TunnelLocked, TunnelKinds
  <2>2. PICK sync : sync = Put("failed", q.old.sync, tun[q.t].sync)  OBVIOUS
  <2>3. sync = "failed" \/ sync = tun[q.t].sync  BY <2>2 DEF Put
  <2>4. /\ IndexAllows(q)
        /\ Commit(r, Saved(q, tun[q.t], sync, tun[q.t].psk, tun[q.t].details))
    BY <1>1, <2>1, <2>2 DEF CommitUnsynced
  <2> QED  BY <1>1, <2>1, <2>3, <2>4, ContractUnsynced DEF ContractStep
<1>5. CASE NoServers(r) /\ q.kind # "delete"
  <2>1. /\ At(r, "locked") /\ q.kind \in TunnelKinds \ {"delete"} /\ IndexAllows(q)
        /\ Connected(r)
        /\ Commit(r, Saved(q, tun[q.t], "failed", SavedPsk(q, tun[q.t]), tun[q.t].details))
    BY <1>1, <1>5 DEF NoServers, UsesKms, TunnelLocked, TunnelKinds
  <2> QED  BY <1>1, <2>1, ContractUnsynced DEF ContractStep
<1>6. CASE FinishSync(r) \/ FinishDelete(r) \/ StartFanOut(r)
  BY <1>6, ContractFinish, ContractDelete, ContractStart DEF ContractStep
<1>7. ASSUME NEW s \in Servers, ServerOk(r, s) \/ ServerFails(r, s)
      PROVE  ContractStep
  BY <1>7, ContractAnswer
<1>8. CASE StartRepush(r)
  <2> DEFINE left == {t \in Tunnels : tun[t].st = "live"}
  <2>0. Goto(r, [q EXCEPT !.pc = "repush", !.left = left])  BY <1>1, <1>8 DEF StartRepush
  <2> HIDE DEF left
  <2>1. PICK z : z = [q EXCEPT !.pc = "repush", !.left = left]  OBVIOUS
  <2>2. Goto(r, z) /\ lock' = lock /\ tun' = tun /\ q.pc = "locked" /\ Connected(r)
    BY <1>1, <1>8, <2>0, <2>1 DEF StartRepush, At
  <2>3. z.pc = "repush"  BY <2>1 DEF ReqRecs
  <2>4. Job = NoJob /\ Job' = JobOf(z)  BY <1>1, <2>2, JobHeld, NoJobs DEF Critical
  <2>5. JobOf(z) = [NoJob EXCEPT !.kind = "switch"]  BY <2>3 DEF JobOf
  <2>6. Contract!Switch
    BY <2>2, <2>4, <2>5, SameRows, NoJobs DEF Contract!Switch, Job, Showing
  <2> QED  BY <2>6 DEF ContractStep, Contract!Next
<1>9. ASSUME Loops(r), UNCHANGED <<tun, lock>>
      PROVE  ContractStep
  <2>1. PICK z : Goto(r, z) /\ q.pc = "repush" /\ z.pc = "repush"
    BY <1>1, <1>9 DEF Loops
  <2>2. CASE lock # r  BY <1>9, <2>1, <2>2, ContractUnseen DEF ContractStep
  <2>3. CASE lock = r
    <3>1. q.pc \in Critical /\ Connected(r)  BY <1>1, <2>3 DEF OneWriter
    <3>2. Job = JobOf(q) /\ Job' = JobOf(z)  BY <1>1, <1>9, <2>1, <3>1, JobHeld
    <3>3. JobOf(q) = JobOf(z)  BY <2>1 DEF JobOf
    <3>4. Job' = Job  BY <3>2, <3>3
    <3> QED  BY <1>9, <3>4, SameRows DEF ContractStep
  <2> QED  BY <2>2, <2>3
<1>10. IndexRejects(r) \/ UpdateQuiet(r) \/ DeleteAborted(r) \/ FinishEngine(r)
          \/ FinishRule(r) \/ Abort(r) \/ CutEnds(r)
          \/ (NoServers(r) /\ q.kind = "delete") \/ (KmsFails(r) /\ q.kind = "create")
       => EndOf(r) /\ tun' = tun
  BY <1>1 DEF IndexRejects, UpdateQuiet, DeleteAborted, FinishEngine, FinishRule, Abort,
     CutEnds, NoServers, KmsFails, Rollback
<1>11. TypeOK  OBVIOUS
<1> HIDE DEF ContractInv, NamesInv
<1> QED
  BY <1>2, <1>3, <1>4, <1>5, <1>6, <1>7, <1>8, <1>9, <1>10, <1>11, RepushShape, CleanupShape
     DEF Progress

LEMMA ContractArrive ==
    ASSUME ContractInv, NEW r \in Requests, Arrive(r)
    PROVE  ContractStep
<1> USE DEF ContractInv, NamesInv
<1>1. PICK q : Begin(r, q) /\ q.pc \notin Critical  BY ArriveShape
<1>2. Goto(r, q) /\ lock' = lock /\ tun' = tun /\ req[r].pc = "idle"
  BY <1>1 DEF Begin, At
<1> QED  BY <1>1, <1>2, ContractQuiet DEF ContractStep, Critical

LEMMA ContractSteps == ContractInv /\ [Next]_vars => ContractStep /\ ContractInv'
<1> SUFFICES ASSUME ContractInv, [Next]_vars PROVE ContractStep /\ ContractInv'
  OBVIOUS
<1>1. ContractInv'  BY NamesStep, InformedStep DEF ContractInv, NamesInv
<1>3. ASSUME UNCHANGED <<tun, req, lock>>
      PROVE  ContractStep
  BY <1>3 DEF ContractStep, Showing, Shown, Job, JobOf, NoJob, NoDetails, Pushed, OrElse
<1>4. Fleet => UNCHANGED <<tun, req, lock>>
  BY DEF Fleet, CreateServer, SetActive, DeleteServer, FleetChange
<1>5. \A c \in late : LateLands(c) => UNCHANGED <<tun, req, lock>>  BY DEF LateLands
<1> QED
  BY <1>1, <1>3, <1>4, <1>5, ContractArrive, ContractProgress, ContractCut DEF Next, vars

(* To its clients the service runs one job at a time: the status the list  *)
(* shows of a push is the verdict of the servers that push asked, no row   *)
(* changes under a fan-out, a tunnel goes only after all servers its       *)
(* delete asked confirmed.  For every fleet, SSM or not, whatever fails or *)
(* dies, and however the requests overlap (locks.py:1, fan_out.py:57).     *)
THEOREM TunnelContractKept == Spec => KeepsContract
<1>1. Init => ContractInv /\ Contract!Init
  <2> SUFFICES ASSUME Init PROVE ContractInv /\ Contract!Init
    OBVIOUS
  <2>1. \A r \in Requests : req[r] = NoRequest  BY DEF Init
  <2>2. \A t \in Tunnels : tun[t] = NoRow  BY DEF Init
  <2>3. NoRequest.pc = "idle" /\ NoRequest.kind = "none" /\ NoRow.st = "none"
    BY DEF NoRequest, NoRow
  <2>4. OneWriter  BY <2>1, <2>3, NoneAssumption DEF Init, OneWriter, Critical
  <2>5. NamesInv
    BY <2>1, <2>2, <2>3, <2>4, TypeInit
       DEF NamesInv, FreshIds, NameHeld, At, UniqueLiveNames
  <2>6. Informed
    BY <2>1, <2>2, <2>3
       DEF Informed, RowsFilled, JobsKnown, JobFilled, OldKinds, AskedKnown, At
  <2>7. Showing = [t \in Tunnels |-> Contract!Hidden("absent")]
    BY <2>2, <2>3, ShownRows DEF AsShown
  <2>8. Job = NoJob  BY DEF Init, Job
  <2>9. Contract!Init  BY <2>7, <2>8, NoJobs DEF Contract!Init, Showing, Job
  <2> QED  BY <2>5, <2>6, <2>9 DEF ContractInv
<1>2. ContractInv /\ [Next]_vars => [Contract!Next]_(Contract!contract) /\ ContractInv'
  BY ContractSteps DEF ContractStep, Contract!contract, Showing, Job
<1> QED  BY <1>1, <1>2, PTL DEF Spec, KeepsContract, Contract!Spec
=============================================================================
