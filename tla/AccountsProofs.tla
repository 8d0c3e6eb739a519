--------------------------- MODULE AccountsProofs ---------------------------
(* What Accounts promises for every number of accounts and of requests.     *)
EXTENDS Accounts, TLAPS

Running == {"checked", "flush", "flushed"}

(* A request under way knows its user and, in oidc mode, holds his row.     *)
Owns(s, q) == /\ q.pc # "none" => q.who \in People
              /\ q.pc \in {"flush", "flushed"} => q.target \in People
              /\ mode = "oidc" /\ q.pc \in Running => rowlock[q.who] = s

AccountsInv ==
    /\ AccountsTypeOK
    /\ \A s \in Sessions : Owns(s, session[s])

(* The records of the module are of their types.                            *)
LEMMA EmptyRecords == NoUser \in Account /\ NoSession \in Pending /\ NoSession.pc = "none"
<1>1. NoUser \in Account
  BY DEF NoUser, Account, RolesOf
<1> QED
  BY <1>1 DEF NoSession, Pending

(* The initial state satisfies the invariant.                               *)
LEMMA AccountsInitInv == AccountsInit => AccountsInv
  BY EmptyRecords DEF AccountsInit, AccountsInv, AccountsTypeOK, Owns, Running

(* A step of one request that takes at most one row lock, and only for      *)
(* itself, keeps the invariant.                                             *)
LEMMA MoveInv ==
    ASSUME AccountsInv, NEW s \in Sessions, NEW q \in Pending, Moves(s, q), mode' = mode,
           users' = users, q.pc \in Running \cup {"stamp"},
           session[s].pc \in Running => q.pc \in Running,
           \/ rowlock' = rowlock
           \/ \E p \in People : /\ rowlock[p] \in {Nobody, s} /\ q.pc \in Running
                                /\ rowlock' = [rowlock EXCEPT ![p] = s],
           Owns(s, q)'
    PROVE  AccountsInv'
<1>1. \A t \in Sessions : IF t = s THEN session'[t] = q ELSE session'[t] = session[t]
  BY DEF Moves, AccountsInv, AccountsTypeOK
<1>2. session' \in [Sessions -> Pending]
  BY DEF Moves, AccountsInv, AccountsTypeOK
<1>3. rowlock' \in [People -> Sessions \cup {Nobody}]
  BY DEF AccountsInv, AccountsTypeOK
<1>4. \A p \in People : \/ rowlock'[p] = rowlock[p]
                        \/ rowlock[p] \in {Nobody, s} /\ rowlock'[p] = s /\ q.pc \in Running
  BY DEF AccountsInv, AccountsTypeOK
<1>5. ASSUME NEW p \in People, rowlock'[p] # Nobody PROVE session'[rowlock'[p]].pc \in Running
  <2>1. CASE rowlock'[p] = rowlock[p]
    <3>1. rowlock[p] \in Sessions /\ session[rowlock[p]].pc \in Running
      BY <2>1, <1>5 DEF AccountsInv, AccountsTypeOK, Running
    <3> QED
      BY <3>1, <2>1, <1>1
  <2>2. CASE rowlock'[p] = s /\ q.pc \in Running
    BY <2>2, <1>1
  <2> QED
    BY <2>1, <2>2, <1>4
<1>6. AccountsTypeOK'
  BY <1>2, <1>3, <1>5 DEF AccountsInv, AccountsTypeOK, Running
<1>7. ASSUME NEW t \in Sessions PROVE Owns(t, session[t])'
  <2>1. CASE t = s
    BY <2>1, <1>1
  <2>2. CASE t # s
    <3>1. session'[t] = session[t] /\ Owns(t, session[t]) /\ t # Nobody
      BY <2>2, <1>1, NobodyAssumption DEF AccountsInv
    <3> QED
      BY <3>1, <2>2, <1>4 DEF Owns, Running
  <2> QED
    BY <2>1, <2>2
<1> QED
  BY <1>6, <1>7 DEF AccountsInv

(* The end of a request keeps the invariant: it frees its own rows.         *)
LEMMA CloseInv ==
    ASSUME AccountsInv, NEW s \in Sessions, Close(s),
           users' = users \/ \E p \in People : users' = [users EXCEPT ![p].known = TRUE]
    PROVE  AccountsInv'
<1>1. \A t \in Sessions : IF t = s THEN session'[t] = NoSession ELSE session'[t] = session[t]
  BY DEF Close, Moves, AccountsInv, AccountsTypeOK
<1>2. session' \in [Sessions -> Pending]
  BY EmptyRecords DEF Close, Moves, AccountsInv, AccountsTypeOK
<1>3. rowlock' = [p \in People |-> IF rowlock[p] = s THEN Nobody ELSE rowlock[p]] /\ mode' = mode
  BY DEF Close
<1>4. rowlock' \in [People -> Sessions \cup {Nobody}]
  BY <1>3 DEF AccountsInv, AccountsTypeOK
<1>5. ASSUME NEW p \in People, rowlock'[p] # Nobody PROVE session'[rowlock'[p]].pc \in Running
  <2>1. rowlock'[p] = rowlock[p] /\ rowlock[p] # s
    BY <1>3, <1>5
  <2>2. rowlock[p] \in Sessions /\ session[rowlock[p]].pc \in Running
    BY <2>1, <1>5 DEF AccountsInv, AccountsTypeOK, Running
  <2> QED
    BY <2>1, <2>2, <1>1
<1>6. users' \in [People -> Account]
  <2>1. CASE users' = users
    BY <2>1 DEF AccountsInv, AccountsTypeOK
  <2>2. CASE \E p \in People : users' = [users EXCEPT ![p].known = TRUE]
    <3>1. PICK p \in People : users' = [users EXCEPT ![p].known = TRUE]
      BY <2>2
    <3>2. users'[p] \in Account
      BY <3>1 DEF AccountsInv, AccountsTypeOK, Account
    <3> QED
      BY <3>1, <3>2 DEF AccountsInv, AccountsTypeOK
  <2> QED
    BY <2>1, <2>2
<1>7. AccountsTypeOK'
  BY <1>2, <1>3, <1>4, <1>5, <1>6 DEF AccountsInv, AccountsTypeOK, Running
<1>8. ASSUME NEW t \in Sessions PROVE Owns(t, session[t])'
  <2>1. CASE t = s
    BY <2>1, <1>1, EmptyRecords DEF Owns, Running
  <2>2. CASE t # s
    <3>1. session'[t] = session[t] /\ Owns(t, session[t])
      BY <2>2, <1>1 DEF AccountsInv
    <3> QED
      BY <3>1, <2>2, <1>3 DEF Owns, Running
  <2> QED
    BY <2>1, <2>2
<1> QED
  BY <1>7, <1>8 DEF AccountsInv

(* Every step of a request keeps the invariant.                             *)
LEMMA RequestInv ==
    ASSUME AccountsInv, NEW s \in Sessions,
           \/ \E kind \in {"read", "work", "patch", "login"}, p \in People : Authenticate(s, kind, p)
           \/ Stamp(s) \/ Refused(s) \/ EndRead(s) \/ EndWork(s) \/ Flush(s) \/ EndPatch(s)
           \/ \E p \in People, new \in Account : ReadTarget(s, p, new)
           \/ Abort(s) \/ Gone(s)
    PROVE  AccountsInv'
<1>0. session[s] \in Pending /\ Owns(s, session[s])
  BY DEF AccountsInv, AccountsTypeOK
<1>1. CASE \E kind \in {"read", "work", "patch", "login"}, p \in People : Authenticate(s, kind, p)
  <2>1. PICK kind \in {"read", "work", "patch", "login"}, p \in People : Authenticate(s, kind, p)
    BY <1>1
  <2> DEFINE pc == IF mode = "oidc" THEN "stamp" ELSE "checked"
             me == [users[p] EXCEPT !.known = TRUE]
             z  == [NoSession EXCEPT !.kind = kind, !.who = p, !.me = me, !.pc = pc]
  <2>2. me \in Account
    BY DEF AccountsInv, AccountsTypeOK, Account
  <2>3. z \in Pending /\ z.pc = pc /\ z.who = p
    BY <2>2, EmptyRecords DEF Pending
  <2>4. Moves(s, z) /\ UNCHANGED <<mode, users, rowlock>> /\ session[s] = NoSession
    BY <2>1 DEF Authenticate
  <2>q. PICK q : q = z
    OBVIOUS
  <2> HIDE DEF z
  <2>5. Owns(s, q)'
    BY <2>q, <2>3, <2>4 DEF Owns, Running
  <2>6. session[s].pc \notin Running
    BY <2>q, <2>4, EmptyRecords DEF Running
  <2> QED
    BY <2>q, <2>3, <2>4, <2>5, <2>6, MoveInv DEF Running
<1>2. CASE Stamp(s)
  <2> DEFINE z == [session[s] EXCEPT !.pc = "checked"]
             p == session[s].who
  <2>1. z \in Pending /\ z.pc = "checked" /\ z.who = p
    BY <1>0 DEF Pending
  <2>2. p \in People /\ rowlock[p] = Nobody /\ rowlock' = [rowlock EXCEPT ![p] = s]
        /\ Moves(s, z) /\ mode' = mode /\ users' = users
    BY <1>0, <1>2 DEF Stamp, Owns
  <2>q. PICK q : q = z
    OBVIOUS
  <2> HIDE DEF z
  <2>3. rowlock'[p] = s
    BY <2>q, <2>2 DEF AccountsInv, AccountsTypeOK
  <2>4. Owns(s, q)'
    BY <2>q, <2>1, <2>2, <2>3 DEF Owns
  <2> QED
    BY <2>q, <2>1, <2>2, <2>4, MoveInv DEF Running
<1>3. CASE \E p \in People, new \in Account : ReadTarget(s, p, new)
  <2>1. PICK p \in People, new \in Account : ReadTarget(s, p, new)
    BY <1>3
  <2> DEFINE z == [session[s] EXCEPT !.pc = "flush", !.target = p, !.old = users[p], !.new = new]
  <2>2. users[p] \in Account
    BY DEF AccountsInv, AccountsTypeOK
  <2>3. z \in Pending /\ z.pc = "flush" /\ z.who = session[s].who /\ z.target = p
    BY <1>0, <2>2 DEF Pending
  <2>4. Moves(s, z) /\ UNCHANGED <<mode, users, rowlock>> /\ session[s].pc = "checked"
    BY <2>1 DEF ReadTarget
  <2>q. PICK q : q = z
    OBVIOUS
  <2> HIDE DEF z
  <2>5. Owns(s, q)'
    BY <2>q, <1>0, <2>3, <2>4 DEF Owns, Running
  <2> QED
    BY <2>q, <2>3, <2>4, <2>5, MoveInv DEF Running
<1>4. CASE Flush(s)
  <2> DEFINE z == [session[s] EXCEPT !.pc = "flushed"]
             p == session[s].target
  <2>1. z \in Pending /\ z.pc = "flushed" /\ z.who = session[s].who /\ z.target = p
    BY <1>0 DEF Pending
  <2>2. p \in People /\ rowlock[p] \in {Nobody, s} /\ rowlock' = [rowlock EXCEPT ![p] = s]
        /\ Moves(s, z) /\ mode' = mode /\ users' = users /\ session[s].pc = "flush"
    BY <1>0, <1>4 DEF Flush, Owns
  <2>q. PICK q : q = z
    OBVIOUS
  <2> HIDE DEF z
  <2>3. \A r \in People : rowlock[r] = s => rowlock'[r] = s
    BY <2>q, <2>2 DEF AccountsInv, AccountsTypeOK
  <2>4. Owns(s, q)'
    BY <2>q, <1>0, <2>1, <2>2, <2>3 DEF Owns, Running
  <2> QED
    BY <2>q, <2>1, <2>2, <2>4, MoveInv DEF Running
<1>5. CASE EndWork(s)
  <2>1. session[s].who \in People /\ Close(s) /\ users' = [users EXCEPT ![session[s].who].known = TRUE]
    BY <1>0, <1>5 DEF EndWork, Owns
  <2> QED
    BY <2>1, CloseInv
<1>6. CASE Refused(s) \/ EndRead(s) \/ EndPatch(s) \/ Abort(s) \/ Gone(s)
  BY <1>6, CloseInv DEF Refused, EndRead, EndPatch, Abort, Gone
<1> QED
  BY <1>1, <1>2, <1>3, <1>4, <1>5, <1>6

(* The invariant is inductive.                                              *)
LEMMA AccountsInvariant == AccountsSpec => []AccountsInv
<1>1. AccountsInv /\ [AccountsNext]_accountVars => AccountsInv'
  <2> SUFFICES ASSUME AccountsInv, [AccountsNext]_accountVars PROVE AccountsInv'
    OBVIOUS
  <2>1. CASE UNCHANGED accountVars
    BY <2>1 DEF accountVars, AccountsInv, AccountsTypeOK, Owns
  <2>2. CASE AccountsNext
    BY <2>2, RequestInv DEF AccountsNext
  <2> QED
    BY <2>1, <2>2
<1> QED
  BY <1>1, AccountsInitInv, PTL DEF AccountsSpec

(* Every variable keeps its type, and only a transaction that has begun     *)
(* holds a row (user_service.py, auth/dependencies.py).                     *)
THEOREM AccountsTyped == AccountsSpec => []AccountsTypeOK
  BY AccountsInvariant, PTL DEF AccountsInv

(* In oidc mode the requests of one user run one after the other, for any   *)
(* number of requests (_resolve_user_oidc).                                 *)
THEOREM RequestsOneByOne == AccountsSpec => []OneRequestPerUser
<1>1. AccountsInv => OneRequestPerUser
  BY DEF AccountsInv, Owns, Running, OneRequestPerUser
<1> QED
  BY <1>1, AccountsInvariant, PTL
=============================================================================
