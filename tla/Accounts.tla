------------------------------ MODULE Accounts ------------------------------
(***************************************************************************)
(* The users table as app/auth/dependencies.py, app/routers/auth.py and    *)
(* app/services/user_service.py read and write it.  Each request has its   *)
(* own transaction; in oidc mode its first write is the login stamp on the *)
(* row of its own user, whose row lock it then keeps to its end.           *)
(***************************************************************************)
EXTENDS FiniteSets

CONSTANTS
    People,    \* accounts, and persons the identity provider knows
    Sessions,  \* slots for requests
    Nobody

ASSUME NobodyAssumption == Nobody \notin People \cup Sessions

VARIABLES
    mode,     \* AUTH_MODE
    users,    \* the users table, as committed
    rowlock,  \* the transaction that has written, or inserted, a row
    session   \* the requests in flight

accountVars == <<mode, users, rowlock, session>>

RolesOf  == {"viewer", "admin"}   \* operator and viewer differ in nothing here
NoUser   == [known |-> FALSE, role |-> "viewer", active |-> TRUE]
Account  == [known : BOOLEAN, role : RolesOf, active : BOOLEAN]
NoChange == [role |-> "viewer", active |-> TRUE]
NoSession == [pc |-> "none", kind |-> "none", who |-> Nobody, me |-> NoUser,
              target |-> Nobody, old |-> NoUser, new |-> NoUser]

IsAdmin(u) == u.known /\ u.active /\ u.role = "admin"

AccountsInit ==
    /\ mode \in {"local", "oidc"}
    /\ users \in [People -> Account]
    /\ \A p \in People : ~users[p].known => users[p] = NoUser
    /\ \E p \in People : IsAdmin(users[p])
    /\ rowlock = [p \in People |-> Nobody]
    /\ session = [s \in Sessions |-> NoSession]

Moves(s, q) == session' = [session EXCEPT ![s] = q]

-----------------------------------------------------------------------------
(* get_current_user: the row is read once; the role of the token counts    *)
(* for nothing.  A person oidc does not know yet becomes a viewer.         *)
Authenticate(s, kind, p) ==
    /\ session[s] = NoSession
    /\ kind = "login" => mode = "local"
    /\ mode = "local" => users[p].known
    /\ Moves(s, [NoSession EXCEPT !.kind = kind, !.who = p, !.me = [users[p] EXCEPT !.known = TRUE],
                                  !.pc = IF mode = "oidc" THEN "stamp" ELSE "checked"])
    /\ UNCHANGED <<mode, users, rowlock>>

(* Mutant of Stamp: the stamp is committed at once.                        *)
StampCommitted(s) ==
    /\ session[s].pc = "stamp"
    /\ rowlock[session[s].who] = Nobody
    /\ users' = [users EXCEPT ![session[s].who].known = TRUE]
    /\ Moves(s, [session[s] EXCEPT !.pc = "checked"])
    /\ UNCHANGED <<mode, rowlock>>

(* The insert and the update of last_login_at wait for the transaction     *)
(* that has inserted or written this row.                                  *)
Stamp(s) ==
    /\ session[s].pc = "stamp"
    /\ rowlock[session[s].who] = Nobody
    /\ rowlock' = [rowlock EXCEPT ![session[s].who] = s]
    /\ Moves(s, [session[s] EXCEPT !.pc = "checked"])
    /\ UNCHANGED <<mode, users>>

(* Mutant of Close: the session goes back to the pool as it is.            *)
CloseUnfinished(s) == Moves(s, NoSession) /\ UNCHANGED <<mode, rowlock>>

(* The end of the transaction frees its row locks.                         *)
Close(s) == /\ rowlock' = [p \in People |-> IF rowlock[p] = s THEN Nobody ELSE rowlock[p]]
            /\ Moves(s, NoSession)
            /\ UNCHANGED mode

Refused(s) == /\ session[s].pc = "checked"
              /\ ~session[s].me.active
              /\ Close(s) /\ UNCHANGED users

(* A request that reads: its session closes without a commit.              *)
EndRead(s) == /\ session[s].pc = "checked" /\ session[s].kind = "read"
              /\ session[s].me.active
              /\ Close(s) /\ UNCHANGED users

(* A request that writes elsewhere, and the login: their commit keeps the  *)
(* stamp, and the user that was inserted with it.  The login writes its    *)
(* stamp only here and may have to wait for the row.                       *)
EndWork(s) ==
    LET me == session[s].who
    IN  /\ session[s].pc = "checked" /\ session[s].kind \in {"work", "login"}
        /\ session[s].me.active
        /\ session[s].kind = "login" => rowlock[me] \in {Nobody, s}
        /\ users' = [users EXCEPT ![me].known = TRUE]
        /\ Close(s)

(* update_user: the target is read, and an administrator may not demote    *)
(* nor deactivate himself.                                                 *)
ReadTarget(s, p, new) ==
    LET q == session[s]
    IN  /\ q.pc = "checked" /\ q.kind = "patch"
        /\ IsAdmin(q.me)
        /\ users[p].known
        /\ new.known /\ new # users[p]
        /\ p = q.who => IsAdmin(new)
        /\ Moves(s, [q EXCEPT !.pc = "flush", !.target = p, !.old = users[p], !.new = new])
        /\ UNCHANGED <<mode, users, rowlock>>

Flush(s) ==
    /\ session[s].pc = "flush"
    /\ rowlock[session[s].target] \in {Nobody, s}
    /\ rowlock' = [rowlock EXCEPT ![session[s].target] = s]
    /\ Moves(s, [session[s] EXCEPT !.pc = "flushed"])
    /\ UNCHANGED <<mode, users>>

(* The change is answered; nobody commits it, and get_db rolls it back.    *)
EndPatch(s) == /\ session[s].pc = "flushed"
               /\ Close(s) /\ UNCHANGED users

(* Two requests wait for each other: PostgreSQL aborts one of them.        *)
WaitsFor(s) == IF session[s].pc = "flush" THEN rowlock[session[s].target]
               ELSE IF session[s].pc = "stamp" THEN rowlock[session[s].who]
               ELSE Nobody

Deadlocked(s) == \E t \in Sessions \ {s} : WaitsFor(s) = t /\ WaitsFor(t) = s

Abort(s) == Deadlocked(s) /\ Close(s) /\ UNCHANGED users

(* The session is gone: its process died, or its transaction with the      *)
(* connection, and the next query of its request fails.                    *)
Gone(s) == session[s] # NoSession /\ Close(s) /\ UNCHANGED users

AccountsNext ==
    \E s \in Sessions :
        \/ \E kind \in {"read", "work", "patch", "login"}, p \in People : Authenticate(s, kind, p)
        \/ Stamp(s) \/ Refused(s) \/ EndRead(s) \/ EndWork(s) \/ Flush(s) \/ EndPatch(s)
        \/ \E p \in People, new \in Account : ReadTarget(s, p, new)
        \/ Abort(s) \/ Gone(s)

AccountsSpec == AccountsInit /\ [][AccountsNext]_accountVars

-----------------------------------------------------------------------------
(* Properties.                                                             *)

Pending == [pc : {"none", "stamp", "checked", "flush", "flushed"},
            kind : {"none", "read", "work", "patch", "login"},
            who : People \cup {Nobody}, me : Account,
            target : People \cup {Nobody}, old : Account, new : Account]

(* Every variable keeps its type, and who holds a row lock has a           *)
(* transaction that wrote.                                                 *)
AccountsTypeOK ==
    /\ mode \in {"local", "oidc"}
    /\ users \in [People -> Account]
    /\ rowlock \in [People -> Sessions \cup {Nobody}]
    /\ session \in [Sessions -> Pending]
    /\ \A p \in People : rowlock[p] # Nobody => session[rowlock[p]].pc \in {"checked", "flush", "flushed"}

(* In oidc mode the sessions of one user run one after the other: the      *)
(* stamp of the first keeps the row from the others until its transaction  *)
(* ends, however long its work takes (_resolve_user_oidc).                 *)
OneRequestPerUser ==
    mode = "oidc" =>
        \A s, t \in Sessions : /\ session[s].pc \in {"checked", "flush", "flushed"}
                               /\ session[t].pc \in {"checked", "flush", "flushed"}
                               /\ session[s].who = session[t].who
                               => s = t
=============================================================================
