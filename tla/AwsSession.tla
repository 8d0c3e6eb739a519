----------------------------- MODULE AwsSession -----------------------------
(***************************************************************************)
(* app/services/aws_session.py with a role to assume: one set of           *)
(* credentials and one client per service in module variables, which       *)
(* app/services/ssm.py and kms.py read and write in executor threads.      *)
(*                                                                         *)
(* Credentials are named by the time they expire, and so is what was taken *)
(* from them.                                                              *)
(***************************************************************************)
EXTENDS ProcessClock

CONSTANTS
    Services,   \* boto3 services used with the global role
    Threads     \* slots for code that asks for a client and uses it

VARIABLES
    creds,    \* _assumed_credentials, 0 before the first
    limit,    \* _assumed_credentials_expiry
    clients,  \* _cached_clients: what each was made with, 0 without
    mark,     \* _cached_clients_expiry
    thread    \* what each thread does

globals     == <<creds, limit, clients, mark>>
sessionVars == <<globals, thread>>

Idle == [pc |-> "none", svc |-> "none", start |-> 0, sess |-> 0, cur |-> 0, exp |-> 0]

SessionInit ==
    /\ now = 0
    /\ creds = 0
    /\ limit = 0
    /\ clients = [s \in Services |-> 0]
    /\ mark = 0
    /\ thread = [u \in Threads |-> Idle]

At(u, l) == thread[u].pc = l

(* The thread goes on with q.                                              *)
Go(u, q) == /\ thread' = [thread EXCEPT ![u] = q]
            /\ now' = now

(* Mutant of Valid: credentials are used to the last moment.               *)
ValidToTheEnd(exp) == now < exp

(* Cached credentials are good until shortly before they expire.           *)
Valid(exp) == now + Buffer < exp

(* The credentials never become none again, so that the two variables of   *)
(* the check count as one read.                                            *)
GetSession(u, s) ==
    LET cached == creds # 0 /\ Valid(limit)
    IN  /\ At(u, "none")
        /\ Go(u, [Idle EXCEPT !.pc = IF cached THEN "session" ELSE "sts", !.svc = s, !.start = now])
        /\ UNCHANGED globals

StsAnswers(u) ==
    /\ At(u, "sts")
    /\ Go(u, [thread[u] EXCEPT !.pc = "store", !.start = now, !.cur = now + Life])
    /\ UNCHANGED globals

StoreCreds(u) ==
    /\ At(u, "store")
    /\ creds' = thread[u].cur
    /\ Go(u, [thread[u] EXCEPT !.pc = "expiry"])
    /\ UNCHANGED <<limit, clients, mark>>

ReadExpiry(u) ==
    /\ At(u, "expiry")
    /\ Go(u, [thread[u] EXCEPT !.pc = "limit", !.cur = creds])
    /\ UNCHANGED globals

StoreLimit(u) ==
    /\ At(u, "limit")
    /\ limit' = thread[u].cur
    /\ Go(u, [thread[u] EXCEPT !.pc = "session"])
    /\ UNCHANGED <<creds, clients, mark>>

(* The three subscripts of the credentials count as one read.              *)
MakeSession(u) ==
    /\ At(u, "session")
    /\ Go(u, [thread[u] EXCEPT !.pc = "current", !.sess = creds])
    /\ UNCHANGED globals

ReadLimit(u) ==
    /\ At(u, "current")
    /\ Go(u, [thread[u] EXCEPT !.pc = "compare", !.cur = limit])
    /\ UNCHANGED globals

(* One marker for the clients of all services.                             *)
Compare(u) ==
    /\ At(u, "compare")
    /\ Go(u, [thread[u] EXCEPT !.pc = IF thread[u].cur # mark THEN "make" ELSE "lookup"])
    /\ UNCHANGED globals

Lookup(u) ==
    /\ At(u, "lookup")
    /\ Go(u, [thread[u] EXCEPT !.pc = IF clients[thread[u].svc] = 0 THEN "make" ELSE "return"])
    /\ UNCHANGED globals

MakeClient(u) ==
    /\ At(u, "make")
    /\ clients' = [clients EXCEPT ![thread[u].svc] = thread[u].sess]
    /\ Go(u, [thread[u] EXCEPT !.pc = "mark"])
    /\ UNCHANGED <<creds, limit, mark>>

StoreMark(u) ==
    /\ At(u, "mark")
    /\ mark' = thread[u].cur
    /\ Go(u, [thread[u] EXCEPT !.pc = "return"])
    /\ UNCHANGED <<creds, limit, clients>>

(* The client is read again, and may be another thread's.                  *)
Return(u) ==
    /\ At(u, "return")
    /\ Go(u, [Idle EXCEPT !.pc = "use", !.start = thread[u].start, !.exp = clients[thread[u].svc]])
    /\ UNCHANGED globals

(* STS fails, or the command has ended.                                    *)
FinishCall(u) ==
    /\ thread[u].pc \in {"sts", "use"}
    /\ Go(u, Idle)
    /\ UNCHANGED globals

ForgetSession ==
    /\ creds' = 0
    /\ limit' = 0
    /\ clients' = [s \in Services |-> 0]
    /\ mark' = 0
    /\ thread' = [u \in Threads |-> Idle]
    /\ now' = now

(* Mutant of CallDue: polling has no limit.                                *)
CallDueNever == FALSE

(* A client is fetched and its command polled within Poll ticks.           *)
CallDue == \E u \in Threads : thread[u].pc \notin {"none", "sts"} /\ now >= thread[u].start + Poll

SessionTick == Tick(CallDue) /\ UNCHANGED sessionVars

SessionNext ==
    \/ \E u \in Threads : \/ \E s \in Services : GetSession(u, s)
                          \/ StsAnswers(u) \/ StoreCreds(u) \/ ReadExpiry(u) \/ StoreLimit(u)
                          \/ MakeSession(u) \/ ReadLimit(u) \/ Compare(u) \/ Lookup(u)
                          \/ MakeClient(u) \/ StoreMark(u) \/ Return(u) \/ FinishCall(u)
    \/ ForgetSession
    \/ SessionTick

SessionSpec == SessionInit /\ [][SessionNext]_<<now, sessionVars>>

-----------------------------------------------------------------------------
(* Properties.                                                             *)

Steps == {"none", "sts", "store", "expiry", "limit", "session", "current", "compare", "lookup",
          "make", "mark", "return", "use"}
Calls == [pc : Steps, svc : Services \cup {"none"},
          start : Moments, sess : Moments, cur : Moments, exp : Moments]

(* Every variable keeps its type; what waits for nothing is never late.    *)
SessionTypeOK ==
    /\ now \in 0..MaxTime
    /\ creds \in Moments /\ limit \in Moments /\ mark \in Moments
    /\ clients \in [Services -> Moments]
    /\ thread \in [Threads -> Calls]
    /\ \A u \in Threads : thread[u].pc \notin {"none", "sts"} => now <= thread[u].start + Poll

(* The session get_client makes a client with outlives the command it is   *)
(* made for, although the credentials and their limit are two variables    *)
(* that several threads write and read in any order (aws_session.py:44-62).*)
SessionOutlives ==
    \A u \in Threads : thread[u].pc \in {"current", "compare", "lookup", "make"} => now < thread[u].sess

(* A client that get_client returned has credentials that still work:      *)
(* `re-creating it when assumed credentials refresh'.                      *)
ClientUsable == \A u \in Threads : At(u, "use") => now < thread[u].exp
=============================================================================
