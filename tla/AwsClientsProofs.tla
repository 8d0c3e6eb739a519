-------------------------- MODULE AwsClientsProofs --------------------------
(* What AwsSession and AwsClients promise for every number of threads,      *)
(* requests, services, servers, roles and regions, and for every lifetime   *)
(* of the credentials.                                                      *)
EXTENDS AwsSession, AwsClients, TLAPS

(* Every moment the code computes stays below the bound of moments.         *)
LEMMA MomentsReach == ASSUME NEW t \in 0..MaxTime
                      PROVE  /\ 0 \in Moments /\ t \in Moments /\ t + Life \in Moments
                             /\ t + (Life - Buffer) \in Moments
                             /\ Forever \in Moments /\ t + Life <= Forever
  BY MaxTimeAssumption, LifeAssumption DEF Moments, Forever

-----------------------------------------------------------------------------
(* The session with the global role.                                        *)

(* The credentials a thread has fetched, the limit it is going to write and *)
(* the session it goes on with; a thread that has found a limit good may    *)
(* still see credentials up to Poll older than the ones it was taken from.  *)
Paid(q) ==
    /\ q.pc \notin {"none", "use"} => q.svc \in Services
    /\ q.start <= now
    /\ q.pc = "store" => q.cur = q.start + Life
    /\ q.pc = "limit" => q.cur <= creds + Poll /\ q.cur <= now + Life
    /\ q.pc \in {"expiry", "limit", "session"} => q.start + Buffer < creds + Poll
    /\ q.pc \in {"current", "compare", "lookup", "make"} => q.start + Poll < q.sess

(* The limit is at most Poll ahead of the credentials.                      *)
Near == creds <= now + Life /\ limit <= now + Life /\ limit <= creds + Poll

SessionInv == SessionTypeOK /\ Near /\ \A u \in Threads : Paid(thread[u])

(* An idle thread is of its type and holds nothing.                         *)
LEMMA IdleHolds == /\ Idle \in Calls /\ Idle.pc = "none" /\ Idle.start = 0
                   /\ 0 \in 0..MaxTime /\ 0 \in Moments
<1>1. 0 \in 0..MaxTime /\ 0 \in Moments
  BY MaxTimeAssumption, LifeAssumption DEF Moments, Forever
<1> QED
  BY <1>1 DEF Idle, Calls, Steps

(* The initial state satisfies the invariant.                               *)
LEMMA SessionInitInv == SessionInit => SessionInv
<1> SUFFICES ASSUME SessionInit PROVE SessionInv
  OBVIOUS
<1>1. thread = [u \in Threads |-> Idle]
  BY DEF SessionInit
<1>2. SessionTypeOK
  BY <1>1, IdleHolds DEF SessionInit, SessionTypeOK
<1>3. Near
  BY LifeAssumption DEF SessionInit, Near
<1> QED
  BY <1>1, <1>2, <1>3, IdleHolds DEF SessionInit, SessionInv, Paid

(* What is at most a new lifetime away is at most Poll ahead of credentials *)
(* that have one nearly as long.                                            *)
LEMMA AtMost == ASSUME NEW t \in Nat, NEW c \in Nat, NEW n \in Nat, t <= n + Life, n + Life <= c + Poll
                PROVE  t <= c + Poll
  BY LifeAssumption

(* Who began before a new lifetime did is well within it.                   *)
LEMMA Younger == ASSUME NEW t \in Nat, NEW c \in Nat, NEW n \in Nat, t <= n, n + Life <= c + Poll
                 PROVE  t + Buffer < c + Poll
  BY LifeAssumption

(* A step of one thread keeps the invariant when what it holds then is      *)
(* good, and credentials it stores are at most Poll old.                    *)
LEMMA ThreadInv ==
    ASSUME SessionInv, NEW u \in Threads, NEW q \in Calls, Go(u, q), Paid(q)', Near',
           creds' \in Moments, limit' \in Moments, mark' \in Moments,
           clients' \in [Services -> Moments],
           creds' = creds \/ now + Life <= creds' + Poll,
           q.pc \notin {"none", "sts"} => now <= q.start + Poll
    PROVE  SessionInv'
<1>0. now' = now /\ now \in 0..MaxTime /\ creds \in Moments /\ \A w \in Threads : thread[w] \in Calls
  BY DEF Go, SessionInv, SessionTypeOK
<1>1. thread' = [thread EXCEPT ![u] = q]
  BY DEF Go
<1>2. \A w \in Threads : IF w = u THEN thread'[w] = q ELSE thread'[w] = thread[w]
  BY <1>1 DEF SessionInv, SessionTypeOK
<1>3. thread' \in [Threads -> Calls]
  BY <1>1 DEF SessionInv, SessionTypeOK
<1>4. SessionTypeOK'
  BY <1>0, <1>2, <1>3 DEF SessionInv, SessionTypeOK
<1>5. ASSUME NEW w \in Threads PROVE Paid(thread[w])'
  <2>1. CASE w = u
    BY <2>1, <1>2
  <2>2. CASE w # u
    <3>1. thread'[w] = thread[w] /\ Paid(thread[w]) /\ thread[w] \in Calls
      BY <2>2, <1>0, <1>2 DEF SessionInv
    <3>2. /\ now \in Nat /\ creds \in Nat /\ creds' \in Nat
          /\ thread[w].start \in Nat /\ thread[w].cur \in Nat
      BY <3>1, <1>0, MaxTimeAssumption DEF Calls, Moments
    <3>3. CASE creds' = creds
      BY <3>1, <3>3, <1>0 DEF Paid
    <3>4. CASE now + Life <= creds' + Poll
      <4> DEFINE q0 == thread[w]
      <4>1. PICK r \in Calls : r = q0 /\ thread'[w] = r
        BY <3>1
      <4>2. Paid(r) /\ r.start \in Nat /\ r.cur \in Nat
        BY <3>1, <3>2, <4>1
      <4> HIDE DEF q0
      <4>3. r.pc = "limit" => r.cur <= creds' + Poll
        <5>1. r.pc = "limit" => r.cur <= now + Life
          BY <4>2 DEF Paid
        <5> QED
          BY <5>1, <4>2, <3>2, <3>4, AtMost
      <4>4. r.start <= now
        BY <4>2 DEF Paid
      <4>5. r.start + Buffer < creds' + Poll
        BY <4>2, <4>4, <3>2, <3>4, Younger
      <4> QED
        BY <4>1, <4>2, <4>3, <4>5, <1>0 DEF Paid
    <3> QED
      BY <3>3, <3>4
  <2> QED
    BY <2>1, <2>2
<1> QED
  BY <1>4, <1>5 DEF SessionInv

(* What a thread that has not finished knows of its own state.              *)
LEMMA ThreadFacts ==
    ASSUME SessionInv, NEW u \in Threads
    PROVE  /\ thread[u] \in Calls /\ Paid(thread[u]) /\ now \in 0..MaxTime /\ now \in Nat /\ now \in Moments
           /\ creds \in Moments /\ limit \in Moments /\ mark \in Moments
           /\ clients \in [Services -> Moments]
           /\ creds \in Nat /\ limit \in Nat /\ Near
           /\ thread[u].start \in Nat /\ thread[u].cur \in Nat /\ thread[u].sess \in Nat
           /\ thread[u].pc \notin {"none", "sts"} => now <= thread[u].start + Poll
<1>1. thread[u] \in Calls /\ Paid(thread[u]) /\ now \in 0..MaxTime /\ Near
  BY DEF SessionInv, SessionTypeOK
<1> QED
  BY <1>1, MomentsReach, MaxTimeAssumption DEF SessionInv, SessionTypeOK, Calls, Moments

(* The steps of _get_assumed_role_session, and an end.                      *)
LEMMA CredentialsInv ==
    ASSUME SessionInv, NEW u \in Threads,
           \/ \E s \in Services : GetSession(u, s)
           \/ StsAnswers(u) \/ StoreCreds(u) \/ ReadExpiry(u) \/ StoreLimit(u) \/ MakeSession(u)
           \/ FinishCall(u)
    PROVE  SessionInv'
<1>0. /\ thread[u] \in Calls /\ Paid(thread[u]) /\ now \in 0..MaxTime /\ now \in Nat /\ now \in Moments
      /\ creds \in Moments /\ limit \in Moments /\ mark \in Moments
      /\ clients \in [Services -> Moments]
      /\ creds \in Nat /\ limit \in Nat /\ Near
      /\ thread[u].start \in Nat /\ thread[u].cur \in Nat /\ thread[u].sess \in Nat
      /\ thread[u].pc \notin {"none", "sts"} => now <= thread[u].start + Poll
  BY ThreadFacts
<1>1. CASE \E s \in Services : GetSession(u, s)
  <2>1. PICK s \in Services : GetSession(u, s)
    BY <1>1
  <2>2. PICK l \in {"session", "sts"} :
           /\ Go(u, [Idle EXCEPT !.pc = l, !.svc = s, !.start = now]) /\ UNCHANGED globals
           /\ l = "session" => Valid(limit)
    BY <2>1 DEF GetSession
  <2> DEFINE z == [Idle EXCEPT !.pc = l, !.svc = s, !.start = now]
  <2>3. z \in Calls /\ z.pc = l /\ z.svc = s /\ z.start = now
    BY <1>0, IdleHolds DEF Calls, Steps
  <2>4. PICK q \in Calls : q = z
    BY <2>3
  <2>5. Go(u, q) /\ UNCHANGED <<creds, limit, clients, mark>> /\ now' = now
    BY <2>2, <2>4 DEF globals, Go
  <2>6. q.pc = l /\ q.svc = s /\ q.start = now
    BY <2>3, <2>4
  <2> HIDE DEF z
  <2>7. l = "session" => now + Buffer < creds + Poll
    BY <1>0, <2>2, LifeAssumption DEF Valid, Near
  <2>8. Paid(q)' /\ Near'
    BY <1>0, <2>5, <2>6, <2>7 DEF Paid, Near
  <2> QED
    BY <1>0, <2>5, <2>6, <2>8, LifeAssumption, ThreadInv
<1>2. CASE StsAnswers(u)
  <2> DEFINE z == [thread[u] EXCEPT !.pc = "store", !.start = now, !.cur = now + Life]
  <2>1. z \in Calls /\ z.pc = "store" /\ z.svc = thread[u].svc /\ z.start = now /\ z.cur = now + Life
    BY <1>0, MomentsReach DEF Calls, Steps
  <2>2. PICK q \in Calls : q = z
    BY <2>1
  <2>3. Go(u, q) /\ UNCHANGED <<creds, limit, clients, mark>> /\ now' = now
    BY <1>2, <2>2 DEF StsAnswers, globals, Go
  <2>4. q.pc = "store" /\ q.svc \in Services /\ q.start = now /\ q.cur = now + Life
    BY <1>0, <1>2, <2>1, <2>2 DEF StsAnswers, At, Paid
  <2> HIDE DEF z
  <2>5. Paid(q)' /\ Near'
    BY <1>0, <2>3, <2>4 DEF Paid, Near
  <2> QED
    BY <1>0, <2>3, <2>4, <2>5, LifeAssumption, ThreadInv
<1>3. CASE StoreCreds(u)
  <2> DEFINE z == [thread[u] EXCEPT !.pc = "expiry"]
  <2>1. z \in Calls /\ z.pc = "expiry" /\ z.svc = thread[u].svc /\ z.start = thread[u].start
    BY <1>0 DEF Calls, Steps
  <2>2. PICK q \in Calls : q = z
    BY <2>1
  <2>3. Go(u, q) /\ creds' = thread[u].cur /\ UNCHANGED <<limit, clients, mark>> /\ now' = now
    BY <1>3, <2>2 DEF StoreCreds, Go
  <2>4. /\ thread[u].pc = "store" /\ thread[u].svc \in Services /\ thread[u].start <= now
        /\ thread[u].cur = thread[u].start + Life
    BY <1>0, <1>3 DEF StoreCreds, At, Paid
  <2>5. creds' \in Moments /\ creds' = thread[u].start + Life /\ now <= thread[u].start + Poll
    BY <1>0, <2>3, <2>4 DEF Calls
  <2>6. q.pc = "expiry" /\ q.svc \in Services /\ q.start = thread[u].start
    BY <2>1, <2>2, <2>4
  <2> HIDE DEF z
  <2>7. now + Life <= creds' + Poll
    BY <1>0, <2>5, LifeAssumption
  <2>8. Near'
    BY <1>0, <2>3, <2>4, <2>5, <2>7, LifeAssumption DEF Near
  <2>9. Paid(q)'
    BY <1>0, <2>3, <2>4, <2>5, <2>6, LifeAssumption DEF Paid
  <2> QED
    BY <1>0, <2>3, <2>5, <2>6, <2>7, <2>8, <2>9, ThreadInv
<1>4. CASE ReadExpiry(u)
  <2> DEFINE z == [thread[u] EXCEPT !.pc = "limit", !.cur = creds]
  <2>1. z \in Calls /\ z.pc = "limit" /\ z.svc = thread[u].svc /\ z.start = thread[u].start /\ z.cur = creds
    BY <1>0 DEF Calls, Steps
  <2>2. PICK q \in Calls : q = z
    BY <2>1
  <2>3. Go(u, q) /\ UNCHANGED <<creds, limit, clients, mark>> /\ now' = now
    BY <1>4, <2>2 DEF ReadExpiry, globals, Go
  <2>4. /\ thread[u].pc = "expiry" /\ q.pc = "limit" /\ q.svc \in Services /\ q.cur = creds
        /\ q.start = thread[u].start /\ q.start <= now /\ q.start + Buffer < creds + Poll
    BY <1>0, <1>4, <2>1, <2>2 DEF ReadExpiry, At, Paid
  <2> HIDE DEF z
  <2>5. Paid(q)' /\ Near'
    BY <1>0, <2>3, <2>4, LifeAssumption DEF Paid, Near
  <2> QED
    BY <1>0, <2>3, <2>4, <2>5, ThreadInv
<1>5. CASE StoreLimit(u)
  <2> DEFINE z == [thread[u] EXCEPT !.pc = "session"]
  <2>1. z \in Calls /\ z.pc = "session" /\ z.svc = thread[u].svc /\ z.start = thread[u].start
    BY <1>0 DEF Calls, Steps
  <2>2. PICK q \in Calls : q = z
    BY <2>1
  <2>3. Go(u, q) /\ limit' = thread[u].cur /\ UNCHANGED <<creds, clients, mark>> /\ now' = now
    BY <1>5, <2>2 DEF StoreLimit, Go
  <2>4. /\ thread[u].pc = "limit" /\ q.pc = "session" /\ q.svc \in Services
        /\ q.start = thread[u].start /\ q.start <= now /\ q.start + Buffer < creds + Poll
        /\ limit' <= creds + Poll /\ limit' <= now + Life
    BY <1>0, <1>5, <2>1, <2>2, <2>3 DEF StoreLimit, At, Paid
  <2>5. limit' \in Moments
    BY <1>0, <2>3 DEF Calls
  <2> HIDE DEF z
  <2>6. Paid(q)' /\ Near'
    BY <1>0, <2>3, <2>4 DEF Paid, Near
  <2> QED
    BY <1>0, <2>3, <2>4, <2>5, <2>6, ThreadInv
<1>6. CASE MakeSession(u)
  <2> DEFINE z == [thread[u] EXCEPT !.pc = "current", !.sess = creds]
  <2>1. z \in Calls /\ z.pc = "current" /\ z.svc = thread[u].svc /\ z.start = thread[u].start /\ z.sess = creds
    BY <1>0 DEF Calls, Steps
  <2>2. PICK q \in Calls : q = z
    BY <2>1
  <2>3. Go(u, q) /\ UNCHANGED <<creds, limit, clients, mark>> /\ now' = now
    BY <1>6, <2>2 DEF MakeSession, globals, Go
  <2>4. /\ thread[u].pc = "session" /\ q.pc = "current" /\ q.svc \in Services /\ q.sess = creds
        /\ q.start = thread[u].start /\ q.start <= now /\ q.start + Buffer < creds + Poll
    BY <1>0, <1>6, <2>1, <2>2 DEF MakeSession, At, Paid
  <2> HIDE DEF z
  <2>5. q.start + Poll < q.sess
    BY <1>0, <2>4, LifeAssumption
  <2>6. Paid(q)' /\ Near'
    BY <1>0, <2>3, <2>4, <2>5 DEF Paid, Near
  <2> QED
    BY <1>0, <2>3, <2>4, <2>6, ThreadInv
<1>7. CASE FinishCall(u)
  <2>1. PICK q \in Calls : q = Idle
    BY IdleHolds
  <2>2. Go(u, q) /\ UNCHANGED <<creds, limit, clients, mark>> /\ now' = now
    BY <1>7, <2>1 DEF FinishCall, globals, Go
  <2>3. q.pc = "none" /\ q.start = 0
    BY <2>1, IdleHolds
  <2>4. Paid(q)' /\ Near'
    BY <1>0, <2>2, <2>3 DEF Paid, Near
  <2> QED
    BY <1>0, <2>2, <2>3, <2>4, ThreadInv
<1> QED
  BY <1>1, <1>2, <1>3, <1>4, <1>5, <1>6, <1>7

(* The rest of get_client.                                                  *)
LEMMA GetClientInv ==
    ASSUME SessionInv, NEW u \in Threads,
           ReadLimit(u) \/ Compare(u) \/ Lookup(u) \/ MakeClient(u) \/ StoreMark(u) \/ Return(u)
    PROVE  SessionInv'
<1>0. /\ thread[u] \in Calls /\ Paid(thread[u]) /\ now \in 0..MaxTime /\ now \in Nat /\ now \in Moments
      /\ creds \in Moments /\ limit \in Moments /\ mark \in Moments
      /\ clients \in [Services -> Moments]
      /\ creds \in Nat /\ limit \in Nat /\ Near
      /\ thread[u].start \in Nat /\ thread[u].cur \in Nat /\ thread[u].sess \in Nat
      /\ thread[u].pc \notin {"none", "sts"} => now <= thread[u].start + Poll
  BY ThreadFacts
<1>1. /\ thread[u].pc \in {"current", "compare", "lookup", "make", "mark", "return"}
      /\ thread[u].svc \in Services /\ thread[u].start <= now
  BY <1>0 DEF ReadLimit, Compare, Lookup, MakeClient, StoreMark, Return, At, Paid
<1>2. UNCHANGED <<now, creds, limit>> /\ mark' \in Moments /\ clients' \in [Services -> Moments]
  <2>1. UNCHANGED <<now, creds, limit>>
    BY DEF ReadLimit, Compare, Lookup, MakeClient, StoreMark, Return, globals, Go
  <2>2. thread[u].cur \in Moments /\ thread[u].sess \in Moments
    BY <1>0 DEF Calls
  <2>3. mark' \in Moments
    BY <1>0, <2>2 DEF ReadLimit, Compare, Lookup, MakeClient, StoreMark, Return, globals
  <2>4. clients' \in [Services -> Moments]
    BY <1>0, <2>2 DEF ReadLimit, Compare, Lookup, MakeClient, StoreMark, Return, globals
  <2> QED
    BY <2>1, <2>3, <2>4
<1>3. PICK q \in Calls :
        /\ Go(u, q) /\ q.start = thread[u].start /\ q.sess \in {thread[u].sess, 0}
        /\ q.pc \in {"compare", "lookup", "make", "mark", "return", "use"}
        /\ q.pc # "use" => q.svc = thread[u].svc
        /\ q.pc \in {"compare", "lookup", "make"} =>
              q.sess = thread[u].sess /\ thread[u].pc \in {"current", "compare", "lookup"}
  <2>1. CASE ReadLimit(u)
    <3> DEFINE z == [thread[u] EXCEPT !.pc = "compare", !.cur = limit]
    <3>1. /\ z \in Calls /\ z.pc = "compare" /\ z.svc = thread[u].svc
          /\ z.start = thread[u].start /\ z.sess = thread[u].sess
      BY <1>0 DEF Calls, Steps
    <3>2. Go(u, z) /\ thread[u].pc = "current"
      BY <2>1 DEF ReadLimit, At
    <3> HIDE DEF z
    <3> QED
      BY <3>1, <3>2
  <2>2. CASE Compare(u) \/ Lookup(u) \/ MakeClient(u) \/ StoreMark(u)
    <3>1. PICK l \in {"lookup", "make", "mark", "return"} :
            /\ Go(u, [thread[u] EXCEPT !.pc = l])
            /\ l \in {"lookup", "make"} => thread[u].pc \in {"compare", "lookup"}
      BY <2>2 DEF Compare, Lookup, MakeClient, StoreMark, At
    <3> DEFINE z == [thread[u] EXCEPT !.pc = l]
    <3>2. /\ z \in Calls /\ z.pc = l /\ z.svc = thread[u].svc
          /\ z.start = thread[u].start /\ z.sess = thread[u].sess
      BY <1>0 DEF Calls, Steps
    <3>3. Go(u, z)
      BY <3>1
    <3> HIDE DEF z
    <3> QED
      BY <3>1, <3>2, <3>3
  <2>3. CASE Return(u)
    <3> DEFINE z == [Idle EXCEPT !.pc = "use", !.start = thread[u].start, !.exp = clients[thread[u].svc]]
    <3>1. thread[u].start \in Moments /\ clients[thread[u].svc] \in Moments /\ Idle.sess = 0
      BY <1>0, <1>1 DEF Calls, Idle
    <3>2. z \in Calls /\ z.pc = "use" /\ z.start = thread[u].start /\ z.sess = 0
      BY <3>1, IdleHolds DEF Calls, Steps
    <3>3. Go(u, z)
      BY <2>3 DEF Return
    <3> HIDE DEF z
    <3> QED
      BY <3>2, <3>3
  <2> QED
    BY <2>1, <2>2, <2>3
<1>4. Paid(q)' /\ Near'
  BY <1>0, <1>1, <1>2, <1>3 DEF Paid, Near
<1> QED
  BY <1>0, <1>1, <1>2, <1>3, <1>4, ThreadInv

(* A restart and the clock keep the invariant.                              *)
LEMMA SessionWorldInv ==
    ASSUME SessionInv, ForgetSession \/ SessionTick
    PROVE  SessionInv'
<1>1. CASE ForgetSession
  <2>1. /\ \A u \in Threads : thread'[u] = Idle
        /\ thread' \in [Threads -> Calls]
        /\ creds' = 0 /\ limit' = 0 /\ mark' = 0 /\ clients' = [s \in Services |-> 0] /\ now' = now
    BY <1>1, IdleHolds DEF ForgetSession
  <2>2. now \in 0..MaxTime /\ now \in Nat
    BY MaxTimeAssumption DEF SessionInv, SessionTypeOK
  <2>3. SessionTypeOK'
    BY <2>1, <2>2, IdleHolds DEF SessionTypeOK
  <2>4. Near'
    BY <2>1, <2>2, LifeAssumption DEF Near
  <2>5. \A u \in Threads : Paid(thread[u])'
    BY <2>1, <2>2, IdleHolds DEF Paid
  <2> QED
    BY <2>3, <2>4, <2>5 DEF SessionInv
<1>2. CASE SessionTick
  <2>1. now < MaxTime /\ ~CallDue /\ now' = now + 1 /\ UNCHANGED <<creds, limit, clients, mark, thread>>
    BY <1>2 DEF SessionTick, Tick, sessionVars, globals
  <2>2. now \in 0..MaxTime /\ now' \in 0..MaxTime /\ now \in Nat
    BY <2>1, MaxTimeAssumption DEF SessionInv, SessionTypeOK
  <2>3. ASSUME NEW u \in Threads
        PROVE  /\ thread[u].start \in Nat /\ thread[u].cur \in Nat /\ Paid(thread[u])
               /\ creds \in Nat /\ limit \in Nat
    BY ThreadFacts
  <2>4. ASSUME NEW u \in Threads, thread'[u].pc \notin {"none", "sts"} PROVE now' <= thread'[u].start + Poll
    BY <2>1, <2>2, <2>3, <2>4, LifeAssumption DEF CallDue
  <2>5. SessionTypeOK'
    BY <2>1, <2>2, <2>4 DEF SessionInv, SessionTypeOK
  <2>6. creds \in Nat /\ limit \in Nat /\ Near
    BY DEF SessionInv, SessionTypeOK, Moments
  <2>7. Near'
    BY <2>1, <2>2, <2>6, LifeAssumption DEF Near
  <2>8. \A u \in Threads : Paid(thread[u])'
    BY <2>1, <2>2, <2>3, LifeAssumption DEF Paid
  <2> QED
    BY <2>5, <2>7, <2>8 DEF SessionInv
<1> QED
  BY <1>1, <1>2

(* The invariant is inductive.                                              *)
LEMMA SessionInvariant == SessionSpec => []SessionInv
<1>1. SessionInv /\ [SessionNext]_<<now, sessionVars>> => SessionInv'
  <2> SUFFICES ASSUME SessionInv, [SessionNext]_<<now, sessionVars>> PROVE SessionInv'
    OBVIOUS
  <2>1. CASE UNCHANGED <<now, sessionVars>>
    BY <2>1 DEF sessionVars, globals, SessionInv, SessionTypeOK, Near, Paid
  <2>2. CASE SessionNext
    BY <2>2, CredentialsInv, GetClientInv, SessionWorldInv DEF SessionNext
  <2> QED
    BY <2>1, <2>2
<1> QED
  BY <1>1, SessionInitInv, PTL DEF SessionSpec

(* Every variable keeps its type, and the clock never passes the end of a   *)
(* call of a thread (get_client).                                           *)
THEOREM SessionTyped == SessionSpec => []SessionTypeOK
  BY SessionInvariant, PTL DEF SessionInv

(* The session get_client makes a client with outlives the command, for any *)
(* number of threads that write and read the credentials and their limit    *)
(* in any order, because twice the time of a command fits into the buffer   *)
(* (_get_assumed_role_session).                                             *)
THEOREM SessionsOutlive == SessionSpec => []SessionOutlives
<1>1. SessionInv => SessionOutlives
  <2> SUFFICES ASSUME SessionInv, NEW u \in Threads,
                      thread[u].pc \in {"current", "compare", "lookup", "make"}
               PROVE  now < thread[u].sess
    BY DEF SessionOutlives
  <2>1. /\ now <= thread[u].start + Poll /\ thread[u].start + Poll < thread[u].sess
        /\ now \in Nat /\ thread[u].start \in Nat /\ thread[u].sess \in Nat
    BY ThreadFacts DEF Paid
  <2> QED
    BY <2>1, LifeAssumption
<1> QED
  BY <1>1, SessionInvariant, PTL

-----------------------------------------------------------------------------
(* The clients of the servers.                                              *)

(* A request holds a role and a region, and a command of it runs with a     *)
(* client of them that outlives its polls.                                  *)
Covered(q) ==
    /\ q.pc # "none" => q.want \in Scopes
    /\ q.pc = "poll" => q.made = q.want /\ q.start + Poll < q.exp

(* An entry of the cache is good for longer than it is handed out.          *)
Kept(k) == 0 < cache[k].until => cache[k].made = k /\ cache[k].until + Buffer <= cache[k].exp

ClientsInv == ClientsTypeOK /\ (\A u \in Callers : Covered(caller[u])) /\ \A k \in Scopes : Kept(k)

(* A caller without a server, and an entry never filled, promise nothing.   *)
LEMMA NothingHeld == /\ Nothing \in Pledges /\ Nothing.pc = "none" /\ Covered(Nothing)
                     /\ NoEntry \in Entries /\ NoEntry.until = 0
<1>1. 0 \in Moments
  BY MomentsReach, MaxTimeAssumption
<1> QED
  BY <1>1 DEF Nothing, NoEntry, Pledges, Entries, Covered

(* The initial state satisfies the invariant.                               *)
LEMMA ClientsInitInv == ClientsInit => ClientsInv
<1> SUFFICES ASSUME ClientsInit PROVE ClientsInv
  OBVIOUS
<1>1. caller = [u \in Callers |-> Nothing] /\ cache = [k \in Scopes |-> NoEntry]
  BY DEF ClientsInit
<1>2. now \in 0..MaxTime /\ params \in [Servers -> Scopes]
  BY MaxTimeAssumption DEF ClientsInit
<1>3. ClientsTypeOK
  BY <1>1, <1>2, NothingHeld DEF ClientsTypeOK
<1>4. \A k \in Scopes : Kept(k)
  BY <1>1, NothingHeld DEF Kept
<1> QED
  BY <1>1, <1>3, <1>4, NothingHeld DEF ClientsInv

(* A step of one caller keeps the invariant when what it holds then is good.*)
LEMMA CallerInv ==
    ASSUME ClientsInv, NEW u \in Callers, NEW q \in Pledges, Covered(q),
           q.pc = "poll" => now <= q.start + Poll,
           caller' = [caller EXCEPT ![u] = q], UNCHANGED <<now, cache, params>>
    PROVE  ClientsInv'
<1>1. \A w \in Callers : caller'[w] = q \/ caller'[w] = caller[w]
  BY DEF ClientsInv, ClientsTypeOK
<1>2. caller' \in [Callers -> Pledges]
  BY DEF ClientsInv, ClientsTypeOK
<1>3. ClientsTypeOK'
  BY <1>1, <1>2 DEF ClientsInv, ClientsTypeOK
<1>4. \A w \in Callers : Covered(caller'[w])
  BY <1>1 DEF ClientsInv
<1>5. \A k \in Scopes : Kept(k)'
  BY DEF ClientsInv, Kept
<1> QED
  BY <1>3, <1>4, <1>5 DEF ClientsInv, Covered

(* A request that loads a server, ends a command, or ends.                  *)
LEMMA HoldInv ==
    ASSUME ClientsInv, NEW u \in Callers,
           (\E v \in Servers : LoadServer(u, v)) \/ NextCommand(u) \/ EndRequest(u)
    PROVE  ClientsInv'
<1>1. caller[u] \in Pledges /\ Covered(caller[u]) /\ params \in [Servers -> Scopes]
  BY DEF ClientsInv, ClientsTypeOK
<1>2. CASE EndRequest(u)
  BY <1>2, NothingHeld, CallerInv DEF EndRequest
<1>3. CASE (\E v \in Servers : LoadServer(u, v)) \/ NextCommand(u)
  <2>1. PICK p \in Scopes :
           /\ caller' = [caller EXCEPT ![u] = [Nothing EXCEPT !.pc = "held", !.want = p]]
           /\ UNCHANGED <<now, cache, params>>
    BY <1>1, <1>3 DEF LoadServer, NextCommand, Covered
  <2> DEFINE q == [Nothing EXCEPT !.pc = "held", !.want = p]
  <2>2. q \in Pledges /\ q.pc = "held" /\ q.want = p
    BY NothingHeld DEF Pledges
  <2> HIDE DEF q
  <2>3. Covered(q)
    BY <2>2 DEF Covered
  <2> QED
    BY <2>1, <2>2, <2>3, CallerInv DEF q
<1> QED
  BY <1>2, <1>3

(* get_client_for_server: the entry of a role and a region is of them, and  *)
(* outlives the command and its polls.                                      *)
LEMMA GetForServerInv ==
    ASSUME ClientsInv, NEW u \in Callers, GetForServer(u)
    PROVE  ClientsInv'
<1> DEFINE k == caller[u].want
           e == IF now < cache[k].until THEN cache[k] ELSE Made(k)
           q == [pc |-> "poll", start |-> now, exp |-> e.exp, want |-> k, made |-> e.made]
<1>0. /\ now \in 0..MaxTime /\ now \in Nat /\ now \in Moments /\ now + Life \in Moments
      /\ now + (Life - Buffer) \in Moments /\ Forever \in Moments /\ now + Life <= Forever
      /\ k \in Scopes /\ cache[k] \in Entries /\ Kept(k)
  <2>1. now \in 0..MaxTime /\ Covered(caller[u]) /\ caller[u].pc = "held"
    BY DEF GetForServer, ClientsInv, ClientsTypeOK
  <2>2. k \in Scopes
    BY <2>1 DEF Covered
  <2> HIDE DEF k
  <2> QED
    BY <2>1, <2>2, MomentsReach, MaxTimeAssumption DEF ClientsInv, ClientsTypeOK
<1>1. /\ Made(k) \in Entries /\ Made(k).made = k
      /\ Made(k).until + Buffer <= Made(k).exp /\ now + Poll < Made(k).exp
  <2> HIDE DEF k
  <2>1. Made(k).exp \in {Forever, now + Life} /\ Made(k).until = now + (Life - Buffer) /\ Made(k).made = k
    BY DEF Made
  <2>2. Made(k) \in Entries
    BY <1>0 DEF Made, Entries
  <2> QED
    BY <1>0, <2>1, <2>2, LifeAssumption DEF Moments
<1>2. /\ e \in Entries /\ e.made = k /\ e.until + Buffer <= e.exp /\ now + Poll < e.exp
  <2> HIDE DEF k
  <2>1. CASE now < cache[k].until
    <3>1. /\ e = cache[k] /\ e \in Entries
          /\ now \in Nat /\ e.until \in Nat /\ e.exp \in Nat /\ now < e.until
      BY <2>1, <1>0 DEF Entries, Moments
    <3>2. e.made = k /\ e.until + Buffer <= e.exp
      BY <3>1, <1>0 DEF Kept
    <3> HIDE DEF e
    <3>3. now + Poll < e.exp
      BY <3>1, <3>2, LifeAssumption
    <3> QED
      BY <3>1, <3>2, <3>3
  <2>2. CASE ~(now < cache[k].until)
    BY <2>2, <1>1
  <2> QED
    BY <2>1, <2>2
<1>3. /\ cache' = [cache EXCEPT ![k] = e] /\ caller' = [caller EXCEPT ![u] = q]
      /\ UNCHANGED <<now, params>>
  BY DEF GetForServer, ScopeOf
<1> HIDE DEF e, k
<1>4. q \in Pledges /\ q.pc = "poll" /\ q.start = now /\ q.exp = e.exp /\ q.want = k /\ q.made = e.made
  BY <1>0, <1>2 DEF Pledges, Entries
<1> HIDE DEF q
<1>5. Covered(q)
  BY <1>0, <1>2, <1>4 DEF Covered
<1>6. \A w \in Callers : caller'[w] = q \/ caller'[w] = caller[w]
  BY <1>3 DEF ClientsInv, ClientsTypeOK
<1>7. caller' \in [Callers -> Pledges] /\ cache' \in [Scopes -> Entries]
  BY <1>2, <1>3, <1>4 DEF ClientsInv, ClientsTypeOK
<1>8. ClientsTypeOK'
  BY <1>0, <1>3, <1>4, <1>6, <1>7, LifeAssumption DEF ClientsInv, ClientsTypeOK
<1>9. \A w \in Callers : Covered(caller'[w])
  BY <1>5, <1>6 DEF ClientsInv
<1>10. \A j \in Scopes : Kept(j)'
  <2> TAKE j \in Scopes
  <2>1. CASE j = k
    BY <2>1, <1>2, <1>3 DEF Kept, ClientsInv, ClientsTypeOK
  <2>2. CASE j # k
    BY <2>2, <1>3 DEF Kept, ClientsInv, ClientsTypeOK
  <2> QED
    BY <2>1, <2>2
<1> QED
  BY <1>8, <1>9, <1>10 DEF ClientsInv, Covered

(* A change of a server, a restart and the clock keep the invariant.        *)
LEMMA ClientsWorldInv ==
    ASSUME ClientsInv,
           (\E v \in Servers, p \in Scopes : UpdateServer(v, p)) \/ ForgetClients \/ ClientsTick
    PROVE  ClientsInv'
<1>1. CASE \E v \in Servers, p \in Scopes : UpdateServer(v, p)
  <2>1. params' \in [Servers -> Scopes] /\ UNCHANGED <<now, cache, caller>>
    BY <1>1 DEF UpdateServer, ClientsInv, ClientsTypeOK
  <2> QED
    BY <2>1 DEF ClientsInv, ClientsTypeOK, Covered, Kept
<1>2. CASE ForgetClients
  <2>1. /\ caller' = [u \in Callers |-> Nothing] /\ cache' = [k \in Scopes |-> NoEntry]
        /\ UNCHANGED <<now, params>>
    BY <1>2 DEF ForgetClients
  <2>2. ClientsTypeOK'
    BY <2>1, NothingHeld DEF ClientsInv, ClientsTypeOK
  <2>3. \A u \in Callers : caller'[u] = Nothing
    BY <2>1
  <2>4. \A u \in Callers : Covered(caller'[u])
    BY <2>3, NothingHeld
  <2>5. \A k \in Scopes : Kept(k)'
    BY <2>1, NothingHeld DEF Kept
  <2> QED
    BY <2>2, <2>4, <2>5 DEF ClientsInv, Covered
<1>3. CASE ClientsTick
  <2>1. now < MaxTime /\ ~CommandDue /\ now' = now + 1 /\ UNCHANGED <<cache, params, caller>>
    BY <1>3 DEF ClientsTick, Tick, clientVars
  <2>2. now \in 0..MaxTime /\ now' \in 0..MaxTime
    BY <2>1, MaxTimeAssumption DEF ClientsInv, ClientsTypeOK
  <2>3. ASSUME NEW u \in Callers, caller'[u].pc = "poll" PROVE now' <= caller'[u].start + Poll
    BY <2>1, <2>2, <2>3, LifeAssumption DEF CommandDue, ClientsInv, ClientsTypeOK, Pledges, Moments
  <2>4. ClientsTypeOK'
    BY <2>1, <2>2, <2>3 DEF ClientsInv, ClientsTypeOK
  <2> QED
    BY <2>1, <2>4 DEF ClientsInv, Covered, Kept
<1> QED
  BY <1>1, <1>2, <1>3

(* The invariant is inductive.                                              *)
LEMMA ClientsInvariant == ClientsSpec => []ClientsInv
<1>1. ClientsInv /\ [ClientsNext]_<<now, clientVars>> => ClientsInv'
  <2> SUFFICES ASSUME ClientsInv, [ClientsNext]_<<now, clientVars>> PROVE ClientsInv'
    OBVIOUS
  <2>1. CASE UNCHANGED <<now, clientVars>>
    BY <2>1 DEF clientVars, ClientsInv, ClientsTypeOK, Covered, Kept
  <2>2. CASE ClientsNext
    BY <2>2, HoldInv, GetForServerInv, ClientsWorldInv DEF ClientsNext
  <2> QED
    BY <2>1, <2>2
<1> QED
  BY <1>1, ClientsInitInv, PTL DEF ClientsSpec

(* Every variable keeps its type, and the clock never passes the end of the *)
(* command of a caller (get_client_for_server).                             *)
THEOREM ClientsTyped == ClientsSpec => []ClientsTypeOK
  BY ClientsInvariant, PTL DEF ClientsInv

(* A command of the SSM transport runs with a client of the role and region *)
(* its request loaded with the server, whose credentials outlive its polls, *)
(* for any number of requests that share the cache, and whatever is         *)
(* committed meanwhile (get_client_for_server).                             *)
THEOREM ServerClientsRight == ClientsSpec => []ServerClientRight
<1>1. ClientsInv => ServerClientRight
  <2> SUFFICES ASSUME ClientsInv, NEW u \in Callers, caller[u].pc = "poll"
               PROVE  caller[u].made = caller[u].want /\ now < caller[u].exp
    BY DEF ServerClientRight
  <2>1. /\ caller[u] \in Pledges /\ Covered(caller[u])
        /\ now \in 0..MaxTime /\ now <= caller[u].start + Poll
    BY DEF ClientsInv, ClientsTypeOK
  <2>2. now \in Nat /\ caller[u].start \in Nat /\ caller[u].exp \in Nat
    BY <2>1, MaxTimeAssumption DEF Pledges, Moments
  <2> QED
    BY <2>1, <2>2, LifeAssumption DEF Covered
<1> QED
  BY <1>1, ClientsInvariant, PTL
=============================================================================
