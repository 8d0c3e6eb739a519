--------------------------- MODULE ProcessProofs ----------------------------
(* The status checks, and the whole process: it implements each of its      *)
(* parts, so that what is proved of a part holds of the process.            *)
EXTENDS Process, JwksCacheProofs, AwsClientsProofs, AccountsProofs

Saids   == [state : Answers \cup {"none"}, seen : SUBSET Conns]
Waiting == [tun : Conns \cup {NoConn}, was : {"none", "active", "inactive", "up", "down", "unknown"},
            got : [Hosts -> Saids]]

(* A check under way has a tunnel, and an answer that is not a failure is   *)
(* the parse of the connections that were up when it was given.             *)
Parsed(q) == /\ q # NoCheck => q.tun \in Conns
             /\ \A h \in Hosts : \/ q.got[h] = NoAnswer \/ q.got[h].state = "UNKNOWN"
                                 \/ q.got[h].state = Parse(q.tun, q.got[h].seen)

StatusInv == StatusTypeOK /\ \A c \in Checks : Parsed(check[c])

(* The resting values are of their types.                                   *)
LEMMA RestingCheck == NoAnswer \in Saids /\ NoCheck \in Waiting /\ Parsed(NoCheck)
<1>1. NoAnswer \in Saids /\ NoAnswer.state = "none"
  BY DEF NoAnswer, Saids
<1>2. NoCheck \in Waiting
  BY <1>1 DEF NoCheck, Waiting
<1> QED
  BY <1>1, <1>2 DEF NoCheck, Parsed

(* A step that changes one check, and the status at most to a value of the  *)
(* column, keeps the invariant.                                             *)
LEMMA CheckInv ==
    ASSUME StatusInv, NEW c \in Checks, NEW q \in Waiting, Parsed(q),
           check' = [check EXCEPT ![c] = q], up' = up,
           status' \in [Conns -> {"active", "inactive", "up", "down", "unknown"}]
    PROVE  StatusInv'
<1>1. check' \in [Checks -> Waiting] /\ \A d \in Checks : check'[d] = q \/ check'[d] = check[d]
  BY DEF StatusInv, StatusTypeOK, Waiting, Saids
<1>2. StatusTypeOK'
  BY <1>1 DEF StatusInv, StatusTypeOK, Waiting, Saids
<1> QED
  BY <1>1, <1>2 DEF StatusInv

(* What a check finds is one of three answers, by the rule of the docstring. *)
LEMMA AggregateRule ==
    ASSUME NEW S \in SUBSET Answers
    PROVE  StatusMap[Aggregate(S)] = IF "UP" \in S THEN "up" ELSE IF "DOWN" \in S THEN "down" ELSE "unknown"
  BY DEF StatusMap, Aggregate

(* Every step of the status checks keeps the invariant.                     *)
LEMMA StatusStepInv == ASSUME StatusInv, StatusNext PROVE StatusInv'
<1>0. check \in [Checks -> Waiting] /\ \A c \in Checks : Parsed(check[c])
  BY DEF StatusInv, StatusTypeOK, Waiting, Saids
<1>1. ASSUME NEW c \in Checks, NEW t \in Conns, BeginCheck(c, t) PROVE StatusInv'
  <2> DEFINE z == [NoCheck EXCEPT !.tun = t, !.was = status[t]]
  <2>1. z \in Waiting /\ z.tun = t /\ z.got = NoCheck.got
    BY RestingCheck DEF StatusInv, StatusTypeOK, Waiting
  <2>2. check' = [check EXCEPT ![c] = z] /\ UNCHANGED <<status, up>>
    BY <1>1 DEF BeginCheck
  <2> HIDE DEF z
  <2>3. \A h \in Hosts : z.got[h] = NoAnswer
    BY <2>1 DEF NoCheck
  <2>4. Parsed(z)
    BY <2>1, <2>3 DEF Parsed
  <2> QED
    BY <2>1, <2>2, <2>4, CheckInv DEF StatusInv, StatusTypeOK
<1>2. ASSUME NEW c \in Checks, NEW h \in Hosts, NEW a \in Saids, Asks(c, h),
             check' = [check EXCEPT ![c].got[h] = a], UNCHANGED <<status, up>>,
             a.state = "UNKNOWN" \/ a.state = Parse(check[c].tun, a.seen)
      PROVE  StatusInv'
  <2> DEFINE z == [check[c] EXCEPT !.got = [check[c].got EXCEPT ![h] = a]]
  <2>1. check' = [check EXCEPT ![c] = z]
    BY <1>2
  <2>2. check[c] \in Waiting /\ Parsed(check[c]) /\ check[c] # NoCheck
    BY <1>0, <1>2 DEF Asks
  <2>3. z \in Waiting /\ z.tun = check[c].tun /\ z.got = [check[c].got EXCEPT ![h] = a]
    BY <2>2 DEF Waiting
  <2> HIDE DEF z
  <2>4. \A g \in Hosts : IF g = h THEN z.got[g] = a ELSE z.got[g] = check[c].got[g]
    BY <2>2, <2>3 DEF Waiting
  <2>5. Parsed(z)
    BY <1>2, <2>2, <2>3, <2>4 DEF Parsed
  <2> QED
    BY <1>2, <2>1, <2>3, <2>5, CheckInv DEF StatusInv, StatusTypeOK
<1>3. ASSUME NEW c \in Checks, NEW h \in Hosts, HostAnswers(c, h) PROVE StatusInv'
  <2> DEFINE z == [state |-> Parse(check[c].tun, up[h]), seen |-> up[h]]
  <2>1. z \in Saids /\ z.state = Parse(check[c].tun, z.seen)
    BY DEF Saids, Parse, Answers, StatusInv, StatusTypeOK
  <2>2. Asks(c, h) /\ check' = [check EXCEPT ![c].got[h] = z] /\ UNCHANGED <<status, up>>
    BY <1>3 DEF HostAnswers
  <2> HIDE DEF z
  <2> QED
    BY <1>2, <2>1, <2>2
<1>4. ASSUME NEW c \in Checks, NEW h \in Hosts, HostFails(c, h) PROVE StatusInv'
  <2> DEFINE z == [state |-> "UNKNOWN", seen |-> {}]
  <2>1. z \in Saids /\ z.state = "UNKNOWN"
    BY DEF Saids, Answers
  <2>2. Asks(c, h) /\ check' = [check EXCEPT ![c].got[h] = z] /\ UNCHANGED <<status, up>>
    BY <1>4 DEF HostFails
  <2> HIDE DEF z
  <2> QED
    BY <1>2, <2>1, <2>2
<1>5. ASSUME NEW c \in Checks, CommitCheck(c) PROVE StatusInv'
  <2>1. PICK found : found = StatusMap[Aggregate({check[c].got[h].state : h \in Hosts})]
    OBVIOUS
  <2>2. found \in {"up", "down", "unknown"}
    <3>1. \A S : Aggregate(S) \in {"UP", "PARTIAL", "DOWN", "UNKNOWN"}
      BY DEF Aggregate
    <3>2. \A k \in {"UP", "PARTIAL", "DOWN", "UNKNOWN"} : StatusMap[k] \in {"up", "down", "unknown"}
      BY DEF StatusMap
    <3> QED
      BY <2>1, <3>1, <3>2
  <2>3. /\ status' = [status EXCEPT ![check[c].tun] = IF found = check[c].was THEN @ ELSE found]
        /\ check' = [check EXCEPT ![c] = NoCheck] /\ up' = up
    BY <1>5, <2>1 DEF CommitCheck
  <2>4. status' \in [Conns -> {"active", "inactive", "up", "down", "unknown"}]
    BY <2>2, <2>3 DEF StatusInv, StatusTypeOK
  <2> QED
    BY <2>3, <2>4, RestingCheck, CheckInv
<1>6. ASSUME NEW t \in Conns, NEW s \in {"active", "inactive"}, Patch(t, s) PROVE StatusInv'
  BY <1>6 DEF Patch, StatusInv, StatusTypeOK, Parsed
<1>7. ASSUME NEW h \in Hosts, NEW t \in Conns, Flip(h, t) PROVE StatusInv'
  BY <1>7 DEF Flip, StatusInv, StatusTypeOK, Parsed
<1> QED
  BY <1>1, <1>3, <1>4, <1>5, <1>6, <1>7 DEF StatusNext

(* The invariant is inductive.                                              *)
LEMMA StatusInvariant == StatusSpec => []StatusInv
<1>1. StatusInit => StatusInv
  <2> SUFFICES ASSUME StatusInit PROVE StatusInv
    OBVIOUS
  <2>1. check = [c \in Checks |-> NoCheck] /\ check \in [Checks -> Waiting]
    BY RestingCheck DEF StatusInit
  <2>2. StatusTypeOK
    BY <2>1 DEF StatusInit, StatusTypeOK, Waiting, Saids
  <2> QED
    BY <2>1, <2>2, RestingCheck DEF StatusInv
<1>2. StatusInv /\ [StatusNext]_statusVars => StatusInv'
  <2> SUFFICES ASSUME StatusInv, [StatusNext]_statusVars PROVE StatusInv'
    OBVIOUS
  <2>1. CASE UNCHANGED statusVars
    BY <2>1 DEF statusVars, StatusInv, StatusTypeOK, Parsed
  <2> QED
    BY <2>1, StatusStepInv
<1> QED
  BY <1>1, <1>2, PTL DEF StatusSpec

(* Every state of the status checks is well typed, for any tunnels, servers *)
(* and checks.                                                             *)
THEOREM StatusTyped == StatusSpec => []StatusTypeOK
<1>1. StatusInv => StatusTypeOK
  BY DEF StatusInv
<1> QED
  BY <1>1, StatusInvariant, PTL

(* For a tunnel whose name is part of no other's, UP is said only where it  *)
(* was established and DOWN only where it was not (_parse_tunnel_state).    *)
THEOREM UpIsUp == StatusSpec => []UpMeansUp
<1>1. StatusInv => UpMeansUp
  <2> SUFFICES ASSUME StatusInv, NEW c \in Checks, NEW h \in Hosts, check[c] # NoCheck,
                      \A d \in Conns \ {check[c].tun} : <<check[c].tun, d>> \notin Within
               PROVE  /\ check[c].got[h].state = "UP" => check[c].tun \in check[c].got[h].seen
                      /\ check[c].got[h].state = "DOWN" => check[c].tun \notin check[c].got[h].seen
    BY DEF UpMeansUp
  <2>1. check[c].got[h].seen \subseteq Conns
    BY DEF StatusInv, StatusTypeOK
  <2>2. \/ check[c].got[h] = NoAnswer \/ check[c].got[h].state = "UNKNOWN"
        \/ check[c].got[h].state = Parse(check[c].tun, check[c].got[h].seen)
    BY DEF StatusInv, Parsed
  <2>3. NoAnswer.state = "none"
    BY DEF NoAnswer
  <2> QED
    BY <2>1, <2>2, <2>3 DEF Parse
<1> QED
  BY <1>1, StatusInvariant, PTL

(* Only the commit ends a check.                                            *)
LEMMA OnlyCommitEnds ==
    ASSUME StatusInv, StatusNext, NEW c \in Checks, check[c] # NoCheck, check'[c] = NoCheck
    PROVE  CommitCheck(c)
<1>0. check[c] \in Waiting /\ check[c].tun \in Conns /\ NoConn \notin Conns /\ NoCheck.tun = NoConn
  BY WithinAssumption DEF StatusInv, StatusTypeOK, Parsed, Waiting, Saids, NoCheck
<1>1. ASSUME NEW d \in Checks, NEW h \in Hosts, NEW a, check' = [check EXCEPT ![d].got[h] = a] PROVE FALSE
  <2>1. check'[c] = check[c] \/ check'[c] = [check[c] EXCEPT !.got = [check[c].got EXCEPT ![h] = a]]
    BY <1>1 DEF StatusInv, StatusTypeOK
  <2>2. check'[c].tun = check[c].tun
    BY <2>1, <1>0 DEF Waiting
  <2> QED
    BY <1>0, <2>2
<1>2. ASSUME NEW d \in Checks, NEW t \in Conns, BeginCheck(d, t) PROVE FALSE
  <2>1. d # c
    BY <1>2 DEF BeginCheck
  <2>2. check'[c] = check[c]
    BY <1>2, <2>1 DEF BeginCheck, StatusInv, StatusTypeOK
  <2> QED
    BY <2>2
<1>3. ASSUME NEW d \in Checks, CommitCheck(d) PROVE d = c
  BY <1>3 DEF CommitCheck, StatusInv, StatusTypeOK
<1> QED
  BY <1>1, <1>2, <1>3 DEF StatusNext, HostAnswers, HostFails, Patch, Flip

(* What a check commits follows the rules of its docstring for any number   *)
(* of servers and any order of the answers (_aggregate_tunnel_states).      *)
THEOREM ChecksFollowRules == StatusSpec => StatusRules
<1>1. StatusInv /\ [StatusNext]_statusVars =>
        \A c \in Checks :
          LET rule == IF Said(c, "UP") THEN "up" ELSE IF Said(c, "DOWN") THEN "down" ELSE "unknown"
          IN  check[c] # NoCheck /\ check'[c] = NoCheck =>
                  LET t == check[c].tun
                  IN  status'[t] = rule \/ (rule = check[c].was /\ status'[t] = status[t])
  <2> SUFFICES ASSUME StatusInv, [StatusNext]_statusVars, NEW c \in Checks,
                      check[c] # NoCheck, check'[c] = NoCheck
               PROVE  LET rule == IF Said(c, "UP") THEN "up" ELSE IF Said(c, "DOWN") THEN "down" ELSE "unknown"
                          t == check[c].tun
                      IN  status'[t] = rule \/ (rule = check[c].was /\ status'[t] = status[t])
    OBVIOUS
  <2> DEFINE S == {check[c].got[h].state : h \in Hosts}
             rule == IF Said(c, "UP") THEN "up" ELSE IF Said(c, "DOWN") THEN "down" ELSE "unknown"
             t == check[c].tun
  <2>1. StatusNext
    BY DEF statusVars
  <2>2. CommitCheck(c)
    BY <2>1, OnlyCommitEnds
  <2>3. S \in SUBSET Answers
    <3>1. ASSUME NEW h \in Hosts PROVE check[c].got[h].state \in Answers
      <4>1. check[c].got[h] \in Saids /\ check[c].got[h] # NoAnswer
        BY <2>2 DEF CommitCheck, StatusInv, StatusTypeOK, Saids
      <4>2. check[c].got[h].state = "UNKNOWN" \/ check[c].got[h].state = Parse(check[c].tun, check[c].got[h].seen)
        BY <4>1 DEF StatusInv, Parsed
      <4> QED
        BY <4>2 DEF Parse, Answers
    <3> QED
      BY <3>1
  <2>4. StatusMap[Aggregate(S)] = rule
    <3>1. StatusMap[Aggregate(S)] = IF "UP" \in S THEN "up" ELSE IF "DOWN" \in S THEN "down" ELSE "unknown"
      BY <2>3, AggregateRule
    <3>2. ("UP" \in S <=> Said(c, "UP")) /\ ("DOWN" \in S <=> Said(c, "DOWN"))
      BY DEF Said
    <3> QED
      BY <3>1, <3>2
  <2>5. t \in Conns
    BY DEF StatusInv, Parsed
  <2>6. status' = [status EXCEPT ![t] = IF StatusMap[Aggregate(S)] = check[c].was THEN @ ELSE StatusMap[Aggregate(S)]]
    BY <2>2 DEF CommitCheck
  <2> HIDE DEF S, rule
  <2>7. status'[t] = IF rule = check[c].was THEN status[t] ELSE rule
    BY <2>4, <2>5, <2>6 DEF StatusInv, StatusTypeOK
  <2>8. status'[t] = rule \/ (rule = check[c].was /\ status'[t] = status[t])
    BY <2>7
  <2> QED
    BY <2>8 DEF rule
<1> QED
  BY <1>1, StatusInvariant, PTL DEF StatusSpec, StatusRules

-----------------------------------------------------------------------------
(* The composition: the parts share no variable but the clock.              *)

(* A part that is not followed does nothing.                                *)
AtRest == /\ focus # "session" => \A u \in Threads : thread[u].pc = "none"
          /\ focus # "clients" => \A u \in Callers : caller[u].pc = "none"

(* The threads and callers of a process that follows another part are idle. *)
LEMMA StayAtRest == ProcessSpec => []AtRest
<1>1. ProcessInit => AtRest
  BY DEF ProcessInit, SessionInit, Idle, ClientsInit, Nothing, AtRest
<1>2. AtRest /\ [ProcessNext]_processVars => AtRest'
  BY DEF AtRest, ProcessNext, processVars, sessionVars, clientVars
<1> QED
  BY <1>1, <1>2, PTL DEF ProcessSpec

(* What a step of one of the caches does to the clock.                      *)
LEMMA TheyTick ==
    /\ KeysNext => now' = now \/ (now < MaxTime /\ now' = now + 1)
    /\ SessionNext => now' = now \/ (now < MaxTime /\ now' = now + 1)
    /\ ClientsNext => now' = now \/ (now < MaxTime /\ now' = now + 1)
<1>1. KeysNext => now' = now \/ (now < MaxTime /\ now' = now + 1)
  BY DEF KeysNext, StartFetch, ConfigArrives, ProviderAnswers, StoreKeys, FetchFails, Rotate,
         ForgetKeys, KeysTick, Tick
<1>2. SessionNext => now' = now \/ (now < MaxTime /\ now' = now + 1)
  BY DEF SessionNext, GetSession, StsAnswers, StoreCreds, ReadExpiry, StoreLimit, MakeSession, ReadLimit,
         Compare, Lookup, MakeClient, StoreMark, Return, FinishCall, ForgetSession, SessionTick, Go, Tick
<1>3. ClientsNext => now' = now \/ (now < MaxTime /\ now' = now + 1)
  BY DEF ClientsNext, LoadServer, GetForServer, NextCommand, EndRequest, UpdateServer, ForgetClients,
         ClientsTick, Tick
<1> QED
  BY <1>1, <1>2, <1>3

(* The process implements the cache of signing keys: the steps of the other *)
(* parts leave it alone, or let time pass (app/auth/oidc.py).               *)
THEOREM ProcessKeepsKeys == ProcessSpec => KeysSpec
<1>1. ProcessInit => KeysInit
  BY DEF ProcessInit
<1>2. [ProcessNext]_processVars => [KeysNext]_<<now, keysVars>>
  <2> SUFFICES ASSUME [ProcessNext]_processVars PROVE [KeysNext]_<<now, keysVars>>
    OBVIOUS
  <2>1. CASE UNCHANGED processVars
    BY <2>1 DEF processVars
  <2>2. CASE (SessionNext \/ ClientsNext) /\ UNCHANGED keysVars
    BY <2>2, TheyTick DEF KeysTick, Tick, KeysNext
  <2> QED
    BY <2>1, <2>2 DEF ProcessNext
<1> QED
  BY <1>1, <1>2, PTL DEF ProcessSpec, KeysSpec

(* So it does the session with the global role (aws_session.py).            *)
THEOREM ProcessKeepsSession == ProcessSpec => SessionSpec
<1>1. ProcessInit => SessionInit
  BY DEF ProcessInit
<1>2. AtRest /\ [ProcessNext]_processVars => [SessionNext]_<<now, sessionVars>>
  <2> SUFFICES ASSUME AtRest, [ProcessNext]_processVars PROVE [SessionNext]_<<now, sessionVars>>
    OBVIOUS
  <2>1. CASE UNCHANGED processVars
    BY <2>1 DEF processVars
  <2>2. CASE focus # "session" /\ (KeysNext \/ ClientsNext) /\ UNCHANGED sessionVars
    <3>1. ~CallDue
      BY <2>2 DEF AtRest, CallDue
    <3> QED
      BY <2>2, <3>1, TheyTick DEF SessionTick, Tick, SessionNext
  <2> QED
    BY <2>1, <2>2 DEF ProcessNext
<1> QED
  BY <1>1, <1>2, StayAtRest, PTL DEF ProcessSpec, SessionSpec

(* And the clients of the servers (aws_client.py, ssm_transport.py).        *)
THEOREM ProcessKeepsClients == ProcessSpec => ClientsSpec
<1>1. ProcessInit => ClientsInit
  BY DEF ProcessInit
<1>2. AtRest /\ [ProcessNext]_processVars => [ClientsNext]_<<now, clientVars>>
  <2> SUFFICES ASSUME AtRest, [ProcessNext]_processVars PROVE [ClientsNext]_<<now, clientVars>>
    OBVIOUS
  <2>1. CASE UNCHANGED processVars
    BY <2>1 DEF processVars
  <2>2. CASE focus # "clients" /\ (KeysNext \/ SessionNext) /\ UNCHANGED clientVars
    <3>1. ~CommandDue
      BY <2>2 DEF AtRest, CommandDue
    <3> QED
      BY <2>2, <3>1, TheyTick DEF ClientsTick, Tick, ClientsNext
  <2> QED
    BY <2>1, <2>2 DEF ProcessNext
<1> QED
  BY <1>1, <1>2, StayAtRest, PTL DEF ProcessSpec, ClientsSpec

(* And the accounts and the status checks, which have no clock              *)
(* (user_service.py, auth/dependencies.py, check_tunnel_status).            *)
THEOREM ProcessKeepsAccounts == ProcessSpec => AccountsSpec /\ StatusSpec
<1>1. ProcessInit => AccountsInit /\ StatusInit
  BY DEF ProcessInit
<1>2. [ProcessNext]_processVars => [AccountsNext]_accountVars /\ [StatusNext]_statusVars
  BY DEF ProcessNext, processVars
<1> QED
  BY <1>1, <1>2, PTL DEF ProcessSpec, AccountsSpec, StatusSpec

(* The safety of the whole process: fresh keys, sessions and clients with   *)
(* credentials that last, clients of the role and region they were asked    *)
(* for, one request per user in oidc mode, and a status that says what the  *)
(* servers said.                                                            *)
THEOREM ProcessSafe ==
    ProcessSpec => /\ []FreshKeys
                   /\ [](SessionOutlives /\ ServerClientRight)
                   /\ []OneRequestPerUser
                   /\ []UpMeansUp
                   /\ StatusRules
  BY ProcessKeepsKeys, ProcessKeepsSession, ProcessKeepsClients, ProcessKeepsAccounts, KeysFresh,
     SessionsOutlive, ServerClientsRight, RequestsOneByOne, UpIsUp, ChecksFollowRules, PTL
=============================================================================
