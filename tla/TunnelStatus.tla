---------------------------- MODULE TunnelStatus ----------------------------
(***************************************************************************)
(* The status check of app/services/tunnel_service.py.  A check asks every *)
(* active server for the connections that are up, each at its own moment,  *)
(* parses and aggregates the answers and commits the status of the tunnel  *)
(* it loaded before; a PATCH may commit another status meanwhile.          *)
(***************************************************************************)
EXTENDS FiniteSets

CONSTANTS
    Conns,      \* tunnels, named alike on the servers
    Hosts,      \* the active servers
    Checks,     \* slots for status checks
    Within,     \* pairs of tunnels: the name of the first is part of the other's
    NoConn

ASSUME WithinAssumption == Within \subseteq Conns \X Conns /\ NoConn \notin Conns

VARIABLES
    status,   \* tunnels.status
    up,       \* the connections established on each server
    check     \* the checks in flight

statusVars == <<status, up, check>>

Answers  == {"UP", "DOWN", "UNKNOWN"}
NoAnswer == [state |-> "none", seen |-> {}]
NoCheck  == [tun |-> NoConn, was |-> "none", got |-> [h \in Hosts |-> NoAnswer]]

StatusInit ==
    /\ status = [t \in Conns |-> "active"]
    /\ up = [h \in Hosts |-> {}]
    /\ check = [c \in Checks |-> NoCheck]

-----------------------------------------------------------------------------
(* Mutant of Parse: a line of any connection counts.                       *)
ParseAnyLine(t, conns) == IF conns = {} THEN "DOWN" ELSE "UP"

(* _parse_tunnel_state: a line that contains the name and says established. *)
Parse(t, conns) == IF \E d \in conns : d = t \/ <<t, d>> \in Within THEN "UP" ELSE "DOWN"

(* Mutant of Aggregate: the first answer that is not UP decides.           *)
AggregateWorst(states) == IF "UNKNOWN" \in states THEN "UNKNOWN"
                          ELSE IF "DOWN" \in states THEN "DOWN" ELSE "UP"

(* _aggregate_tunnel_states, in the order of its tests.                    *)
Aggregate(states) ==
    IF "UP" \in states /\ states \cap {"DOWN", "UNKNOWN"} # {} THEN "PARTIAL"
    ELSE IF "UP" \in states THEN "UP"
    ELSE IF "DOWN" \in states THEN "DOWN"
    ELSE "UNKNOWN"

(* Mutant of StatusMap: the aggregate state is stored as it is.            *)
StatusMapPartial == [UP |-> "up", PARTIAL |-> "partial", DOWN |-> "down", UNKNOWN |-> "unknown"]

(* status_map: PARTIAL is stored as up.                                    *)
StatusMap == [UP |-> "up", PARTIAL |-> "up", DOWN |-> "down", UNKNOWN |-> "unknown"]

BeginCheck(c, t) ==
    /\ check[c] = NoCheck
    /\ check' = [check EXCEPT ![c] = [NoCheck EXCEPT !.tun = t, !.was = status[t]]]
    /\ UNCHANGED <<status, up>>

Asks(c, h) == check[c] # NoCheck /\ check[c].got[h] = NoAnswer

HostAnswers(c, h) ==
    /\ Asks(c, h)
    /\ check' = [check EXCEPT ![c].got[h] = [state |-> Parse(check[c].tun, up[h]), seen |-> up[h]]]
    /\ UNCHANGED <<status, up>>

(* The command fails, or its answer is empty.                              *)
HostFails(c, h) ==
    /\ Asks(c, h)
    /\ check' = [check EXCEPT ![c].got[h] = [state |-> "UNKNOWN", seen |-> {}]]
    /\ UNCHANGED <<status, up>>

(* Without an active server the fan-out raises, and the state is UNKNOWN,  *)
(* as for an empty set of answers.                                         *)
CommitCheck(c) ==
    LET q == check[c]
        found == StatusMap[Aggregate({q.got[h].state : h \in Hosts})]
    IN  /\ q # NoCheck
        /\ \A h \in Hosts : q.got[h] # NoAnswer
        /\ status' = [status EXCEPT ![q.tun] = IF found = q.was THEN @ ELSE found]
        /\ check' = [check EXCEPT ![c] = NoCheck]
        /\ UNCHANGED up

(* update_tunnel with a status, as far as the status goes.                 *)
Patch(t, s) ==
    /\ status[t] # s
    /\ status' = [status EXCEPT ![t] = s]
    /\ UNCHANGED <<up, check>>

(* A connection comes up or goes down by itself.                           *)
Flip(h, t) ==
    /\ up' = [up EXCEPT ![h] = IF t \in @ THEN @ \ {t} ELSE @ \cup {t}]
    /\ UNCHANGED <<status, check>>

StatusNext ==
    \/ \E c \in Checks : \/ \E t \in Conns : BeginCheck(c, t)
                         \/ \E h \in Hosts : HostAnswers(c, h) \/ HostFails(c, h)
                         \/ CommitCheck(c)
    \/ \E t \in Conns, s \in {"active", "inactive"} : Patch(t, s)
    \/ \E h \in Hosts, t \in Conns : Flip(h, t)

StatusSpec == StatusInit /\ [][StatusNext]_statusVars

-----------------------------------------------------------------------------
(* Properties.                                                             *)

(* Every variable keeps its type.                                          *)
StatusTypeOK ==
    /\ status \in [Conns -> {"active", "inactive", "up", "down", "unknown"}]
    /\ up \in [Hosts -> SUBSET Conns]
    /\ check \in [Checks -> [tun : Conns \cup {NoConn},
                             was : {"none", "active", "inactive", "up", "down", "unknown"},
                             got : [Hosts -> [state : Answers \cup {"none"}, seen : SUBSET Conns]]]]

Said(c, state) == \E h \in Hosts : check[c].got[h].state = state

(* What a check commits follows the rules its docstring gives for the      *)
(* answers, whatever their order: any UP is up, else any DOWN is down,     *)
(* else unknown (_aggregate_tunnel_states and the status_map).             *)
StatusRules ==
    [][\A c \in Checks :
         LET rule == IF Said(c, "UP") THEN "up" ELSE IF Said(c, "DOWN") THEN "down" ELSE "unknown"
         IN  check[c] # NoCheck /\ check'[c] = NoCheck =>
                 LET t == check[c].tun
                 IN  status'[t] = rule \/ (rule = check[c].was /\ status'[t] = status[t])]_statusVars

(* For a tunnel whose name is part of no other's, UP is said of a server   *)
(* on which this tunnel was established when it was asked, and DOWN of one *)
(* on which it was not (_parse_tunnel_state).                              *)
UpMeansUp ==
    \A c \in Checks, h \in Hosts :
        LET t == check[c].tun
            a == check[c].got[h]
        IN  check[c] # NoCheck /\ (\A d \in Conns \ {t} : <<t, d>> \notin Within)
            => (a.state = "UP" => t \in a.seen) /\ (a.state = "DOWN" => t \notin a.seen)
=============================================================================
