----------------------------- MODULE AwsClients -----------------------------
(***************************************************************************)
(* app/services/aws_client.py: one boto3 client per role and region in a   *)
(* module variable, for the commands that app/services/transport/          *)
(* ssm_transport.py sends to the servers a request has loaded.             *)
(*                                                                         *)
(* Credentials are named by the time they expire.                          *)
(***************************************************************************)
EXTENDS ProcessClock

CONSTANTS
    Callers,    \* slots for requests that send commands to one server
    Servers,
    Roles,      \* role ARNs; NoRole is the default credential chain
    Regions,
    NoRole

ASSUME NoRoleAssumption == NoRole \notin Roles

VARIABLES
    cache,    \* _client_cache: expiry of the client of each role and region
    params,   \* role and region of each server, as committed
    caller    \* what each request does

clientVars == <<cache, params, caller>>

Scopes  == (Roles \cup {NoRole}) \X Regions
Nothing == [pc |-> "none", start |-> 0, exp |-> 0, want |-> <<>>, made |-> <<>>]
NoEntry == [exp |-> 0, until |-> 0, made |-> <<>>]

ClientsInit ==
    /\ now = 0
    /\ cache = [k \in Scopes |-> NoEntry]
    /\ params \in [Servers -> Scopes]
    /\ caller = [u \in Callers |-> Nothing]

(* A request loads a server; nothing reads the row again, the transport    *)
(* keeps the object.                                                       *)
LoadServer(u, v) ==
    /\ caller[u].pc = "none"
    /\ caller' = [caller EXCEPT ![u] = [Nothing EXCEPT !.pc = "held", !.want = params[v]]]
    /\ UNCHANGED <<now, cache, params>>

(* Mutant of ScopeOf: the cache is keyed by the region alone.              *)
ScopeOfRegion(p) == <<NoRole, p[2]>>

ScopeOf(p) == p

(* The default chain refreshes its credentials by itself.                  *)
Made(p) == [exp |-> IF p[1] = NoRole THEN Forever ELSE now + Life,
            until |-> now + (Life - Buffer), made |-> p]

(* get_client_for_server, for one command: a single step, it runs on the   *)
(* event loop.                                                             *)
GetForServer(u) ==
    LET want  == caller[u].want
        k     == ScopeOf(want)
        entry == IF now < cache[k].until THEN cache[k] ELSE Made(want)
    IN  /\ caller[u].pc = "held"
        /\ cache' = [cache EXCEPT ![k] = entry]
        /\ caller' = [caller EXCEPT ![u] = [pc |-> "poll", start |-> now, exp |-> entry.exp,
                                           want |-> want, made |-> entry.made]]
        /\ UNCHANGED <<now, params>>

(* A command has ended, and the request goes on with the same server.      *)
NextCommand(u) ==
    /\ caller[u].pc = "poll"
    /\ caller' = [caller EXCEPT ![u] = [Nothing EXCEPT !.pc = "held", !.want = caller[u].want]]
    /\ UNCHANGED <<now, cache, params>>

EndRequest(u) ==
    /\ caller[u].pc \in {"held", "poll"}
    /\ caller' = [caller EXCEPT ![u] = Nothing]
    /\ UNCHANGED <<now, cache, params>>

(* update_server: nothing calls invalidate_server_clients.                 *)
UpdateServer(v, p) ==
    /\ params' = [params EXCEPT ![v] = p]
    /\ UNCHANGED <<now, cache, caller>>

ForgetClients ==
    /\ cache' = [k \in Scopes |-> NoEntry]
    /\ caller' = [u \in Callers |-> Nothing]
    /\ UNCHANGED <<now, params>>

(* Mutant of CommandDue: polling has no limit.                             *)
CommandDueNever == FALSE

(* A command and its polls end within Poll ticks.                          *)
CommandDue == \E u \in Callers : caller[u].pc = "poll" /\ now >= caller[u].start + Poll

ClientsTick == Tick(CommandDue) /\ UNCHANGED clientVars

ClientsNext ==
    \/ \E u \in Callers : \/ \E v \in Servers : LoadServer(u, v)
                          \/ GetForServer(u) \/ NextCommand(u) \/ EndRequest(u)
    \/ \E v \in Servers, p \in Scopes : UpdateServer(v, p)
    \/ ForgetClients
    \/ ClientsTick

ClientsSpec == ClientsInit /\ [][ClientsNext]_<<now, clientVars>>

-----------------------------------------------------------------------------
(* Properties.                                                             *)

Entries == [exp : Moments, until : Moments, made : Scopes \cup {<<>>}]
Pledges == [pc : {"none", "held", "poll"}, start : Moments, exp : Moments,
            want : Scopes \cup {<<>>}, made : Scopes \cup {<<>>}]

(* Every variable keeps its type; no command polls for longer than Poll.   *)
ClientsTypeOK ==
    /\ now \in 0..MaxTime
    /\ cache \in [Scopes -> Entries]
    /\ params \in [Servers -> Scopes]
    /\ caller \in [Callers -> Pledges]
    /\ \A u \in Callers : caller[u].pc = "poll" => now <= caller[u].start + Poll

(* A command of the SSM transport runs with a client of the role and the   *)
(* region its request loaded with the server (ssm_transport.py:61, 83),    *)
(* and with credentials that outlive its polls: not with those another     *)
(* request, or the row after a change, has brought into the cache, which   *)
(* nothing invalidates (get_client_for_server).                            *)
ServerClientRight ==
    \A u \in Callers : caller[u].pc = "poll" => caller[u].made = caller[u].want /\ now < caller[u].exp
=============================================================================
