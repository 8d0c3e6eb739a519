------------------------------ MODULE Process -------------------------------
(***************************************************************************)
(* The API process outside the tunnel, route and rule services: its caches *)
(* of signing keys and of AWS clients, the accounts its requests run       *)
(* under, and the status checks.  The caches share the clock and die with  *)
(* the process; beyond that these parts have no variable in common, so a   *)
(* behaviour follows one of them, the focus, and no order of steps is lost.*)
(***************************************************************************)
EXTENDS JwksCache, AwsSession, AwsClients, Accounts, TunnelStatus

CONSTANT Focuses   \* the parts a behaviour may follow

VARIABLE focus

processVars == <<now, keysVars, sessionVars, clientVars, accountVars, statusVars, focus>>

(* A part out of focus rests in one of its initial states.                 *)
ProcessInit ==
    /\ focus \in Focuses
    /\ KeysInit
    /\ SessionInit
    /\ ClientsInit
    /\ AccountsInit
    /\ StatusInit
    /\ focus # "clients" => \A v, w \in Servers : params[v] = CHOOSE k \in Scopes : TRUE
    /\ focus # "accounts" => /\ mode = "local"
                             /\ users = [p \in People |-> [NoUser EXCEPT !.known = TRUE, !.role = "admin"]]

ProcessNext ==
    \/ /\ focus = "keys" /\ KeysNext
       /\ UNCHANGED <<sessionVars, clientVars, accountVars, statusVars, focus>>
    \/ /\ focus = "session" /\ SessionNext
       /\ UNCHANGED <<keysVars, clientVars, accountVars, statusVars, focus>>
    \/ /\ focus = "clients" /\ ClientsNext
       /\ UNCHANGED <<keysVars, sessionVars, accountVars, statusVars, focus>>
    \/ /\ focus = "accounts" /\ AccountsNext
       /\ UNCHANGED <<now, keysVars, sessionVars, clientVars, statusVars, focus>>
    \/ /\ focus = "status" /\ StatusNext
       /\ UNCHANGED <<now, keysVars, sessionVars, clientVars, accountVars, focus>>

ProcessSpec == ProcessInit /\ [][ProcessNext]_processVars
=============================================================================
