--------------------------- MODULE TunnelContract ---------------------------
(***************************************************************************)
(* What a client of the tunnels API may rely on, however requests overlap  *)
(* and whatever fails.  The tunnels list changes one row at a time.  The   *)
(* fleet is worked on by one job at a time, and while a job runs no row    *)
(* changes.  A status the list shows of a push is the verdict of the       *)
(* servers that very push asked.  A tunnel goes only after all servers its *)
(* delete asked have confirmed, and for good; names of the tunnels shown   *)
(* are unique; a column holds what the job pushed or what it held before.  *)
(***************************************************************************)
CONSTANTS Tunnels, Names, Confs, Psks, Servers, None

VARIABLES
    shown,  \* the rows, as the tunnels list shows them
    job     \* what the fleet is being asked to do

contract == <<shown, job>>

NoAnswers == [s \in Servers |-> "absent"]
Hidden(st) == [st |-> st, name |-> None, conf |-> None, psk |-> None, sync |-> "none"]
NoJob == [kind |-> "none", t |-> None, name |-> None, conf |-> None, psk |-> None,
          out |-> NoAnswers]

Init == /\ shown = [t \in Tunnels |-> Hidden("absent")]
        /\ job = NoJob

IsFree(n, t) == \A u \in Tunnels \ {t} : shown[u].st = "live" => shown[u].name # n

Asking(servers) == [s \in Servers |-> IF s \in servers THEN "todo" ELSE "absent"]

(* Jobs begin.  A push may overtake the delete of its tunnel.              *)
Push(t, n, c, p, servers) ==
    /\ job = NoJob
    /\ job' = [kind |-> "push", t |-> t, name |-> n, conf |-> c, psk |-> p,
               out |-> Asking(servers)]
    /\ UNCHANGED shown

Remove(t, servers) ==
    /\ job = NoJob
    /\ shown[t].st # "absent"
    /\ job' = [NoJob EXCEPT !.kind = "remove", !.t = t, !.out = Asking(servers)]
    /\ UNCHANGED shown

Switch == /\ job = NoJob
          /\ job' = [NoJob EXCEPT !.kind = "switch"]
          /\ UNCHANGED shown

(* Each server asked answers once.                                         *)
Answer(s, answer) == /\ job.out[s] = "todo"
                     /\ job' = [job EXCEPT !.out[s] = answer]
                     /\ UNCHANGED shown

Answered == \A s \in Servers : job.out[s] # "todo"
AllSaid  == \A s \in Servers : job.out[s] \in {"ok", "absent"}
Verdict  == IF AllSaid THEN "synced"
            ELSE IF \E s \in Servers : job.out[s] = "ok" THEN "partial" ELSE "failed"

(* The row t takes these values, its name being that of no other; a row    *)
(* that is gone takes none.                                                *)
Becomes(t, n, c, p, sync) ==
    IF shown[t].st = "gone" THEN UNCHANGED shown
    ELSE /\ IsFree(n, t)
         /\ shown' = [shown EXCEPT ![t] = [st |-> "live", name |-> n, conf |-> c,
                                           psk |-> p, sync |-> sync]]

Either(pushed, held) == {pushed} \cup ({held} \ {None})

(* A push ends: each column is as pushed, or as it was.                    *)
EndPush ==
    /\ job.kind = "push" /\ Answered
    /\ \E n \in Either(job.name, shown[job.t].name), c \in Either(job.conf, shown[job.t].conf),
          p \in Either(job.psk, shown[job.t].psk) :
          Becomes(job.t, n, c, p, Verdict)
    /\ job' = NoJob

EndRemove ==
    /\ job.kind = "remove" /\ AllSaid
    /\ shown' = [shown EXCEPT ![job.t] = Hidden("gone")]
    /\ job' = NoJob

(* The switch is over, a delete was not confirmed, or the request died.    *)
GiveUp == /\ job.kind # "none"
          /\ job' = NoJob
          /\ UNCHANGED shown

(* A change that reached no server: the row says so, or keeps its status   *)
(* when the request had loaded it as failed before.                        *)
Unsynced(t, n, c, p) ==
    /\ job = NoJob
    /\ \/ Becomes(t, n, c, p, "failed")
       \/ shown[t].st = "live" /\ Becomes(t, n, c, p, shown[t].sync)
    /\ UNCHANGED job

Next == \/ \E t \in Tunnels :
              \/ \E n \in Names, c \in Confs, p \in Psks :
                    \/ \E servers \in (SUBSET Servers) \ {{}} : Push(t, n, c, p, servers)
                    \/ Unsynced(t, n, c, p)
              \/ \E servers \in (SUBSET Servers) \ {{}} : Remove(t, servers)
        \/ Switch
        \/ \E s \in Servers, answer \in {"ok", "failed"} : Answer(s, answer)
        \/ EndPush \/ EndRemove \/ GiveUp

Spec == Init /\ [][Next]_contract
=============================================================================
