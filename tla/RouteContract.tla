--------------------------- MODULE RouteContract ---------------------------
(***************************************************************************)
(* What a client of the route API may rely on: the status of the           *)
(* operation it was told to poll (routers/operations.py) and the status    *)
(* the routes list shows.  An operation goes from pending through running  *)
(* to one final answer (or fails before it runs), that answer and the      *)
(* row's status change together,                                           *)
(* a route that is gone stays gone, and a restart answers everything that  *)
(* was in flight with a failure and leaves the answers given alone.        *)
(***************************************************************************)
CONSTANTS Ops, Routes, None

VARIABLES
    status,  \* of each operation; "none" before its request is accepted
    target,  \* the route of an accepted operation
    shown    \* what the routes list says of a route

contract == <<status, target, shown>>

InFlight == {"pending", "running"}

Init ==
    /\ status = [o \in Ops |-> "none"]
    /\ target = [o \in Ops |-> None]
    /\ shown  = [r \in Routes |-> "absent"]

(* A status meant for a route nobody sees is lost.                         *)
Show(r, s) == shown' = IF shown[r] \in {"absent", "gone"} THEN shown
                       ELSE [shown EXCEPT ![r] = s]

Request(o, r) == /\ status[o] = "none"
                 /\ status' = [status EXCEPT ![o] = "pending"]
                 /\ target' = [target EXCEPT ![o] = r]

Create(o, r) == /\ Request(o, r)
                /\ shown[r] = "absent"
                /\ shown' = [shown EXCEPT ![r] = "working"]

Delete(o, r) == /\ Request(o, r)
                /\ shown[r] # "absent"
                /\ shown' = [shown EXCEPT ![r] = "gone"]

Retry(o, r)  == /\ Request(o, r)
                /\ shown[r] # "absent"
                /\ Show(r, "working")

Move(o, from, to) == /\ status[o] = from
                     /\ status' = [status EXCEPT ![o] = to]
                     /\ UNCHANGED target

Begin(o)    == Move(o, "pending", "running") /\ UNCHANGED shown
Report(o)   == Move(o, "running", "running") /\ Show(target[o], "working")
Complete(o) == Move(o, "running", "completed") /\ Show(target[o], "synced")
Fail(o)     == \E from \in InFlight : Move(o, from, "failed") /\ Show(target[o], "failed")

(* The tunnel of the routes R is deleted.                                  *)
Close(R) == /\ \A r \in R : shown[r] # "absent"
            /\ shown' = [r \in Routes |-> IF r \in R THEN "gone" ELSE shown[r]]
            /\ UNCHANGED <<status, target>>

Interrupt == /\ status' = [o \in Ops |-> IF status[o] \in InFlight
                                         THEN "failed" ELSE status[o]]
             /\ UNCHANGED <<target, shown>>

Next == \/ \E o \in Ops : \/ \E r \in Routes : Create(o, r) \/ Delete(o, r) \/ Retry(o, r)
                          \/ Begin(o) \/ Report(o) \/ Complete(o) \/ Fail(o)
        \/ \E R \in SUBSET Routes : Close(R)
        \/ Interrupt

Spec == Init /\ [][Next]_contract
=============================================================================
