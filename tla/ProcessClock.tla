---------------------------- MODULE ProcessClock ----------------------------
(***************************************************************************)
(* The clock of the API process, in ticks.  The caches of app/auth/oidc.py,*)
(* app/services/aws_session.py and app/services/aws_client.py compare it   *)
(* with the time an entry was taken; they share nothing else.              *)
(***************************************************************************)
EXTENDS Naturals

CONSTANTS
    MaxTime,    \* bound: ticks of one behaviour
    Life,       \* DurationSeconds of assumed AWS credentials
    Buffer,     \* _CREDENTIALS_REFRESH_BUFFER, _REFRESH_BUFFER_SECONDS
    Poll        \* bound: a command and its polls, 30 times 2 seconds in the code

ASSUME MaxTimeAssumption == MaxTime \in Nat
ASSUME LifeAssumption == /\ Life \in Nat /\ Buffer \in Nat /\ Poll \in Nat
                         /\ 2 * Poll <= Buffer /\ Buffer < Life

VARIABLE now

(* Time passes, unless something that takes a bounded time is due.         *)
Tick(due) == /\ now < MaxTime
             /\ ~due
             /\ now' = now + 1

(* The moments the caches reckon with; the last one never comes.           *)
Forever == MaxTime + Life + 1
Moments == 0..Forever
=============================================================================
