----------------------------- MODULE MCProcess ------------------------------
(* Process on a small instance.  The name of tunnel c1 is part of that of    *)
(* c2; threads, callers and services are interchangeable.                   *)
EXTENDS Process, TLC

CONSTANTS c1, c2

MCWithin == {<<c1, c2>>}

Alike == Permutations(Threads) \cup Permutations(Callers) \cup Permutations(Services)
=============================================================================
