----------------------------- MODULE MCRouteOps -----------------------------
(* RouteOps on small instances.  Routes ra and rb compete for one CIDR of a  *)
(* tunnel; rc has a CIDR and a tunnel of its own.                           *)
EXTENDS RouteOps, TLC

CONSTANTS ra, rb, rc, t1, t2, n1, n2

MCTunnelOf == [r \in Routes |-> IF r = rc THEN t2 ELSE t1]
MCCidrOf   == [r \in Routes |-> IF r = rc THEN n2 ELSE n1]

Alike == Permutations(Ops)
=============================================================================
