---------------------------- MODULE MCTunnelSync ----------------------------
(* TunnelSync on small instances.  The requests are interchangeable; so    *)
(* are names, settings and keys, of which nothing but equality is used.    *)
EXTENDS TunnelSync, TLC

CONSTANTS r1, r2, s1, s2

TwoEngines == (s1 :> "stroke") @@ (s2 :> "swanctl")
OneStroke  == s1 :> "stroke"
OneAbsent  == (s1 :> "stroke") @@ (s2 :> None)

Alike == Permutations(Requests) \cup Permutations(Names) \cup Permutations(Confs)
             \cup Permutations(Psks) \cup Permutations(Tunnels)
=============================================================================
