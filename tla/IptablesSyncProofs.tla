------------------------- MODULE IptablesSyncProofs -------------------------
(* What IptablesSync promises for every number of requests, rules, tunnels  *)
(* and specs.                                                               *)
EXTENDS IptablesSync, FiniteSetTheorems, TLAPS

Ops     == {"create", "update", "retry", "delete", "cascade"}
Writers == {"create", "update", "retry"}   \* those that add a rule

(* The steps a request of each kind goes through.                           *)
Ordered(q) ==
    /\ q.pc = "idle" <=> q = Idle
    /\ q # Idle => q.op \in Ops
    /\ q.op \in Writers => q.new \in Specs
    /\ q.pc = "add" => q.op \in Writers
    /\ q.pc = "remove" => q.op \notin {"create", "retry"}
    /\ q.pc = "fanout" => q.op = "cascade"
    /\ q.pc \in {"half", "commit"} => q.op # "cascade"
    /\ q.pc = "commit" /\ q.sync = "synced" => q.op \in Writers /\ ~q.bad
    /\ (q # Idle /\ q.op # "cascade") \/ q.pc = "remove" => q.rule \in Rules
    /\ q.op = "cascade" => q.tun \in Tunnels
    /\ q.pc \in {"idle", "loaded", "half"} => q.at = "primary" /\ ~q.bad

(* Types, and what TypeOK leaves out because it needs the order of steps.   *)
TypedInv ==
    /\ TypeOK
    /\ \A r \in Reqs : Ordered(req[r])
    /\ \A x \in Rules : Live(x) => rows[x].spec \in Specs
    /\ "cut" \notin seen => cut = {}

-----------------------------------------------------------------------------
(* The shape of the steps.                                                  *)

(* The resting values are of their types.                                   *)
LEMMA RestingRequest == Idle \in Request /\ Ordered(Idle) /\ Idle.pc = "idle" /\ Idle.op = "none"
                        /\ Idle.at = "primary" /\ ~Idle.bad
<1>1. NoLoad \in [Rules -> Specs \cup {None}]
  BY DEF NoLoad
<1>2. Idle \in Request
  BY <1>1 DEF Idle, Request, Instances, SyncValues
<1> QED
  BY <1>2 DEF Idle, Ordered, Writers, Inside, Commands

(* A request that begins is loaded and holds nothing, and what disturbs it  *)
(* is noted.                                                                *)
Starts(r, q) ==
    /\ req[r] = Idle
    /\ q \in Request /\ Ordered(q) /\ q.pc = "loaded" /\ q.op \in Ops
    /\ req' = [req EXCEPT ![r] = q]
    /\ begun < MaxRequests /\ begun' = begun + 1
    /\ seen \subseteq seen' /\ seen' \subseteq seen \cup Disturbances
    /\ Overlaps(q.op) \subseteq seen'
    /\ UNCHANGED <<rows, tunnels, hosts, lock, cut, late, reboots>>

(* Begin gives that shape to every well formed request.                     *)
LEMMA BeginStarts ==
    ASSUME NEW r, NEW q, NEW D \in SUBSET Disturbances, Begin(r, q, D),
           q \in Request, Ordered(q), q.pc = "loaded", q.op \in Ops
    PROVE  Starts(r, q) /\ D \subseteq seen'
<1>1. Overlaps(q.op) \subseteq Disturbances
  BY DEF Overlaps, Disturbances
<1> QED
  BY <1>1 DEF Begin, Disturb, Starts

(* What a request has loaded is what the table says.                        *)
Loads(q) ==
    /\ q.op \in {"update", "retry", "delete"} =>
         /\ Live(q.rule) /\ q.load[q.rule] = rows[q.rule].spec /\ q.was = rows[q.rule].sync
         /\ \A y \in Rules : y # q.rule => q.load[y] = None
    /\ q.op = "create" => ~Live(q.rule) /\ \A y \in Rules : q.load[y] = None
    /\ q.op = "cascade" =>
         /\ \A y \in Rules : q.load[y] # None => Live(y) /\ q.load[y] = rows[y].spec
         /\ \A y \in q.todo \cup {q.rule} : y = None \/ q.load[y] # None

(* The text a request writes is that of no other live rule.                 *)
Unshared(q) == q.op \in Writers => \A y \in Rules : y # q.rule /\ Live(y) => rows[y].spec # q.new

(* The requests on one rule load it.                                        *)
LEMMA LoadRuleShape ==
    ASSUME TypedInv, NEW op \in {"update", "retry", "delete"}, op \in Kinds, NEW x \in Rules, Live(x),
           NEW s \in Specs \cup {None}, op \in Writers => s \in Specs
    PROVE  LET q == LoadRule(op, x, s)
           IN  /\ q \in Request /\ Ordered(q) /\ q.pc = "loaded" /\ q.op = op
               /\ Loads(q) /\ q.rule = x /\ q.new = s
<1> DEFINE q == LoadRule(op, x, s)
           load == [NoLoad EXCEPT ![x] = rows[x].spec]
<1>1. rows[x].tun \in Tunnels \cup {None} /\ rows[x].spec \in Specs \cup {None} /\ rows[x].sync \in SyncValues
  BY DEF TypedInv, TypeOK
<1>2. /\ load \in [Rules -> Specs \cup {None}] /\ load[x] = rows[x].spec
      /\ \A y \in Rules : y # x => load[y] = None
  BY <1>1 DEF NoLoad
<1>3. Idle.load = NoLoad
  BY DEF Idle
<1> HIDE DEF load
<1>4. q = [Idle EXCEPT !.op = op, !.pc = "loaded", !.rule = x, !.tun = rows[x].tun, !.load = load,
                       !.was = rows[x].sync, !.new = s]
  BY <1>3 DEF LoadRule, load
<1>5. /\ q \in Request /\ q.op = op /\ q.pc = "loaded" /\ q.rule = x /\ q.new = s
      /\ q.at = "primary" /\ ~q.bad /\ q.load = load /\ q.was = rows[x].sync
  BY <1>1, <1>2, <1>4, RestingRequest DEF Request
<1>6. q # Idle
  BY <1>5, RestingRequest
<1> HIDE DEF q
<1>7. Ordered(q)
  BY <1>5, <1>6 DEF Ordered, Ops, Inside, Commands, Writers
<1>8. Loads(q)
  BY <1>2, <1>5 DEF Loads
<1> QED
  BY <1>5, <1>7, <1>8 DEF q

(* Every request begins in that shape.                                      *)
LEMMA RequestsStart ==
    ASSUME TypedInv, NEW r \in Reqs, Requests(r)
    PROVE  \E q : /\ Starts(r, q) /\ Loads(q)
                  /\ q.op \in {"create", "update"} /\ "shared" \notin seen' => Unshared(q)
                  /\ q.op = "retry" => q.new = q.load[q.rule] /\ q.was = "failed"
                  /\ q.op = "cascade" => q.rule = None /\ \A y \in Rules : q.load[y] # None => y \in q.todo
<1>0. \A x \in Rules, s \in Specs :
        /\ Shares(x, s) \in SUBSET Disturbances
        /\ "shared" \in Shares(x, s) \/ \A y \in Rules : y # x /\ Live(y) => rows[y].spec # s
  BY DEF Shares, Disturbances
<1>1. CASE \E x \in Rules, t \in Tunnels, s \in Specs : BeginCreate(r, x, t, s)
  <2>1. PICK x \in Rules, t \in Tunnels, s \in Specs : BeginCreate(r, x, t, s)
    BY <1>1
  <2> DEFINE q == [Idle EXCEPT !.op = "create", !.pc = "loaded", !.rule = x, !.tun = t, !.new = s]
  <2>2. /\ q.op = "create" /\ q.pc = "loaded" /\ q.new = s /\ q.rule = x /\ q.at = "primary" /\ ~q.bad
        /\ q.load = Idle.load
    BY RestingRequest DEF Request
  <2>3. Begin(r, q, Shares(x, s)) /\ ~Live(x)
    BY <2>1 DEF BeginCreate, Live, NoRow
  <2>4. "create" \in Kinds
    BY <2>2, <2>3 DEF Begin
  <2>5. q \in Request
    BY <2>4, RestingRequest DEF Request
  <2>6. Ordered(q)
    BY <2>2, RestingRequest DEF Ordered, Ops, Inside, Commands
  <2>7. Loads(q)
    BY <2>2, <2>3 DEF Loads, Idle, NoLoad
  <2> HIDE DEF q
  <2>8. Starts(r, q) /\ Shares(x, s) \subseteq seen'
    BY <1>0, <2>2, <2>3, <2>5, <2>6, BeginStarts DEF Ops
  <2> QED
    BY <1>0, <2>2, <2>7, <2>8 DEF Unshared
<1>2. CASE \E x \in Rules, s \in Specs : BeginUpdate(r, x, s)
  <2>1. PICK x \in Rules, s \in Specs : BeginUpdate(r, x, s)
    BY <1>2
  <2> DEFINE q == LoadRule("update", x, s)
  <2>2. Live(x) /\ Begin(r, q, Shares(x, s))
    BY <2>1 DEF BeginUpdate
  <2>3. "update" \in Kinds
    BY <2>2, RestingRequest DEF Begin, LoadRule, Request
  <2>4. q \in Request /\ Ordered(q) /\ q.pc = "loaded" /\ q.op = "update" /\ Loads(q) /\ q.rule = x /\ q.new = s
    BY <2>2, <2>3, LoadRuleShape
  <2> HIDE DEF q
  <2>5. Starts(r, q) /\ Shares(x, s) \subseteq seen'
    BY <1>0, <2>2, <2>4, BeginStarts DEF Ops
  <2> QED
    BY <1>0, <2>4, <2>5 DEF Unshared
<1>3. CASE \E x \in Rules : BeginRetry(r, x)
  <2>1. PICK x \in Rules : BeginRetry(r, x)
    BY <1>3
  <2> DEFINE q == LoadRule("retry", x, rows[x].spec)
  <2>2. Live(x) /\ Begin(r, q, {}) /\ rows[x].spec \in Specs /\ rows[x].sync = "failed"
    BY <2>1 DEF BeginRetry, TypedInv
  <2>3. "retry" \in Kinds
    BY <2>2, RestingRequest DEF Begin, LoadRule, Request
  <2>4. /\ q \in Request /\ Ordered(q) /\ q.pc = "loaded" /\ q.op = "retry"
        /\ Loads(q) /\ q.rule = x /\ q.new = rows[x].spec
    BY <2>2, <2>3, LoadRuleShape
  <2> HIDE DEF q
  <2>5. Starts(r, q)
    BY <2>2, <2>4, BeginStarts DEF Ops
  <2> QED
    BY <2>2, <2>4, <2>5 DEF Loads
<1>4. CASE \E x \in Rules : BeginDelete(r, x)
  <2>1. PICK x \in Rules : BeginDelete(r, x)
    BY <1>4
  <2> DEFINE q == LoadRule("delete", x, None)
  <2>2. Live(x) /\ Begin(r, q, {})
    BY <2>1 DEF BeginDelete
  <2>3. "delete" \in Kinds
    BY <2>2, RestingRequest DEF Begin, LoadRule, Request
  <2>4. q \in Request /\ Ordered(q) /\ q.pc = "loaded" /\ q.op = "delete" /\ Loads(q)
    BY <2>2, <2>3, LoadRuleShape DEF Writers
  <2> HIDE DEF q
  <2> QED
    BY <2>2, <2>4, BeginStarts DEF Ops
<1>5. CASE \E t \in Tunnels : BeginCascade(r, t)
  <2>1. PICK t \in Tunnels : BeginCascade(r, t)
    BY <1>5
  <2> DEFINE mine == {x \in Rules : Live(x) /\ rows[x].tun = t}
             all  == [x \in Rules |-> IF x \in mine THEN rows[x].spec ELSE None]
             q    == [Idle EXCEPT !.op = "cascade", !.pc = "loaded", !.tun = t, !.todo = mine, !.load = all]
  <2>2. Begin(r, q, {})
    BY <2>1 DEF BeginCascade
  <2>3. /\ all \in [Rules -> Specs \cup {None}] /\ mine \in SUBSET Rules
        /\ \A y \in Rules : all[y] # None => Live(y) /\ all[y] = rows[y].spec
        /\ \A y \in mine : all[y] # None
        /\ \A y \in Rules : all[y] # None => y \in mine
    BY NoneAssumption DEF TypedInv, TypeOK
  <2> HIDE DEF all, mine
  <2>4. /\ q.op = "cascade" /\ q.pc = "loaded" /\ q.tun = t /\ q.at = "primary" /\ ~q.bad
        /\ q.load = all /\ q.todo = mine /\ q.rule = Idle.rule
    BY RestingRequest DEF Request
  <2>5. "cascade" \in Kinds
    BY <2>2, <2>4 DEF Begin
  <2>6. q \in Request
    BY <2>3, <2>5, RestingRequest DEF Request
  <2>7. Ordered(q)
    BY <2>4, RestingRequest DEF Ordered, Ops, Writers, Inside, Commands
  <2>8. Idle.rule = None
    BY DEF Idle
  <2> HIDE DEF q
  <2>9. Loads(q)
    BY <2>3, <2>4, <2>8 DEF Loads
  <2> QED
    BY <2>2, <2>3, <2>4, <2>6, <2>7, <2>8, <2>9, BeginStarts DEF Ops
<1> QED
  BY <1>1, <1>2, <1>3, <1>4, <1>5 DEF Requests

-----------------------------------------------------------------------------
(* The answers.                                                             *)

(* What the rest of a request keeps.                                        *)
Follows(p, q) == /\ p \in Request /\ Ordered(p)
                 /\ p.op = q.op /\ p.new = q.new /\ p.load = q.load /\ p.tun = q.tun
                 /\ p.was = q.was /\ (q.op # "cascade" => p.rule = q.rule)
                 /\ p.todo \subseteq q.todo /\ p.rule \in q.todo \cup {q.rule, None}

(* A cascade goes on with another rule, or to the fan-out.                  *)
LEMMA NextRuleShape ==
    ASSUME NEW q \in Request, Ordered(q), q.op = "cascade", NEW x \in Turns(q)
    PROVE  LET p == NextRule(q, x)
           IN  Follows(p, q) /\ p.pc \in {"remove", "fanout"} /\ (~q.bad => ~p.bad)
<1> DEFINE p == NextRule(q, x)
<1>1. CASE q.todo = {}
  <2>1. p = [q EXCEPT !.pc = "fanout", !.rule = None]
    BY <1>1 DEF NextRule, Turns
  <2>2. /\ p \in Request /\ p.pc = "fanout" /\ p.bad = q.bad /\ p.was = q.was
        /\ p.rule = None /\ p.todo = q.todo
        /\ p.op = q.op /\ p.new = q.new /\ p.load = q.load /\ p.tun = q.tun
    BY <2>1 DEF Request, Inside
  <2> HIDE DEF p
  <2>3. Ordered(p)
    BY <2>2, RestingRequest DEF Ordered, Ops, Writers, Inside, Commands
  <2> QED
    BY <2>2, <2>3 DEF Follows, p
<1>2. CASE q.todo # {}
  <2>1. x \in q.todo /\ x \in Rules /\ x # None
    BY <1>2, NoneAssumption DEF Turns, Request
  <2>2. p = [q EXCEPT !.pc = "remove", !.at = "primary", !.rule = x, !.bad = FALSE, !.todo = q.todo \ {x}]
    BY <1>2, <2>1 DEF NextRule
  <2>3. x \in Rules /\ q.todo \ {x} \in SUBSET Rules
    BY <2>1 DEF Request
  <2>4. /\ p \in Request /\ p.pc = "remove" /\ p.bad = FALSE /\ p.was = q.was /\ p.rule \in Rules
        /\ p.rule \in q.todo /\ p.todo \subseteq q.todo
        /\ p.op = q.op /\ p.new = q.new /\ p.load = q.load /\ p.tun = q.tun
    BY <2>1, <2>2, <2>3 DEF Request, Inside, Commands, Instances
  <2> HIDE DEF p
  <2>5. Ordered(p)
    BY <2>4, RestingRequest DEF Ordered, Ops, Writers, Inside, Commands
  <2> QED
    BY <2>4, <2>5 DEF Follows, p
<1> QED
  BY <1>1, <1>2

(* After both instances.                                                    *)
LEMMA OnwardShape ==
    ASSUME NEW q \in Request, Ordered(q), q.pc \in Commands, NEW b \in BOOLEAN, NEW x \in Turns(q)
    PROVE  LET p == Onward(q, b, x)
           IN  /\ Follows(p, q)
               /\ p.pc \in Inside \ {"half"} /\ p.at \in Instances
               /\ p.pc = "add" => p.at = "primary" /\ q.pc = "remove"
               /\ p.pc = "save" => ~b /\ p.at = "primary" /\ q.pc # "save"
               /\ p.pc = "save" /\ q.op \in Writers => q.pc = "add"
               /\ p.pc = "commit" /\ p.sync = "synced" => ~b /\ q.pc = "save"
               /\ p.pc \in {"commit", "fanout"} /\ ~b => q.pc = "save"
               /\ ~b /\ ~q.bad => ~p.bad
<1> DEFINE p == Onward(q, b, x)
<1>1. CASE q.pc = "remove" /\ q.op = "update"
  <2>1. p = [q EXCEPT !.pc = "add", !.at = "primary", !.bad = FALSE]
    BY <1>1 DEF Onward
  <2>2. /\ p \in Request /\ p.pc = "add" /\ p.bad = FALSE /\ p.at = "primary" /\ p.was = q.was
        /\ p.op = q.op /\ p.new = q.new /\ p.load = q.load /\ p.tun = q.tun /\ p.rule = q.rule
        /\ p.todo = q.todo
    BY <2>1 DEF Request, Inside, Commands, Instances
  <2> HIDE DEF p
  <2>3. Ordered(p)
    BY <1>1, <2>2, RestingRequest DEF Ordered, Ops, Writers, Inside, Commands
  <2> QED
    BY <1>1, <2>2, <2>3 DEF Follows, p, Inside, Commands, Instances
<1>2. CASE ~(q.pc = "remove" /\ q.op = "update") /\ q.pc # "save" /\ ~b
  <2>1. p = [q EXCEPT !.pc = "save", !.at = "primary"]
    BY <1>2 DEF Onward
  <2>2. /\ p \in Request /\ p.pc = "save" /\ p.bad = q.bad /\ p.at = "primary" /\ p.was = q.was
        /\ p.op = q.op /\ p.new = q.new /\ p.load = q.load /\ p.tun = q.tun /\ p.rule = q.rule
        /\ p.todo = q.todo
    BY <2>1 DEF Request, Inside, Commands, Instances
  <2> HIDE DEF p
  <2>3. Ordered(p)
    BY <1>2, <2>2, RestingRequest DEF Ordered, Ops, Writers, Inside, Commands
  <2>4. q.op \in Writers => q.pc = "add"
    BY <1>2 DEF Ordered, Commands, Writers
  <2> QED
    BY <1>2, <2>2, <2>3, <2>4 DEF Follows, p, Inside, Commands, Instances
<1>3. CASE ~(q.pc = "remove" /\ q.op = "update") /\ (q.pc = "save" \/ b) /\ q.op = "cascade"
  <2>1. p = NextRule(q, x)
    BY <1>3 DEF Onward
  <2> HIDE DEF p
  <2>2. Follows(p, q) /\ p.pc \in {"remove", "fanout"} /\ (~q.bad => ~p.bad)
    BY <1>3, <2>1, NextRuleShape
  <2> QED
    BY <1>3, <2>2 DEF Follows, p, Inside, Commands, Request
<1>4. CASE ~(q.pc = "remove" /\ q.op = "update") /\ (q.pc = "save" \/ b) /\ q.op # "cascade"
  <2>1. p = [q EXCEPT !.pc = "commit", !.at = "primary", !.bad = b, !.sync = SyncOf(q, b)]
    BY <1>4 DEF Onward
  <2>2. SyncOf(q, b) \in {"pending_delete", "failed", "synced"}
    BY DEF SyncOf
  <2>3. /\ p \in Request /\ p.pc = "commit" /\ p.bad = b /\ p.at = "primary" /\ p.was = q.was
        /\ p.sync = SyncOf(q, b)
        /\ p.op = q.op /\ p.new = q.new /\ p.load = q.load /\ p.tun = q.tun /\ p.rule = q.rule
        /\ p.todo = q.todo
    BY <2>1, <2>2 DEF Request, Inside, Instances, SyncValues
  <2> HIDE DEF p
  <2>4. q.op \in Ops /\ (SyncOf(q, b) = "synced" => ~b /\ q.op # "delete")
    BY RestingRequest DEF Ordered, SyncOf, Commands
  <2>5. Ordered(p)
    BY <1>4, <2>3, <2>4, RestingRequest DEF Ordered, Ops, Writers, Inside, Commands
  <2> QED
    BY <1>4, <2>3, <2>4, <2>5 DEF Follows, p, Inside, Commands, Instances
<1> QED
  BY <1>1, <1>2, <1>3, <1>4

(* An answer of the primary turns to the secondary, one of the secondary    *)
(* goes on with the failures of both.                                       *)
LEMMA AnsweredShape ==
    ASSUME NEW q \in Request, Ordered(q), q.pc \in Commands, NEW ok \in BOOLEAN, NEW x \in Turns(q)
    PROVE  LET p == Answered(q, ok, x)
           IN  /\ Follows(p, q) /\ p.pc \in Inside \ {"half"}
               /\ q.at = "primary" => p.pc = q.pc /\ p.at = "secondary" /\ p.bad = ~ok
               /\ q.at # "primary" => q.at = "secondary" /\ p = Onward(q, q.bad \/ ~ok, x)
               /\ ok /\ ~q.bad => ~p.bad
<1> DEFINE p == Answered(q, ok, x)
<1>1. CASE q.at = "primary"
  <2>1. p = [q EXCEPT !.at = "secondary", !.bad = ~ok]
    BY <1>1 DEF Answered
  <2>2. /\ p \in Request /\ p.pc = q.pc /\ p.bad = ~ok /\ p.at = "secondary" /\ p.was = q.was
        /\ p.op = q.op /\ p.new = q.new /\ p.load = q.load /\ p.tun = q.tun /\ p.rule = q.rule
        /\ p.todo = q.todo
    BY <2>1 DEF Request, Instances
  <2> HIDE DEF p
  <2>3. Ordered(p)
    BY <2>2, RestingRequest DEF Ordered, Ops, Writers, Inside, Commands
  <2> QED
    BY <1>1, <2>2, <2>3 DEF Follows, p, Inside, Commands
<1>2. CASE q.at # "primary"
  <2>1. p = Onward(q, q.bad \/ ~ok, x) /\ q.at = "secondary" /\ (q.bad \/ ~ok) \in BOOLEAN
    BY <1>2 DEF Answered, Request, Instances
  <2> HIDE DEF p
  <2> QED
    BY <1>2, <2>1, OnwardShape DEF p
<1> QED
  BY <1>1, <1>2

-----------------------------------------------------------------------------
(* Types.                                                                   *)

(* A step that changes at most one request keeps the types of all of them.  *)
LEMMA OneRequest ==
    ASSUME TypedInv, NEW r \in Reqs, NEW p \in Request, Ordered(p), req' = [req EXCEPT ![r] = p]
    PROVE  /\ req' \in [Reqs -> Request] /\ \A a \in Reqs : Ordered(req'[a])
           /\ \A a \in Reqs : IF a = r THEN req'[a] = p ELSE req'[a] = req[a]
  BY DEF TypedInv, TypeOK

(* A step that leaves the table, the instances and the counters alone.      *)
LEMMA RequestStep ==
    ASSUME TypedInv, req' \in [Reqs -> Request], \A a \in Reqs : Ordered(req'[a]),
           lock' \in [Locks -> Reqs \cup {None}], seen \subseteq seen', seen' \subseteq Disturbances,
           begun' \in 0..MaxRequests, cut' \subseteq cut,
           UNCHANGED <<rows, tunnels, hosts, late, reboots>>
    PROVE  TypedInv'
  BY DEF TypedInv, TypeOK, Live, hosts

(* What a command does keeps the types of both instances.                   *)
LEMMA RunTyped ==
    ASSUME TypedInv, NEW c, NEW i \in Instances, NEW s, Run(c, i, s)
    PROVE  kernel' \in Counts /\ saved' \in Counts
<1>0. kernel \in Counts /\ saved \in Counts /\ kernel[i] \in [Specs -> Nat]
  BY DEF TypedInv, TypeOK, Counts
<1>4. ASSUME NEW v, s \in Specs => v \in Nat, kernel' = [kernel EXCEPT ![i][s] = v], saved' = saved
      PROVE  kernel' \in Counts /\ saved' \in Counts
  <2>1. PICK k : k = [kernel[i] EXCEPT ![s] = v]
    OBVIOUS
  <2>2. k \in [Specs -> Nat]
    BY <1>0, <1>4, <2>1
  <2>3. kernel' = [kernel EXCEPT ![i] = k]
    BY <1>4, <2>1
  <2> QED
    BY <1>0, <1>4, <2>2, <2>3 DEF Counts
<1>1. CASE kernel' = [kernel EXCEPT ![i][s] = Removed(kernel[i][s])] /\ saved' = saved
  <2>1. s \in Specs => Removed(kernel[i][s]) \in Nat
    BY <1>0 DEF Removed
  <2> QED
    BY <1>1, <1>4, <2>1
<1>2. CASE kernel' = [kernel EXCEPT ![i][s] = @ + 1] /\ saved' = saved
  <2>1. s \in Specs => kernel[i][s] + 1 \in Nat
    BY <1>0
  <2> QED
    BY <1>2, <1>4, <2>1
<1>3. CASE saved' = [saved EXCEPT ![i] = kernel[i]] /\ kernel' = kernel
  BY <1>0, <1>3 DEF Counts
<1> QED
  BY <1>1, <1>2, <1>3 DEF Run

(* The end of a request frees its locks and its slot.                       *)
LEMMA FreeTyped ==
    ASSUME TypedInv, NEW r \in Reqs, Free(r)
    PROVE  /\ req' \in [Reqs -> Request] /\ \A a \in Reqs : Ordered(req'[a])
           /\ \A a \in Reqs : IF a = r THEN req'[a] = Idle ELSE req'[a] = req[a]
           /\ lock' \in [Locks -> Reqs \cup {None}]
           /\ \A k \in Locks : IF lock[k] = r THEN lock'[k] = None ELSE lock'[k] = lock[k]
           /\ cut' = cut \ {r} /\ cut' \subseteq Reqs
<1>1. /\ req' = [req EXCEPT ![r] = Idle] /\ lock' = [k \in Locks |-> IF lock[k] = r THEN None ELSE lock[k]]
      /\ cut' = cut \ {r} /\ cut \subseteq Reqs
  BY DEF Free, Released, TypedInv, TypeOK
<1>2. lock \in [Locks -> Reqs \cup {None}]
  BY DEF TypedInv, TypeOK
<1> QED
  BY <1>1, <1>2, RestingRequest, OneRequest

(* A lock that is granted goes to the request that waits for it.            *)
Grants(r, k, p) ==
    /\ Follows(p, req[r]) /\ k \in Locks /\ lock[k] = None /\ r \notin cut
    /\ lock' = [lock EXCEPT ![k] = r] /\ req' = [req EXCEPT ![r] = p]
    /\ UNCHANGED <<rows, tunnels, hosts, cut, late, begun, reboots, seen>>

(* The first lock, and what comes after it.                                 *)
LEMMA TakeLockGrants ==
    ASSUME TypedInv, NEW r \in Reqs, TakeLock(r)
    PROVE  \E p : /\ Grants(r, LockOf(req[r]), p) /\ req[r].pc = "loaded"
                  /\ IF req[r].op = "cascade" THEN p.pc \in {"remove", "fanout"} ELSE p.pc = "half"
                  /\ ~req[r].bad => ~p.bad
<1>0. req[r] \in Request /\ Ordered(req[r]) /\ req[r].pc = "loaded"
  BY DEF TypedInv, TypeOK, TakeLock
<1>1. LockOf(req[r]) \in Locks
  BY DEF LockOf, Locks, Instances
<1>2. CASE req[r].op = "cascade"
  <2>0. PICK x \in Turns(req[r]) : req' = [req EXCEPT ![r] = NextRule(req[r], x)]
    BY <1>2 DEF TakeLock
  <2>1. PICK p : p = NextRule(req[r], x)
    OBVIOUS
  <2>2. Follows(p, req[r]) /\ p.pc \in {"remove", "fanout"} /\ (~req[r].bad => ~p.bad)
    BY <1>0, <1>2, <2>1, NextRuleShape
  <2>3. Grants(r, LockOf(req[r]), p)
    BY <1>1, <1>2, <2>0, <2>1, <2>2 DEF TakeLock, Grants
  <2> QED
    BY <1>0, <1>2, <2>2, <2>3
<1>3. CASE req[r].op # "cascade"
  <2>1. PICK p : p = [req[r] EXCEPT !.pc = "half"]
    OBVIOUS
  <2>2. /\ p \in Request /\ p.pc = "half" /\ p.bad = req[r].bad /\ p.was = req[r].was
        /\ p.op = req[r].op /\ p.new = req[r].new /\ p.load = req[r].load /\ p.tun = req[r].tun
        /\ p.rule = req[r].rule /\ p.at = req[r].at /\ p.todo = req[r].todo
    BY <1>0, <2>1 DEF Request, Inside
  <2>3. Ordered(p)
    BY <1>0, <1>3, <2>2, RestingRequest DEF Ordered, Ops, Writers, Inside, Commands
  <2>4. Grants(r, LockOf(req[r]), p)
    BY <1>1, <1>3, <2>1, <2>2, <2>3 DEF TakeLock, Grants, Follows
  <2> QED
    BY <1>0, <1>3, <2>2, <2>4
<1> QED
  BY <1>2, <1>3

(* The second lock of a rule request, and its first command.                *)
LEMMA TakeSecondaryGrants ==
    ASSUME TypedInv, NEW r \in Reqs, TakeSecondary(r)
    PROVE  \E p : /\ Grants(r, "secondary", p) /\ req[r].pc = "half" /\ req[r].op # "cascade"
                  /\ p.pc = FirstCommand(req[r].op) /\ p.pc \in {"remove", "add"}
                  /\ p.at = req[r].at /\ p.bad = req[r].bad
<1>0. req[r] \in Request /\ Ordered(req[r]) /\ req[r].pc = "half"
  BY DEF TypedInv, TypeOK, TakeSecondary
<1>1. PICK p : p = [req[r] EXCEPT !.pc = FirstCommand(req[r].op)]
  OBVIOUS
<1>2. /\ p \in Request /\ p.pc = FirstCommand(req[r].op) /\ p.bad = req[r].bad /\ p.was = req[r].was
      /\ p.op = req[r].op /\ p.new = req[r].new /\ p.load = req[r].load /\ p.tun = req[r].tun
      /\ p.rule = req[r].rule /\ p.at = req[r].at /\ p.todo = req[r].todo
  BY <1>0, <1>1 DEF Request, Inside, Commands, FirstCommand
<1>3. Ordered(p)
  BY <1>0, <1>2, RestingRequest DEF Ordered, Ops, Writers, Inside, Commands, FirstCommand
<1>4. Grants(r, "secondary", p)
  BY <1>1, <1>2, <1>3 DEF TakeSecondary, Grants, Follows, Locks, Instances
<1>5. req[r].op # "cascade" /\ p.pc \in {"remove", "add"}
  BY <1>0, <1>2 DEF Ordered, FirstCommand
<1> QED
  BY <1>0, <1>2, <1>4, <1>5

RowSet == [st : RowStates, tun : Tunnels \cup {None}, spec : Specs \cup {None}, sync : SyncValues]

(* What a request commits is a row, with a text as long as it is live.      *)
LEMMA WriteTyped ==
    ASSUME TypedInv, NEW r \in Reqs, req[r].pc = "commit"
    PROVE  /\ Write(req[r]) \in RowSet /\ req[r].rule \in Rules
           /\ Write(req[r]).st = "live" => Write(req[r]).spec \in Specs
           /\ req[r].op = "delete" => Write(req[r]).st = "deleted"
           /\ req[r].op = "create" => Write(req[r]) = [st |-> "live", tun |-> req[r].tun, spec |-> req[r].new,
                                                      sync |-> req[r].sync]
           /\ req[r].op \in {"update", "retry"} =>
                 LET row == rows[req[r].rule]
                 IN  /\ Write(req[r]).st = row.st
                     /\ Write(req[r]).spec = Put(row.spec, req[r].load[req[r].rule], req[r].new)
                     /\ Write(req[r]).sync = Put(row.sync, req[r].was, req[r].sync)
<1> DEFINE q == req[r]
           x == q.rule
<1>0. /\ q \in Request /\ Ordered(q) /\ q.op \in Ops /\ q.op # "cascade" /\ x \in Rules
      /\ q # Idle
  BY RestingRequest DEF TypedInv, TypeOK, Ordered
<1>1. rows[x] \in RowSet /\ (rows[x].st = "live" => rows[x].spec \in Specs)
  BY <1>0 DEF TypedInv, TypeOK, RowSet, Live
<1>2. q.tun \in Tunnels \cup {None} /\ q.new \in Specs \cup {None} /\ q.sync \in SyncValues
  BY <1>0 DEF Request
<1> HIDE DEF q, x
<1>3. CASE q.op = "create"
  BY <1>0, <1>2, <1>3 DEF Write, RowSet, RowStates, Ordered, Writers, q, x
<1>4. CASE q.op = "delete"
  <2>1. Write(q) = [rows[x] EXCEPT !.st = "deleted", !.sync = Put(rows[x].sync, q.was, q.sync)]
    BY <1>4 DEF Write, x
  <2>2. Put(rows[x].sync, q.was, q.sync) \in SyncValues
    BY <1>1, <1>2 DEF Put, RowSet
  <2> QED
    BY <1>0, <1>1, <1>4, <2>1, <2>2 DEF RowSet, RowStates, q, x
<1>5. CASE q.op \in {"update", "retry"}
  <2> DEFINE spec == Put(rows[x].spec, q.load[x], q.new)
             sync == Put(rows[x].sync, q.was, q.sync)
  <2>1. Write(q) = [rows[x] EXCEPT !.spec = spec, !.sync = sync]
    BY <1>5 DEF Write, x
  <2>2. sync \in SyncValues /\ spec \in Specs \cup {None} /\ (rows[x].st = "live" => spec \in Specs)
    BY <1>0, <1>1, <1>2, <1>5 DEF Put, RowSet, Ordered, Writers
  <2> HIDE DEF spec, sync
  <2>3. /\ Write(q) \in RowSet /\ Write(q).st = rows[x].st /\ Write(q).spec = spec /\ Write(q).sync = sync
    BY <1>1, <2>1, <2>2 DEF RowSet
  <2> QED
    BY <1>0, <1>5, <2>2, <2>3 DEF q, x, spec, sync
<1> QED
  BY <1>0, <1>3, <1>4, <1>5 DEF Ops, q

(* The disturbances noted by a step are known ones.                         *)
LEMMA DisturbTyped ==
    ASSUME TypedInv, NEW D \in SUBSET Disturbances, Disturb(D)
    PROVE  seen \subseteq seen' /\ seen' \subseteq Disturbances /\ D \subseteq seen'
  BY DEF Disturb, TypedInv, TypeOK

(* A request that ends without a commit: its slot and its locks are free.   *)
Leaves(r) == \/ LockDenied(r) \/ CreateRefused(r) \/ UpdateRefused(r) \/ CascadeFails(r) \/ Crash(r)
             \/ CutEnds(r)

(* So does it whatever ends it.                                             *)
LEMMA LeavesShape ==
    ASSUME TypedInv, NEW r \in Reqs, Leaves(r)
    PROVE  /\ Rollback(r) /\ req[r] # Idle
           /\ seen \subseteq seen' /\ seen' \subseteq Disturbances
           /\ req[r].pc \in Commands => "crash" \in seen'
           /\ req[r].pc = "commit" => seen' \cap {"crash", "cut", "index"} # {}
           /\ req[r].pc = "fanout" => seen' \cap {"crash", "cut", "fanout"} # {}
<1>1. {"crash"} \in SUBSET Disturbances /\ {"index"} \in SUBSET Disturbances /\ {"fanout"} \in SUBSET Disturbances
  BY DEF Disturbances
<1>2. seen \subseteq Disturbances
  BY DEF TypedInv, TypeOK
<1>3. CASE LockDenied(r) \/ CreateRefused(r)
  BY <1>2, <1>3, RestingRequest DEF LockDenied, CreateRefused, Commands
<1>4. CASE UpdateRefused(r)
  BY <1>1, <1>4, DisturbTyped, RestingRequest DEF UpdateRefused, Commands
<1>5. CASE CascadeFails(r)
  BY <1>1, <1>5, DisturbTyped, RestingRequest DEF CascadeFails, Commands
<1>6. CASE Crash(r)
  BY <1>1, <1>6, DisturbTyped, RestingRequest DEF Crash
<1>7. CASE CutEnds(r)
  BY <1>2, <1>7, RestingRequest DEF CutEnds, Commands, TypedInv
<1> QED
  BY <1>3, <1>4, <1>5, <1>6, <1>7 DEF Leaves

(* A lost connection frees locks, moves no request and is noted.            *)
LEMMA DisconnectShape ==
    ASSUME TypedInv, NEW r \in Reqs, Disconnect(r)
    PROVE  /\ UNCHANGED <<rows, tunnels, kernel, saved, req, late, begun, reboots>>
           /\ cut' = cut \cup {r} /\ cut' \subseteq Reqs
           /\ lock' \in [Locks -> Reqs \cup {None}]
           /\ \A k \in Locks : IF lock[k] = r THEN lock'[k] = None ELSE lock'[k] = lock[k]
           /\ seen \subseteq seen' /\ seen' \subseteq Disturbances /\ "cut" \in seen'
<1>1. {"cut"} \in SUBSET Disturbances
  BY DEF Disturbances
<1>2. Disturb({"cut"}) /\ lock' = Released(r) /\ cut' = cut \cup {r}
      /\ UNCHANGED <<rows, tunnels, kernel, saved, req, late, begun, reboots>>
  BY DEF Disconnect, hosts
<1>3. lock \in [Locks -> Reqs \cup {None}] /\ cut \subseteq Reqs
  BY DEF TypedInv, TypeOK
<1>4. seen \subseteq seen' /\ seen' \subseteq Disturbances /\ "cut" \in seen'
  BY <1>1, <1>2, DisturbTyped
<1>5. /\ lock' \in [Locks -> Reqs \cup {None}]
      /\ \A k \in Locks : IF lock[k] = r THEN lock'[k] = None ELSE lock'[k] = lock[k]
  BY <1>2, <1>3 DEF Released
<1> QED
  BY <1>2, <1>3, <1>4, <1>5

(* A command that was answered, with or without success.                    *)
Returns(r) == CommandDone(r) \/ CommandRefused(r) \/ CommandLost(r) \/ CommandLate(r)

(* What an answer leaves of the failures and of the instances.              *)
LEMMA ReturnsShape ==
    ASSUME TypedInv, NEW r \in Reqs, Returns(r)
    PROVE  /\ req[r].pc \in Commands /\ UNCHANGED <<rows, tunnels, lock, cut, begun, reboots>>
           /\ seen \subseteq seen' /\ seen' \subseteq Disturbances
           /\ UNCHANGED hosts \/ Run(req[r].pc, req[r].at, TextOf(req[r]))
           /\ late' = late \/ "late" \in seen'
           /\ late' \subseteq [cmd : Commands, at : Instances, text : Specs \cup {None}]
           /\ \E ok \in BOOLEAN, x \in Turns(req[r]) :
                 /\ req' = [req EXCEPT ![r] = Answered(req[r], ok, x)]
                 /\ ok => Run(req[r].pc, req[r].at, TextOf(req[r]))
                 /\ ~ok => seen' \cap {"refused", "lost", "late"} # {}
<1>0. req[r] \in Request /\ Ordered(req[r]) /\ seen \subseteq Disturbances
      /\ late \subseteq [cmd : Commands, at : Instances, text : Specs \cup {None}]
  BY DEF TypedInv, TypeOK
<1>1. {"refused"} \in SUBSET Disturbances /\ {"lost"} \in SUBSET Disturbances /\ {"lost", "late"} \in SUBSET Disturbances
  BY DEF Disturbances
<1>2. CASE CommandDone(r)
  BY <1>0, <1>2 DEF CommandDone, Answer
<1>3. CASE CommandRefused(r)
  BY <1>0, <1>1, <1>3, DisturbTyped DEF CommandRefused, Answer
<1>4. CASE CommandLost(r)
  BY <1>0, <1>1, <1>4, DisturbTyped DEF CommandLost, Answer
<1>5. CASE CommandLate(r)
  <2>1. PICK c : c = [cmd |-> req[r].pc, at |-> req[r].at, text |-> TextOf(req[r])]
    OBVIOUS
  <2>2. /\ late' = late \cup {c} /\ Answer(r, FALSE) /\ Disturb({"lost", "late"}) /\ UNCHANGED hosts
    BY <1>5, <2>1 DEF CommandLate
  <2>3. TextOf(req[r]) \in Specs \cup {None}
    <3>1. req[r].pc = "remove" => req[r].rule \in Rules
      BY <1>0 DEF Ordered
    <3> QED
      BY <1>0, <3>1 DEF TextOf, Request
  <2>4. c \in [cmd : Commands, at : Instances, text : Specs \cup {None}]
    BY <1>0, <2>1, <2>2, <2>3 DEF Answer, Request
  <2> QED
    BY <1>0, <1>1, <2>2, <2>4, DisturbTyped DEF Answer
<1> QED
  BY <1>2, <1>3, <1>4, <1>5 DEF Returns

(* Every step keeps the types.                                              *)
LEMMA TypedStep == ASSUME TypedInv, Next PROVE TypedInv'
<1>0. /\ lock \in [Locks -> Reqs \cup {None}] /\ begun \in 0..MaxRequests /\ seen \subseteq Disturbances
      /\ rows \in [Rules -> RowSet]
  BY DEF TypedInv, TypeOK, RowSet
<1>1. ASSUME NEW r \in Reqs, Requests(r) PROVE TypedInv'
  <2>1. PICK q : Starts(r, q)
    BY <1>1, RequestsStart
  <2>2. begun' \in 0..MaxRequests
    BY <1>0, <2>1, BoundAssumption DEF Starts
  <2>3. req' \in [Reqs -> Request] /\ \A a \in Reqs : Ordered(req'[a])
    BY <2>1, OneRequest DEF Starts
  <2> QED
    BY <1>0, <2>1, <2>2, <2>3, RequestStep DEF Starts
<1>2. ASSUME NEW r \in Reqs, NEW p, NEW k, Grants(r, k, p) PROVE TypedInv'
  <2>1. req' \in [Reqs -> Request] /\ \A a \in Reqs : Ordered(req'[a])
    BY <1>2, OneRequest DEF Grants, Follows
  <2>2. lock' \in [Locks -> Reqs \cup {None}]
    BY <1>0, <1>2 DEF Grants
  <2> QED
    BY <1>0, <1>2, <2>1, <2>2, RequestStep DEF Grants
<1>3. ASSUME NEW r \in Reqs, Leaves(r) PROVE TypedInv'
  BY <1>0, <1>3, LeavesShape, FreeTyped, RequestStep DEF Rollback
<1>4. ASSUME NEW r \in Reqs, Returns(r) PROVE TypedInv'
  <2>1. PICK ok \in BOOLEAN, x \in Turns(req[r]) : req' = [req EXCEPT ![r] = Answered(req[r], ok, x)]
    BY <1>4, ReturnsShape
  <2>2. req[r] \in Request /\ Ordered(req[r]) /\ req[r].pc \in Commands
    BY <1>4, ReturnsShape DEF TypedInv, TypeOK
  <2>3. Answered(req[r], ok, x) \in Request /\ Ordered(Answered(req[r], ok, x))
    BY <2>2, AnsweredShape DEF Follows
  <2>4. req' \in [Reqs -> Request] /\ \A a \in Reqs : Ordered(req'[a])
    BY <2>1, <2>3, OneRequest
  <2>5. kernel' \in Counts /\ saved' \in Counts
    <3>1. req[r].at \in Instances
      BY <2>2 DEF Request
    <3>2. CASE UNCHANGED hosts
      BY <3>2 DEF hosts, TypedInv, TypeOK
    <3>3. CASE Run(req[r].pc, req[r].at, TextOf(req[r]))
      BY <3>1, <3>3, RunTyped
    <3> QED
      BY <1>4, <3>2, <3>3, ReturnsShape
  <2>6. /\ UNCHANGED <<rows, tunnels, lock, cut, begun, reboots>>
        /\ seen \subseteq seen' /\ seen' \subseteq Disturbances
        /\ late' \subseteq [cmd : Commands, at : Instances, text : Specs \cup {None}]
    BY <1>4, ReturnsShape
  <2> QED
    BY <2>4, <2>5, <2>6 DEF TypedInv, TypeOK, Live
<1>5. ASSUME NEW r \in Reqs, Commit(r) PROVE TypedInv'
  <2>1. PICK w : w = Write(req[r])
    OBVIOUS
  <2>2. w \in RowSet /\ (w.st = "live" => w.spec \in Specs) /\ req[r].rule \in Rules
    BY <1>5, <2>1, WriteTyped DEF Commit
  <2>3. rows' = [rows EXCEPT ![req[r].rule] = w] /\ Free(r) /\ UNCHANGED <<tunnels, hosts, late, begun, reboots, seen>>
    BY <1>5, <2>1 DEF Commit
  <2>4. rows' \in [Rules -> RowSet] /\ \A x \in Rules : rows'[x] = w \/ rows'[x] = rows[x]
    BY <1>0, <2>2, <2>3
  <2>5. \A x \in Rules : Live(x)' => rows'[x].spec \in Specs
    BY <2>2, <2>4 DEF Live, TypedInv
  <2> QED
    BY <2>3, <2>4, <2>5, FreeTyped DEF TypedInv, TypeOK, RowSet, hosts
<1>6. ASSUME NEW r \in Reqs, CommitCascade(r) PROVE TypedInv'
  <2>1. /\ rows' = [x \in Rules |-> IF req[r].load[x] = None THEN rows[x]
                                     ELSE [rows[x] EXCEPT !.st = "deleted", !.sync = "pending_delete"]]
        /\ tunnels' = tunnels \ {req[r].tun} /\ Free(r) /\ UNCHANGED <<hosts, late, begun, reboots, seen>>
    BY <1>6 DEF CommitCascade
  <2>2. \A x \in Rules : /\ [rows[x] EXCEPT !.st = "deleted", !.sync = "pending_delete"] \in RowSet
                          /\ [rows[x] EXCEPT !.st = "deleted", !.sync = "pending_delete"].st = "deleted"
    BY <1>0 DEF RowSet, RowStates, SyncValues
  <2>3. rows' \in [Rules -> RowSet] /\ \A x \in Rules : rows'[x] = rows[x] \/ rows'[x].st = "deleted"
    BY <1>0, <2>1, <2>2
  <2>4. \A x \in Rules : Live(x)' => rows'[x].spec \in Specs
    BY <2>3 DEF Live, TypedInv
  <2> QED
    BY <2>1, <2>3, <2>4, FreeTyped DEF TypedInv, TypeOK, RowSet, hosts
<1>7. ASSUME NEW c \in late, LateRuns(c) PROVE TypedInv'
  <2>1. c.at \in Instances
    BY DEF TypedInv, TypeOK
  <2>2. /\ Run(c.cmd, c.at, c.text) /\ late' = late \ {c}
        /\ UNCHANGED <<rows, tunnels, lock, req, cut, begun, reboots, seen>>
    BY <1>7 DEF LateRuns
  <2>3. kernel' \in Counts /\ saved' \in Counts
    BY <2>1, <2>2, RunTyped
  <2> QED
    BY <2>2, <2>3 DEF TypedInv, TypeOK, Live
<1>8. ASSUME NEW i \in Instances, Reboot(i) PROVE TypedInv'
  <2>1. reboots' \in 0..MaxReboots
    BY <1>8, BoundAssumption DEF Reboot, TypedInv, TypeOK
  <2>2. kernel' \in Counts
    BY <1>8 DEF Reboot, TypedInv, TypeOK, Counts
  <2>3. seen \subseteq seen' /\ seen' \subseteq Disturbances
    BY <1>8, <1>0 DEF Reboot, Disturb, Disturbances
  <2> QED
    BY <1>8, <2>1, <2>2, <2>3 DEF Reboot, TypedInv, TypeOK, Live
<1>9. ASSUME NEW r \in Reqs, Disconnect(r) PROVE TypedInv'
  BY <1>0, <1>9, DisconnectShape DEF TypedInv, TypeOK, Live
<1>10. ASSUME NEW r \in Reqs, Steps(r) PROVE TypedInv'
  BY <1>2, <1>3, <1>4, <1>5, <1>6, <1>9, <1>10, TakeLockGrants, TakeSecondaryGrants DEF Steps, Leaves, Returns
<1> QED
  BY <1>1, <1>7, <1>8, <1>10 DEF Next

(* The initial state is typed.                                              *)
LEMMA TypedInit == Init => TypedInv
<1> SUFFICES ASSUME Init PROVE TypedInv
  OBVIOUS
<1>1. rows \in [Rules -> RowSet] /\ \A x \in Rules : ~Live(x)
  BY DEF Init, NoRow, RowSet, RowStates, SyncValues, Live
<1>2. kernel \in Counts /\ saved \in Counts
  BY DEF Init, Counts
<1>3. req \in [Reqs -> Request] /\ \A r \in Reqs : Ordered(req[r])
  BY RestingRequest DEF Init
<1>4. begun \in 0..MaxRequests /\ reboots \in 0..MaxReboots
  BY BoundAssumption DEF Init
<1> QED
  BY <1>1, <1>2, <1>3, <1>4 DEF Init, TypedInv, TypeOK, RowSet

(* The types are an invariant.                                              *)
LEMMA TypedInvariant == Spec => []TypedInv
<1>1. TypedInv /\ [Next]_vars => TypedInv'
  <2> SUFFICES ASSUME TypedInv, [Next]_vars PROVE TypedInv'
    OBVIOUS
  <2>1. CASE UNCHANGED vars
    BY <2>1 DEF vars, hosts, TypedInv, TypeOK, Live
  <2> QED
    BY <2>1, TypedStep
<1> QED
  BY <1>1, TypedInit, PTL DEF Spec

(* Every variable keeps its type, and no instance has fewer than no copies  *)
(* of a rule (iptables_service.py).                                         *)
THEOREM Typed == Spec => []TypeOK
  BY TypedInvariant, PTL DEF TypedInv

-----------------------------------------------------------------------------
(* The locks.                                                               *)

(* A request at work on the instances holds its first lock.                 *)
LockInv == \A r \in Reqs \ cut : req[r].pc \in Inside => lock[LockOf(req[r])] = r

(* What a step does to requests and locks.                                  *)
Moved(r, p) == /\ Follows(p, req[r]) /\ req[r].pc \in Inside
               /\ \A a \in Reqs : IF a = r THEN req'[a] = p ELSE req'[a] = req[a]

(* An answer moves one request and no lock.                                 *)
LEMMA ReturnsMove ==
    ASSUME TypedInv, NEW r \in Reqs, Returns(r)
    PROVE  lock' = lock /\ cut' = cut /\ \E p : Moved(r, p)
<1>1. PICK ok \in BOOLEAN, x \in Turns(req[r]) : req' = [req EXCEPT ![r] = Answered(req[r], ok, x)]
  BY ReturnsShape
<1>2. req[r] \in Request /\ Ordered(req[r]) /\ req[r].pc \in Commands /\ lock' = lock /\ cut' = cut
  BY ReturnsShape DEF TypedInv, TypeOK
<1>3. PICK p : p = Answered(req[r], ok, x)
  OBVIOUS
<1>4. Follows(p, req[r])
  BY <1>2, <1>3, AnsweredShape
<1>5. \A a \in Reqs : IF a = r THEN req'[a] = p ELSE req'[a] = req[a]
  BY <1>1, <1>3, <1>4, OneRequest DEF Follows
<1> QED
  BY <1>2, <1>4, <1>5 DEF Moved, Inside

(* A request that ends leaves the others their locks.                       *)
LEMMA FreeLocks == ASSUME TypedInv, LockInv, NEW r \in Reqs, Free(r) PROVE LockInv'
<1> SUFFICES ASSUME NEW a \in Reqs, a \notin cut', req'[a].pc \in Inside PROVE lock'[LockOf(req'[a])] = a
  BY DEF LockInv, LockOf
<1>1. a # r /\ req'[a] = req[a] /\ a \notin cut
  BY FreeTyped, RestingRequest DEF Inside, Commands
<1>2. lock[LockOf(req[a])] = a /\ LockOf(req[a]) \in Locks
  BY <1>1 DEF LockInv, LockOf, Locks, Instances
<1> QED
  BY <1>1, <1>2, FreeTyped

(* A lock is granted to nobody's loss.                                      *)
LEMMA GrantLocks ==
    ASSUME TypedInv, LockInv, NEW r \in Reqs, NEW k, NEW p, Grants(r, k, p),
           req[r].pc = "loaded" => k = LockOf(req[r]), req[r].pc \in Inside \cup {"loaded"}
    PROVE  LockInv'
<1> SUFFICES ASSUME NEW a \in Reqs \ cut, req'[a].pc \in Inside PROVE lock'[LockOf(req'[a])] = a
  BY DEF LockInv, LockOf, Grants
<1>1. /\ IF a = r THEN req'[a] = p ELSE req'[a] = req[a]
      /\ k \in Locks /\ lock[k] = None /\ lock' = [lock EXCEPT ![k] = r] /\ lock \in [Locks -> Reqs \cup {None}]
  BY OneRequest DEF Grants, Follows, TypedInv, TypeOK
<1>2. a # None /\ r # None
  BY NoneAssumption
<1>3. CASE a # r
  <2>1. lock[LockOf(req[a])] = a /\ LockOf(req[a]) \in Locks
    BY <1>1, <1>3 DEF LockInv, LockOf, Locks, Instances
  <2> QED
    BY <1>1, <1>2, <1>3, <2>1
<1>4. CASE a = r
  <2>1. LockOf(req'[a]) = LockOf(req[r]) /\ LockOf(req[r]) \in Locks
    BY <1>1, <1>4 DEF Grants, Follows, LockOf, Locks, Instances
  <2>2. k = LockOf(req[r]) \/ lock[LockOf(req[r])] = r
    BY DEF LockInv, Grants
  <2> QED
    BY <1>1, <1>2, <1>4, <2>1, <2>2
<1> QED
  BY <1>3, <1>4

(* Every step keeps the locks.                                              *)
LEMMA LockStep == ASSUME TypedInv, LockInv, Next PROVE LockInv'
<1>1. ASSUME NEW r \in Reqs, Requests(r) PROVE LockInv'
  <2>1. PICK q : Starts(r, q)
    BY <1>1, RequestsStart
  <2>2. \A a \in Reqs : IF a = r THEN req'[a] = q ELSE req'[a] = req[a]
    BY <2>1, OneRequest DEF Starts
  <2> QED
    BY <2>1, <2>2 DEF Starts, LockInv, LockOf, Inside, Commands
<1>2. ASSUME NEW r \in Reqs, TakeLock(r) PROVE LockInv'
  BY <1>2, TakeLockGrants, GrantLocks
<1>3. ASSUME NEW r \in Reqs, TakeSecondary(r) PROVE LockInv'
  BY <1>3, TakeSecondaryGrants, GrantLocks DEF Inside
<1>4. ASSUME NEW r \in Reqs, Leaves(r) \/ Commit(r) \/ CommitCascade(r) PROVE LockInv'
  BY <1>4, LeavesShape, FreeLocks DEF Rollback, Commit, CommitCascade
<1>5. ASSUME NEW r \in Reqs, Returns(r) PROVE LockInv'
  <2>1. PICK p : Moved(r, p)
    BY <1>5, ReturnsMove
  <2>2. lock' = lock /\ cut' = cut
    BY <1>5, ReturnsMove
  <2> QED
    BY <2>1, <2>2 DEF Moved, Follows, LockInv, LockOf
<1>6. ASSUME UNCHANGED <<req, cut, lock>> PROVE LockInv'
  BY <1>6 DEF LockInv, LockOf
<1>7. ASSUME NEW r \in Reqs, Disconnect(r) PROVE LockInv'
  <2> SUFFICES ASSUME NEW a \in Reqs, a \notin cut', req'[a].pc \in Inside PROVE lock'[LockOf(req'[a])] = a
    BY DEF LockInv, LockOf
  <2>1. a # r /\ req'[a] = req[a] /\ a \notin cut
    BY <1>7, DisconnectShape
  <2>2. lock[LockOf(req[a])] = a /\ LockOf(req[a]) \in Locks
    BY <2>1 DEF LockInv, LockOf, Locks, Instances
  <2> QED
    BY <1>7, <2>1, <2>2, DisconnectShape
<1>8. ASSUME NEW r \in Reqs, Steps(r) PROVE LockInv'
  BY <1>2, <1>3, <1>4, <1>5, <1>7, <1>8 DEF Steps, Leaves, Returns
<1> QED
  BY <1>1, <1>6, <1>8 DEF Next, LateRuns, Reboot

(* The locks are an invariant.                                              *)
LEMMA LockInvariant == Spec => []LockInv
<1>1. Init => LockInv
  BY RestingRequest DEF Init, LockInv, Inside, Commands
<1>2. TypedInv /\ LockInv /\ [Next]_vars => LockInv'
  <2> SUFFICES ASSUME TypedInv, LockInv, [Next]_vars PROVE LockInv'
    OBVIOUS
  <2>1. CASE UNCHANGED vars
    BY <2>1 DEF vars, LockInv, LockOf
  <2> QED
    BY <2>1, LockStep
<1> QED
  BY <1>1, <1>2, TypedInvariant, PTL DEF Spec

(* No two rule requests, nor two cascades, are at work on the instances at  *)
(* a time, for any number of them (require_lock).                           *)
THEOREM OneWriter == Spec => []OneRuleWriter
<1>1. LockInv => OneRuleWriter
  BY DEF LockInv, OneRuleWriter
<1> QED
  BY <1>1, LockInvariant, PTL

-----------------------------------------------------------------------------
(* Disturbances are remembered.                                             *)

Apart == /\ "late" \notin seen => late = {}
         /\ "sweep" \notin seen => \A a, b \in Reqs : req[a].op = "cascade" /\ req[b] # Idle => a = b

(* A step that starts nothing keeps cascades apart.                         *)
LEMMA ApartKept ==
    ASSUME TypedInv, Apart, seen \subseteq seen', late' = {} \/ late' = late \/ "late" \in seen',
           \A a \in Reqs : req'[a] = Idle \/ (req'[a].op = req[a].op /\ req[a] # Idle) \/ req'[a] = req[a]
    PROVE  Apart'
  BY RestingRequest DEF Apart

(* Every step keeps them apart.                                             *)
LEMMA ApartStep == ASSUME TypedInv, Apart, Next PROVE Apart'
<1>1. ASSUME NEW r \in Reqs, Requests(r) PROVE Apart'
  <2>1. PICK q : Starts(r, q)
    BY <1>1, RequestsStart
  <2>2. \A a \in Reqs : IF a = r THEN req'[a] = q ELSE req'[a] = req[a]
    BY <2>1, OneRequest DEF Starts
  <2>3. seen \subseteq seen' /\ Overlaps(q.op) \subseteq seen' /\ late' = late
    BY <2>1 DEF Starts
  <2>4. ASSUME "sweep" \notin seen', NEW a \in Reqs, NEW b \in Reqs, req'[a].op = "cascade", req'[b] # Idle
        PROVE  a = b
    <3>1. Busy = {} \/ (q.op # "cascade" /\ \A c \in Busy : req[c].op # "cascade")
      BY <2>3, <2>4 DEF Overlaps
    <3>2. "sweep" \notin seen
      BY <2>3, <2>4
    <3> QED
      BY <3>1, <3>2, <2>2, <2>4, RestingRequest DEF Busy, Apart
  <2> QED
    BY <2>3, <2>4 DEF Apart
<1>2. ASSUME NEW r \in Reqs, TakeLock(r) \/ TakeSecondary(r) PROVE Apart'
  <2>1. PICK p, k : Grants(r, k, p) /\ req[r].pc \in {"loaded", "half"}
    BY <1>2, TakeLockGrants, TakeSecondaryGrants
  <2>2. \A a \in Reqs : IF a = r THEN req'[a] = p ELSE req'[a] = req[a]
    BY <2>1, OneRequest DEF Grants, Follows
  <2> QED
    BY <2>1, <2>2, ApartKept, RestingRequest DEF Grants, Follows
<1>3. ASSUME NEW r \in Reqs, Leaves(r) \/ Commit(r) \/ CommitCascade(r) PROVE Apart'
  <2>1. Free(r) /\ late' = late /\ seen \subseteq seen'
    BY <1>3, LeavesShape DEF Rollback, Commit, CommitCascade
  <2> QED
    BY <2>1, FreeTyped, ApartKept
<1>4. ASSUME NEW r \in Reqs, Returns(r) PROVE Apart'
  <2>1. PICK p : Moved(r, p)
    BY <1>4, ReturnsMove
  <2>2. \A a \in Reqs : (req'[a].op = req[a].op /\ req[a] # Idle) \/ req'[a] = req[a]
    BY <2>1, RestingRequest DEF Moved, Follows, Inside, Commands
  <2>3. seen \subseteq seen' /\ (late' = late \/ "late" \in seen')
    BY <1>4, ReturnsShape
  <2> QED
    BY <2>2, <2>3, ApartKept
<1>5. ASSUME NEW c \in late, LateRuns(c) PROVE Apart'
  BY <1>5, ApartKept DEF LateRuns, Apart
<1>6. ASSUME NEW i \in Instances, Reboot(i) PROVE Apart'
  BY <1>6, ApartKept DEF Reboot, Disturb
<1>7. ASSUME NEW r \in Reqs, Disconnect(r) PROVE Apart'
  BY <1>7, DisconnectShape, ApartKept
<1>8. ASSUME NEW r \in Reqs, Steps(r) PROVE Apart'
  BY <1>2, <1>3, <1>4, <1>7, <1>8 DEF Steps, Leaves, Returns
<1> QED
  BY <1>1, <1>5, <1>6, <1>8 DEF Next

(* What has happened is remembered, and keeps cascades apart.               *)
LEMMA ApartInvariant == Spec => []Apart
<1>1. Init => Apart
  BY RestingRequest DEF Init, Apart
<1>2. TypedInv /\ Apart /\ [Next]_vars => Apart'
  <2> SUFFICES ASSUME TypedInv, Apart, [Next]_vars PROVE Apart'
    OBVIOUS
  <2>1. CASE UNCHANGED vars
    BY <2>1 DEF vars, Apart
  <2> QED
    BY <2>1, ApartStep
<1> QED
  BY <1>1, <1>2, TypedInvariant, PTL DEF Spec

-----------------------------------------------------------------------------
(* What a request under the locks has achieved.                             *)

Quiet == seen \cap {"sweep", "late", "reboot", "cut"} = {}

(* What the copies and the saved copies of the text of a request are worth  *)
(* at each of its steps.                                                    *)
Applied(q) ==
    q.op \in Writers =>
        /\ q.pc = "add" /\ q.at = "secondary" /\ ~q.bad => kernel["primary"][q.new] > 0
        /\ q.pc = "save" \/ (q.pc = "commit" /\ q.sync = "synced") =>
             kernel["primary"][q.new] > 0 /\ kernel["secondary"][q.new] > 0
        /\ (q.pc = "save" /\ q.at = "secondary" /\ ~q.bad) \/ (q.pc = "commit" /\ q.sync = "synced") =>
             saved["primary"][q.new] > 0
        /\ q.pc = "commit" /\ q.sync = "synced" => saved["secondary"][q.new] > 0

AppliedInv == Quiet => \A r \in Reqs : Applied(req[r])

(* Only one request at a time has achieved anything.                        *)
LEMMA AloneAtWork ==
    ASSUME TypedInv, LockInv, Apart, seen \cap {"sweep", "cut"} = {}, NEW r \in Reqs, req[r].pc \in Inside,
           NEW a \in Reqs, a # r
    PROVE  req[a].op \in Writers => req[a].pc \notin Inside
<1>1. CASE req[r].op = "cascade"
  <2>1. req[a] = Idle
    BY <1>1 DEF Apart
  <2> QED
    BY <2>1, RestingRequest DEF Writers
<1>2. CASE req[r].op # "cascade"
  BY <1>2 DEF LockInv, LockOf, Writers, TypedInv
<1> QED
  BY <1>1, <1>2

(* The effect of a command that ran on one instance.                        *)
LEMMA RunEffect ==
    ASSUME TypedInv, NEW c, NEW i \in Instances, NEW s \in Specs, Run(c, i, s)
    PROVE  /\ c = "add" => kernel'[i][s] > 0 /\ saved' = saved
           /\ c = "add" => \A j \in Instances : j # i => kernel'[j] = kernel[j]
           /\ c = "save" => /\ kernel' = kernel /\ saved'[i] = kernel[i]
                            /\ \A j \in Instances : j # i => saved'[j] = saved[j]
<1>1. kernel \in Counts /\ saved \in Counts /\ kernel[i] \in [Specs -> Nat]
  BY DEF TypedInv, TypeOK, Counts
<1>2. CASE c = "add"
  <2>1. kernel' = [kernel EXCEPT ![i][s] = @ + 1] /\ saved' = saved
    BY <1>2 DEF Run
  <2>2. kernel'[i][s] = kernel[i][s] + 1 /\ \A j \in Instances : j # i => kernel'[j] = kernel[j]
    BY <1>1, <2>1 DEF Counts
  <2> QED
    BY <1>1, <1>2, <2>1, <2>2
<1>3. CASE c = "save"
  BY <1>1, <1>3 DEF Run, Counts
<1> QED
  BY <1>2, <1>3

(* A command brings its own request one step nearer.                        *)
LEMMA AppliedAnswer ==
    ASSUME TypedInv, NEW q, q \in Request, Ordered(q), q.pc \in Commands, Applied(q), NEW ok \in BOOLEAN,
           ok => Run(q.pc, q.at, TextOf(q)), UNCHANGED hosts \/ Run(q.pc, q.at, TextOf(q)),
           NEW x \in Turns(q), NEW p, p = Answered(q, ok, x)
    PROVE  Applied(p)'
<1> SUFFICES ASSUME q.op \in Writers PROVE Applied(p)'
  BY AnsweredShape DEF Applied, Follows
<1>0. /\ q.new \in Specs /\ q.at \in Instances /\ p.new = q.new /\ p.op = q.op
      /\ q.pc # "remove" => TextOf(q) = q.new
  BY AnsweredShape DEF Ordered, Request, TextOf, Follows
<1>1. CASE q.at = "primary"
  <2>1. p.pc = q.pc /\ p.at = "secondary" /\ p.bad = ~ok
    BY <1>1, AnsweredShape
  <2>2. CASE q.pc = "add"
    BY <1>0, <1>1, <2>1, <2>2, RunEffect DEF Applied
  <2>3. CASE q.pc = "save"
    <3>1. kernel' = kernel /\ (ok => saved'["primary"] = kernel["primary"])
      BY <1>0, <1>1, <2>3, RunEffect DEF hosts
    <3> QED
      BY <1>0, <2>1, <2>3, <3>1 DEF Applied
  <2> QED
    BY <2>1, <2>2, <2>3 DEF Applied, Commands
<1>2. CASE q.at # "primary"
  <2>1. q.at = "secondary" /\ p = Onward(q, q.bad \/ ~ok, x) /\ (q.bad \/ ~ok) \in BOOLEAN
    BY <1>2, AnsweredShape DEF Request
  <2>2. /\ p.pc = "add" => p.at = "primary"
        /\ p.pc = "save" => ok /\ ~q.bad /\ p.at = "primary" /\ q.pc = "add"
        /\ p.pc = "commit" /\ p.sync = "synced" => ok /\ ~q.bad /\ q.pc = "save"
    <3>1. PICK b \in BOOLEAN : b = (q.bad \/ ~ok)
      BY <2>1
    <3>2. p = Onward(q, b, x)
      BY <2>1, <3>1
    <3>3. /\ p.pc = "add" => p.at = "primary"
          /\ p.pc = "save" => ~b /\ p.at = "primary" /\ (q.op \in Writers => q.pc = "add")
          /\ p.pc = "commit" /\ p.sync = "synced" => ~b /\ q.pc = "save"
      BY <3>2, OnwardShape
    <3> QED
      BY <3>1, <3>3
  <2>3. CASE p.pc = "save"
    <3>1. kernel'["secondary"][q.new] > 0 /\ kernel'["primary"] = kernel["primary"]
      BY <1>0, <2>1, <2>2, <2>3, RunEffect DEF Instances
    <3> QED
      BY <1>0, <2>1, <2>2, <2>3, <3>1 DEF Applied
  <2>4. CASE p.pc = "commit" /\ p.sync = "synced"
    <3>1. kernel' = kernel /\ saved'["secondary"] = kernel["secondary"] /\ saved'["primary"] = saved["primary"]
      BY <1>0, <2>1, <2>2, <2>4, RunEffect DEF Instances
    <3> QED
      BY <1>0, <2>1, <2>2, <2>4, <3>1 DEF Applied
  <2> QED
    BY <2>2, <2>3, <2>4 DEF Applied
<1> QED
  BY <1>1, <1>2

(* Requests at other steps have achieved nothing yet.                       *)
LEMMA NothingApplied ==
    ASSUME NEW q, q.op \in Writers => \/ q.pc \notin Inside
                                      \/ q.pc \in {"half", "remove", "fanout"}
                                      \/ q.pc = "add" /\ q.at = "primary"
    PROVE  Applied(q)
  BY DEF Applied, Inside, Commands

(* Every step keeps what has been achieved.                                 *)
LEMMA AppliedStep == ASSUME TypedInv, LockInv, Apart, AppliedInv, Next PROVE AppliedInv'
<1>1. ASSUME NEW r \in Reqs, NEW q, \A a \in Reqs : IF a = r THEN req'[a] = q ELSE req'[a] = req[a],
             UNCHANGED hosts, seen \subseteq seen', Applied(q)
      PROVE  AppliedInv'
  BY <1>1 DEF AppliedInv, Quiet, Applied, hosts
<1>2. ASSUME NEW r \in Reqs, Requests(r) PROVE AppliedInv'
  <2>1. PICK q : Starts(r, q)
    BY <1>2, RequestsStart
  <2>2. \A a \in Reqs : IF a = r THEN req'[a] = q ELSE req'[a] = req[a]
    BY <2>1, OneRequest DEF Starts
  <2>3. Applied(q)
    BY <2>1 DEF Starts, Applied, Inside, Commands
  <2> QED
    BY <1>1, <2>1, <2>2, <2>3 DEF Starts
<1>3. ASSUME NEW r \in Reqs, TakeLock(r) PROVE AppliedInv'
  <2>1. PICK p : Grants(r, LockOf(req[r]), p) /\ p.pc \in {"remove", "fanout", "half"}
    BY <1>3, TakeLockGrants
  <2>2. \A a \in Reqs : IF a = r THEN req'[a] = p ELSE req'[a] = req[a]
    BY <2>1, OneRequest DEF Grants, Follows
  <2>3. Applied(p)
    BY <2>1 DEF Applied
  <2> QED
    BY <1>1, <2>1, <2>2, <2>3 DEF Grants
<1>4. ASSUME NEW r \in Reqs, TakeSecondary(r) PROVE AppliedInv'
  <2>1. PICK p : Grants(r, "secondary", p) /\ p.pc \in {"remove", "add"} /\ p.at = req[r].at /\ req[r].pc = "half"
    BY <1>4, TakeSecondaryGrants
  <2>2. \A a \in Reqs : IF a = r THEN req'[a] = p ELSE req'[a] = req[a]
    BY <2>1, OneRequest DEF Grants, Follows
  <2>3. req[r].at = "primary"
    BY <2>1 DEF TypedInv, Ordered
  <2>4. Applied(p)
    BY <2>1, <2>3, NothingApplied
  <2> QED
    BY <1>1, <2>1, <2>2, <2>4 DEF Grants
<1>5. ASSUME NEW r \in Reqs, Leaves(r) \/ Commit(r) \/ CommitCascade(r) PROVE AppliedInv'
  <2>1. Free(r) /\ UNCHANGED hosts /\ seen \subseteq seen'
    BY <1>5, LeavesShape DEF Rollback, Commit, CommitCascade
  <2>2. Applied(Idle)
    BY RestingRequest, NothingApplied DEF Writers
  <2> QED
    BY <1>1, <2>1, <2>2, FreeTyped
<1>6. ASSUME NEW r \in Reqs, Returns(r), Quiet' PROVE AppliedInv'
  <2>0. seen \subseteq seen' /\ Quiet /\ req[r] \in Request /\ Ordered(req[r]) /\ req[r].pc \in Commands
    BY <1>6, ReturnsShape DEF Quiet, TypedInv, TypeOK
  <2>1. PICK ok \in BOOLEAN, x \in Turns(req[r]) :
              /\ req' = [req EXCEPT ![r] = Answered(req[r], ok, x)]
              /\ ok => Run(req[r].pc, req[r].at, TextOf(req[r]))
    BY <1>6, ReturnsShape
  <2>2. PICK p : p = Answered(req[r], ok, x)
    OBVIOUS
  <2>3. Follows(p, req[r])
    BY <2>0, <2>2, AnsweredShape
  <2>4. \A a \in Reqs : IF a = r THEN req'[a] = p ELSE req'[a] = req[a]
    BY <2>1, <2>2, <2>3, OneRequest DEF Follows
  <2>5. PICK q : q = req[r]
    OBVIOUS
  <2>6. UNCHANGED hosts \/ Run(q.pc, q.at, TextOf(q))
    BY <1>6, <2>5, ReturnsShape
  <2>7. Applied(q)
    BY <2>0, <2>5 DEF AppliedInv
  <2>8. Applied(p)'
    BY <2>0, <2>1, <2>2, <2>5, <2>6, <2>7, AppliedAnswer
  <2>11. Applied(req[r])'
    BY <2>4, <2>8
  <2> SUFFICES ASSUME NEW a \in Reqs, a # r PROVE Applied(req[a])'
    BY <2>11 DEF AppliedInv
  <2>9. PICK b : b = req[a]
    OBVIOUS
  <2>10. b.op \in Writers => b.pc \notin Inside
    BY <2>0, <2>9, AloneAtWork DEF Quiet, Inside
  <2> QED
    BY <2>4, <2>9, <2>10 DEF Applied, Inside, Commands
<1>7. ASSUME NEW c \in late, LateRuns(c) PROVE AppliedInv'
  BY <1>7 DEF LateRuns, Apart, AppliedInv, Quiet
<1>8. ASSUME NEW i \in Instances, Reboot(i) PROVE AppliedInv'
  <2>1. req' = req /\ (Busy = {} \/ "reboot" \in seen')
    BY <1>8 DEF Reboot, Disturb
  <2>2. CASE Busy = {}
    <3>1. \A r \in Reqs : req'[r] = Idle
      BY <2>1, <2>2 DEF Busy
    <3> QED
      BY <3>1, RestingRequest DEF AppliedInv, Applied, Writers
  <2> QED
    BY <2>1, <2>2 DEF AppliedInv, Quiet
<1>9. ASSUME NEW r \in Reqs, Returns(r) PROVE AppliedInv'
  BY <1>6, <1>9 DEF AppliedInv
<1>10. ASSUME NEW r \in Reqs, Disconnect(r) PROVE AppliedInv'
  BY <1>10, DisconnectShape DEF AppliedInv, Quiet
<1>11. ASSUME NEW r \in Reqs, Steps(r) PROVE AppliedInv'
  BY <1>3, <1>4, <1>5, <1>9, <1>10, <1>11 DEF Steps, Leaves, Returns
<1> QED
  BY <1>2, <1>7, <1>8, <1>11 DEF Next

(* What has been achieved is an invariant.                                  *)
LEMMA AppliedInvariant == Spec => []AppliedInv
<1>1. Init => AppliedInv
  BY RestingRequest DEF Init, AppliedInv, Applied, Writers
<1>2. TypedInv /\ LockInv /\ Apart /\ AppliedInv /\ [Next]_vars => AppliedInv'
  <2> SUFFICES ASSUME TypedInv, LockInv, Apart, AppliedInv, [Next]_vars PROVE AppliedInv'
    OBVIOUS
  <2>1. CASE UNCHANGED vars
    BY <2>1 DEF vars, hosts, AppliedInv, Applied, Quiet
  <2> QED
    BY <2>1, AppliedStep
<1> QED
  BY <1>1, <1>2, TypedInvariant, LockInvariant, ApartInvariant, PTL DEF Spec

(* What create, update or retry is about to commit as synced runs and is    *)
(* saved on both instances, for any number of requests, failures and        *)
(* requests broken off, unless a cascade, a late command, a reboot or a     *)
(* lost connection came between (create_rule, update_rule, retry_rule under *)
(* their locks).                                                            *)
THEOREM WorksUnderLock == Spec => []AppliedUnderLock
<1>1. TypedInv /\ AppliedInv => AppliedUnderLock
  <2> SUFFICES ASSUME TypedInv, AppliedInv, NEW r \in Reqs, req[r].pc = "commit", req[r].sync = "synced",
                      seen \cap {"sweep", "late", "reboot", "cut"} = {}
               PROVE  \A i \in Instances : kernel[i][req[r].new] > 0 /\ saved[i][req[r].new] > 0
    BY DEF AppliedUnderLock
  <2>1. Applied(req[r]) /\ req[r].op \in Writers
    BY DEF AppliedInv, Quiet, TypedInv, Ordered
  <2> QED
    BY <2>1 DEF Applied, Instances
<1> QED
  BY <1>1, TypedInvariant, AppliedInvariant, PTL

-----------------------------------------------------------------------------
(* Who is still to save an instance.                                        *)

Smooth     == seen \cap {"refused", "lost", "late", "crash"} = {}
Owes(q, i) == q.pc \in {"remove", "add"} \/ (q.pc = "save" /\ (q.at = "primary" \/ i = "secondary"))

OwedInv == Smooth => /\ \A r \in Reqs : ~req[r].bad
                     /\ \A i \in Instances : saved[i] = kernel[i] \/ \E r \in Reqs : Owes(req[r], i)

(* A step of a request that owes nothing, and touches no instance.          *)
LEMMA OwesKept ==
    ASSUME TypedInv, OwedInv, NEW r \in Reqs, NEW q, \A a \in Reqs : IF a = r THEN req'[a] = q ELSE req'[a] = req[a],
           UNCHANGED hosts, seen \subseteq seen',
           Smooth' => req[r].pc \notin Commands /\ (~req[r].bad => ~q.bad)
    PROVE  OwedInv'
<1> SUFFICES ASSUME Smooth' PROVE OwedInv'
  BY DEF OwedInv
<1>1. Smooth /\ kernel' = kernel /\ saved' = saved
  BY DEF Smooth, hosts
<1>2. \A a \in Reqs : ~req'[a].bad
  BY <1>1 DEF OwedInv
<1>3. \A i \in Instances : ~Owes(req[r], i)
  BY DEF Owes, Commands
<1>4. \A i \in Instances, a \in Reqs : Owes(req[a], i) => a # r /\ req'[a] = req[a]
  BY <1>3
<1>5. ASSUME NEW i \in Instances PROVE saved'[i] = kernel'[i] \/ \E a \in Reqs : Owes(req[a], i)'
  <2>1. CASE saved[i] = kernel[i]
    BY <2>1, <1>1
  <2>2. CASE saved[i] # kernel[i]
    <3>1. PICK a \in Reqs : Owes(req[a], i)
      BY <2>2, <1>1 DEF OwedInv
    <3>2. Owes(req[a], i)'
      BY <3>1, <1>4 DEF Owes
    <3> QED
      BY <3>2
  <2> QED
    BY <2>1, <2>2
<1> QED
  BY <1>2, <1>5 DEF OwedInv

(* A command that succeeds leaves its instance saved, or owes the save.     *)
LEMMA OwesAnswer ==
    ASSUME TypedInv, NEW q, q \in Request, Ordered(q), q.pc \in Commands, ~q.bad,
           Run(q.pc, q.at, TextOf(q)), NEW x \in Turns(q), NEW p, p = Answered(q, TRUE, x), NEW i \in Instances
    PROVE  \/ saved'[i] = kernel'[i] \/ Owes(p, i)
           \/ saved'[i] = saved[i] /\ kernel'[i] = kernel[i] /\ ~Owes(q, i)
<1>0. kernel \in Counts /\ saved \in Counts /\ q.at \in Instances
  BY DEF TypedInv, TypeOK, Request
<1>3. PICK ok \in BOOLEAN : ok = TRUE
  OBVIOUS
<1>4. /\ q.at = "primary" => p.pc = q.pc /\ p.at = "secondary"
      /\ q.at # "primary" => p = Onward(q, q.bad \/ ~ok, x)
  <2>1. p = Answered(q, ok, x)
    BY <1>3
  <2>2. q.at = "primary" => p.pc = q.pc /\ p.at = "secondary"
    BY <2>1 DEF Answered, Request, Instances
  <2>3. q.at # "primary" => p = Onward(q, q.bad \/ ~ok, x)
    BY <2>1 DEF Answered
  <2> QED
    BY <2>2, <2>3
<1>1. CASE q.at = "primary"
  <2>1. p.pc = q.pc /\ p.at = "secondary"
    BY <1>1, <1>4
  <2>2. q.pc = "save" => saved'["primary"] = kernel'["primary"]
    BY <1>0, <1>1 DEF Run, Counts, Instances
  <2> QED
    BY <2>1, <2>2 DEF Owes, Commands, Instances
<1>2. CASE q.at = "secondary"
  <2>1. p = Onward(q, FALSE, x)
    <3>1. PICK b : b = (q.bad \/ ~ok)
      OBVIOUS
    <3>2. b = FALSE
      BY <1>3, <3>1
    <3>3. p = Onward(q, b, x)
      BY <1>2, <1>4, <3>1
    <3> QED
      BY <3>2, <3>3
  <2>2. /\ p.pc \in Inside \ {"half"} /\ (p.pc = "save" => p.at = "primary")
        /\ p.pc \in {"commit", "fanout"} => q.pc = "save"
    BY <2>1, OnwardShape
  <2>3. CASE q.pc = "save"
    <3>1. /\ kernel' = kernel /\ saved'["secondary"] = kernel["secondary"]
          /\ saved'["primary"] = saved["primary"]
      BY <1>0, <1>2, <2>3 DEF Run, Counts, Instances
    <3> QED
      BY <1>2, <2>3, <3>1 DEF Owes, Instances
  <2>4. CASE q.pc # "save"
    BY <2>2, <2>4 DEF Owes, Inside, Commands
  <2> QED
    BY <2>3, <2>4
<1> QED
  BY <1>0, <1>1, <1>2 DEF Instances

(* Every step keeps account of the saves.                                   *)
LEMMA OwedStep == ASSUME TypedInv, Apart, OwedInv, Next PROVE OwedInv'
<1>1. ASSUME NEW r \in Reqs, Requests(r) PROVE OwedInv'
  <2>1. PICK q : Starts(r, q)
    BY <1>1, RequestsStart
  <2>2. \A a \in Reqs : IF a = r THEN req'[a] = q ELSE req'[a] = req[a]
    BY <2>1, OneRequest DEF Starts
  <2>3. UNCHANGED hosts /\ seen \subseteq seen' /\ req[r].pc \notin Commands /\ ~q.bad
    BY <2>1, RestingRequest DEF Starts, Ordered, Commands
  <2> QED
    BY <2>2, <2>3, OwesKept
<1>2. ASSUME NEW r \in Reqs, TakeLock(r) \/ TakeSecondary(r) PROVE OwedInv'
  <2>1. PICK p, k : Grants(r, k, p) /\ req[r].pc \in {"loaded", "half"} /\ (~req[r].bad => ~p.bad)
    BY <1>2, TakeLockGrants, TakeSecondaryGrants
  <2>2. \A a \in Reqs : IF a = r THEN req'[a] = p ELSE req'[a] = req[a]
    BY <2>1, OneRequest DEF Grants, Follows
  <2>3. UNCHANGED hosts /\ seen \subseteq seen' /\ req[r].pc \notin Commands
    BY <2>1 DEF Grants, Commands
  <2> QED
    BY <2>1, <2>2, <2>3, OwesKept
<1>3. ASSUME NEW r \in Reqs, Leaves(r) \/ Commit(r) \/ CommitCascade(r) PROVE OwedInv'
  <2>1. Free(r) /\ UNCHANGED hosts /\ seen \subseteq seen'
    BY <1>3, LeavesShape DEF Rollback, Commit, CommitCascade
  <2>2. Smooth' => req[r].pc \notin Commands
    BY <1>3, LeavesShape DEF Smooth, Commit, CommitCascade, Commands
  <2>3. \A a \in Reqs : IF a = r THEN req'[a] = Idle ELSE req'[a] = req[a]
    BY <2>1, FreeTyped
  <2> QED
    BY <2>1, <2>2, <2>3, RestingRequest, OwesKept
<1>4. ASSUME NEW r \in Reqs, Returns(r), Smooth' PROVE OwedInv'
  <2>1. /\ seen \subseteq seen' /\ Smooth /\ req[r] \in Request /\ Ordered(req[r])
        /\ req[r].pc \in Commands /\ ~req[r].bad
    BY <1>4, ReturnsShape DEF Smooth, TypedInv, TypeOK, OwedInv
  <2>2. PICK x \in Turns(req[r]) : /\ req' = [req EXCEPT ![r] = Answered(req[r], TRUE, x)]
                                   /\ Run(req[r].pc, req[r].at, TextOf(req[r]))
    <3>1. PICK ok \in BOOLEAN, x \in Turns(req[r]) :
                /\ req' = [req EXCEPT ![r] = Answered(req[r], ok, x)]
                /\ ok => Run(req[r].pc, req[r].at, TextOf(req[r]))
                /\ ~ok => seen' \cap {"refused", "lost", "late"} # {}
      BY <1>4, ReturnsShape
    <3> QED
      BY <1>4, <3>1 DEF Smooth
  <2>3. PICK q : q = req[r]
    OBVIOUS
  <2>4. PICK p : p = Answered(q, TRUE, x)
    OBVIOUS
  <2>5. Follows(p, q) /\ ~p.bad
    BY <2>1, <2>3, <2>4, AnsweredShape
  <2>6. \A a \in Reqs : IF a = r THEN req'[a] = p ELSE req'[a] = req[a]
    BY <2>2, <2>3, <2>4, <2>5, OneRequest DEF Follows
  <2>7. \A a \in Reqs : ~req'[a].bad
    BY <2>1, <2>5, <2>6 DEF OwedInv
  <2>8. ASSUME NEW i \in Instances PROVE saved'[i] = kernel'[i] \/ \E a \in Reqs : Owes(req[a], i)'
    <3>1. \/ saved'[i] = kernel'[i] \/ Owes(p, i)
          \/ saved'[i] = saved[i] /\ kernel'[i] = kernel[i] /\ ~Owes(q, i)
      BY <2>1, <2>2, <2>3, <2>4, OwesAnswer
    <3>2. CASE Owes(p, i)
      <4>1. Owes(req[r], i)'
        BY <2>6, <3>2 DEF Owes
      <4> QED
        BY <4>1
    <3>3. CASE saved[i] # kernel[i] /\ ~Owes(q, i)
      <4>1. PICK a \in Reqs : Owes(req[a], i)
        BY <2>1, <3>3 DEF OwedInv
      <4>2. Owes(req[a], i)'
        BY <4>1, <3>3, <2>3, <2>6 DEF Owes
      <4> QED
        BY <4>2
    <3> QED
      BY <3>1, <3>2, <3>3
  <2> QED
    BY <2>7, <2>8 DEF OwedInv
<1>5. ASSUME NEW c \in late, LateRuns(c) PROVE OwedInv'
  BY <1>5 DEF LateRuns, Apart, OwedInv, Smooth
<1>6. ASSUME NEW i \in Instances, Reboot(i) PROVE OwedInv'
  <2>1. kernel' = [kernel EXCEPT ![i] = saved[i]] /\ saved' = saved /\ req' = req /\ seen \subseteq seen'
    BY <1>6 DEF Reboot, Disturb
  <2>2. \A j \in Instances : kernel'[j] = saved[j] \/ kernel'[j] = kernel[j]
    BY <2>1 DEF TypedInv, TypeOK, Counts
  <2> QED
    BY <2>1, <2>2 DEF OwedInv, Smooth, Owes
<1>7. ASSUME NEW r \in Reqs, Returns(r) PROVE OwedInv'
  BY <1>4, <1>7 DEF OwedInv
<1>8. ASSUME NEW r \in Reqs, Disconnect(r) PROVE OwedInv'
  BY <1>8, DisconnectShape DEF OwedInv, Smooth, Owes
<1>9. ASSUME NEW r \in Reqs, Steps(r) PROVE OwedInv'
  BY <1>2, <1>3, <1>7, <1>8, <1>9 DEF Steps, Leaves, Returns
<1> QED
  BY <1>1, <1>5, <1>6, <1>9 DEF Next

(* A request that owes no save has left none.                               *)
LEMMA OwedSaved == TypedInv /\ OwedInv => KernelSaved
<1> SUFFICES ASSUME TypedInv, OwedInv, Busy = {}, Smooth PROVE saved = kernel
  BY DEF KernelSaved, Smooth
<1>1. \A r \in Reqs : req[r] = Idle
  BY DEF Busy
<1>2. \A i \in Instances : saved[i] = kernel[i]
  BY <1>1, RestingRequest DEF OwedInv, Owes
<1> QED
  BY <1>2 DEF TypedInv, TypeOK, Counts

(* Some request owes the save of what is not saved.                         *)
LEMMA OwedInvariant == Spec => []OwedInv
<1>1. Init => OwedInv
  BY RestingRequest DEF Init, OwedInv
<1>2. TypedInv /\ Apart /\ OwedInv /\ [Next]_vars => OwedInv'
  <2> SUFFICES ASSUME TypedInv, Apart, OwedInv, [Next]_vars PROVE OwedInv'
    OBVIOUS
  <2>1. CASE UNCHANGED vars
    BY <2>1 DEF vars, hosts, OwedInv, Smooth, Owes
  <2> QED
    BY <2>1, OwedStep
<1> QED
  BY <1>1, <1>2, TypedInvariant, ApartInvariant, PTL DEF Spec

(* When nothing runs, a reboot changes nothing, for any number of requests  *)
(* and cascades that overlapped (the save that ends each of them).          *)
THEOREM RestIsSaved == Spec => []KernelSaved
  BY OwedInvariant, OwedSaved, TypedInvariant, PTL

-----------------------------------------------------------------------------
(* Requests that do not overlap.                                            *)

Calm          == seen \subseteq {"refused", "lost"}
Touches(q, x) == q.rule = x \/ q.load[x] # None
Settled(x)    == /\ Live(x) /\ rows[x].sync = "synced"
                 /\ \A r \in Reqs : Touches(req[r], x) => req[r].pc \in {"loaded", "half"}
Sound(x)      == \A i \in Instances : kernel[i][rows[x].spec] > 0 /\ saved[i][rows[x].spec] > 0

SyncInv ==
    Calm => /\ \A a, b \in Reqs : req[a] # Idle /\ req[b] # Idle => a = b
            /\ \A x, y \in Rules : Live(x) /\ Live(y) /\ rows[x].spec = rows[y].spec => x = y
            /\ \A r \in Reqs : Loads(req[r]) /\ Unshared(req[r])
            /\ \A x \in Rules : Settled(x) => Sound(x)

(* An idle request has loaded nothing.                                      *)
LEMMA IdleTouches == /\ Loads(Idle) /\ Unshared(Idle)
                     /\ \A x \in Rules : ~Touches(Idle, x)
<1>1. Idle.rule = None /\ \A x \in Rules : Idle.load[x] = None
  BY DEF Idle, NoLoad
<1> QED
  BY <1>1, NoneAssumption, RestingRequest DEF Loads, Unshared, Touches, Writers

(* What follows a request has loaded the same.                              *)
LEMMA FollowsLoads ==
    ASSUME TypedInv, NEW q, Ordered(q), NEW p, Follows(p, q), Loads(q), Unshared(q), rows' = rows
    PROVE  /\ Loads(p)' /\ Unshared(p)'
           /\ q.op \in Ops => \A x \in Rules : Touches(q, x) => Touches(p, x)
<1>1. p.op = q.op /\ p.load = q.load /\ p.was = q.was /\ p.new = q.new
  BY DEF Follows
<1>2. CASE q.op = "cascade"
  <2>1. \A y \in p.todo \cup {p.rule} : y = None \/ y \in q.todo \cup {q.rule}
    BY DEF Follows
  <2>2. \A y \in Rules : y # None
    BY NoneAssumption
  <2> QED
    BY <1>1, <1>2, <2>1, <2>2 DEF Loads, Unshared, Live, Touches, Writers
<1>3. CASE q.op # "cascade"
  <2>1. p.rule = q.rule
    BY <1>3 DEF Follows
  <2> QED
    BY <1>1, <1>3, <2>1 DEF Loads, Unshared, Live, Touches, Writers
<1> QED
  BY <1>2, <1>3

(* A command leaves alone what it does not remove.                          *)
LEMMA SoundKept ==
    ASSUME TypedInv, NEW c, NEW i \in Instances, NEW t, Run(c, i, t), NEW x \in Rules, Live(x), Sound(x),
           c = "remove" => t # rows[x].spec, rows' = rows
    PROVE  Sound(x)'
<1> DEFINE s == rows[x].spec
<1>1. /\ kernel \in Counts /\ saved \in Counts /\ s \in Specs /\ rows'[x].spec = s
      /\ \A j \in Instances : kernel[j] \in [Specs -> Nat] /\ saved[j] \in [Specs -> Nat]
  BY DEF TypedInv, TypeOK, Counts
<1> HIDE DEF s
<1>2. \A j \in Instances : kernel[j][s] \in Nat /\ kernel[j][s] > 0 /\ saved[j][s] > 0
  BY <1>1 DEF Sound, s
<1>3. CASE c = "remove"
  <2>1. kernel' = [kernel EXCEPT ![i][t] = Removed(kernel[i][t])] /\ saved' = saved /\ t # s
    BY <1>3 DEF Run, s
  <2>2. \A j \in Instances : kernel'[j][s] = kernel[j][s]
    BY <1>1, <2>1 DEF Counts
  <2> QED
    BY <1>1, <1>2, <2>1, <2>2 DEF Sound
<1>4. CASE c = "add"
  <2>1. kernel' = [kernel EXCEPT ![i][t] = @ + 1] /\ saved' = saved
    BY <1>4 DEF Run
  <2>2. \A j \in Instances : kernel'[j][s] = kernel[j][s] \/ kernel'[j][s] = kernel[j][s] + 1
    BY <1>1, <2>1 DEF Counts
  <2> QED
    BY <1>1, <1>2, <2>1, <2>2 DEF Sound
<1>5. CASE c = "save"
  <2>1. kernel' = kernel /\ \A j \in Instances : saved'[j] = saved[j] \/ saved'[j] = kernel[j]
    BY <1>1, <1>5 DEF Run, Counts
  <2> QED
    BY <1>1, <1>2, <2>1 DEF Sound
<1> QED
  BY <1>3, <1>4, <1>5 DEF Run

(* A step of one request that leaves the table and the instances alone, and *)
(* unsettles what it goes on to work on.                                    *)
LEMMA SyncMove ==
    ASSUME TypedInv, SyncInv, Calm', seen \subseteq seen', NEW r \in Reqs, NEW p,
           \A a \in Reqs : IF a = r THEN req'[a] = p ELSE req'[a] = req[a],
           rows' = rows, UNCHANGED hosts,
           \A a \in Reqs : a # r => req[a] = Idle \/ p = Idle,
           Loads(p), Unshared(p), req[r].pc \in {"idle", "loaded", "half"}
    PROVE  SyncInv'
<1>1. Calm
  BY DEF Calm
<1>2. Loads(p)' /\ Unshared(p)' /\ \A a \in Reqs : Loads(req[a])' /\ Unshared(req[a])'
  BY <1>1 DEF SyncInv, Loads, Unshared, Live
<1>3. ASSUME NEW x \in Rules, Settled(x)' PROVE Sound(x)'
  <2>1. \A a \in Reqs : Touches(req[a], x) => req[a].pc \in {"loaded", "half"}
    <3> SUFFICES ASSUME NEW a \in Reqs, Touches(req[a], x) PROVE req[a].pc \in {"loaded", "half"}
      OBVIOUS
    <3>1. CASE a = r
      <4>1. req[r] # Idle
        BY <3>1, IdleTouches
      <4> QED
        BY <3>1, <4>1 DEF TypedInv, Ordered
    <3>2. CASE a # r
      BY <1>3, <3>2 DEF Settled, Touches
    <3> QED
      BY <3>1, <3>2
  <2>2. Settled(x)
    BY <1>3, <2>1 DEF Settled, Live
  <2> QED
    BY <1>1, <2>2 DEF SyncInv, Sound, hosts
<1>4. \A a, b \in Reqs : req'[a] # Idle /\ req'[b] # Idle => a = b
  BY <1>1 DEF SyncInv
<1>5. \A x, y \in Rules : Live(x)' /\ Live(y)' /\ rows'[x].spec = rows'[y].spec => x = y
  BY <1>1 DEF SyncInv, Live
<1> QED
  BY <1>2, <1>3, <1>4, <1>5 DEF SyncInv

(* The commit of a rule request says synced only of what it has applied.    *)
LEMMA SyncCommit ==
    ASSUME TypedInv, AppliedInv, SyncInv, Calm, NEW r \in Reqs, Commit(r) PROVE SyncInv'
<1>1. PICK q : q = req[r]
  OBVIOUS
<1>2. PICK w : w = Write(req[r])
  OBVIOUS
<1>3. /\ rows' = [rows EXCEPT ![q.rule] = w] /\ Free(r) /\ UNCHANGED hosts /\ seen' = seen
      /\ q.pc = "commit" /\ q.rule \in Rules
  BY <1>1, <1>2, WriteTyped DEF Commit
<1>4. /\ q.op \in Ops /\ q.op # "cascade" /\ q \in Request /\ Loads(q) /\ Unshared(q) /\ Applied(q)
      /\ q # Idle
  <2>1. Quiet
    BY DEF Calm, Quiet
  <2> QED
    BY <1>1, <1>3, <2>1, RestingRequest DEF TypedInv, TypeOK, Ordered, SyncInv, AppliedInv
<1>5. \A x \in Rules : IF x = q.rule THEN rows'[x] = w ELSE rows'[x] = rows[x]
  BY <1>3 DEF TypedInv, TypeOK
<1>6. \A a \in Reqs : req'[a] = Idle
  BY <1>1, <1>3, <1>4, FreeTyped DEF SyncInv
<1>7. /\ q.op = "delete" => w.st # "live"
      /\ q.op \in Writers => w.spec = q.new /\ w.sync = q.sync
  <2>1. CASE q.op = "delete"
    BY <1>1, <1>2, <1>3, <2>1, WriteTyped DEF Writers
  <2>2. CASE q.op = "create"
    <3>1. w = [st |-> "live", tun |-> q.tun, spec |-> q.new, sync |-> q.sync]
      BY <1>1, <1>2, <1>3, <2>2, WriteTyped
    <3>2. w.spec = q.new /\ w.sync = q.sync
      BY <3>1
    <3> QED
      BY <2>2, <3>2
  <2>3. CASE q.op \in {"update", "retry"}
    <3>1. /\ w.spec = Put(rows[q.rule].spec, q.load[q.rule], q.new)
          /\ w.sync = Put(rows[q.rule].sync, q.was, q.sync)
      BY <1>1, <1>2, <1>3, <2>3, WriteTyped
    <3>2. q.load[q.rule] = rows[q.rule].spec /\ q.was = rows[q.rule].sync
      BY <1>4, <2>3 DEF Loads
    <3> QED
      BY <2>3, <3>1, <3>2 DEF Put
  <2> QED
    BY <1>4, <2>1, <2>2, <2>3 DEF Ops, Writers
<1>8. ASSUME NEW x \in Rules, NEW y \in Rules, Live(x)', Live(y)', rows'[x].spec = rows'[y].spec PROVE x = y
  <2>1. ASSUME NEW z \in Rules, z # q.rule, Live(q.rule)', Live(z)' PROVE rows'[z].spec # rows'[q.rule].spec
    <3>1. q.op \in Writers /\ w.spec = q.new
      BY <1>3, <1>4, <1>5, <1>7, <2>1 DEF Live, Ops, Writers
    <3> QED
      BY <1>3, <1>4, <1>5, <2>1, <3>1 DEF Unshared, Live
  <2>2. CASE x # q.rule /\ y # q.rule
    BY <1>5, <1>8, <2>2 DEF Live, SyncInv
  <2> QED
    BY <1>3, <1>8, <2>1, <2>2
<1>9. ASSUME NEW x \in Rules, Settled(x)' PROVE Sound(x)'
  <2>1. CASE x = q.rule
    <3>1. rows'[x] = w /\ q.op \in Writers /\ w.spec = q.new /\ q.sync = "synced"
      BY <1>4, <1>5, <1>7, <1>9, <2>1 DEF Settled, Live, Ops, Writers
    <3> QED
      BY <1>3, <1>4, <3>1 DEF Applied, Sound, Instances, hosts
  <2>2. CASE x # q.rule
    <3>1. rows'[x] = rows[x]
      BY <1>5, <2>2
    <3>2. ~Touches(q, x)
      BY <1>4, <2>2 DEF Touches, Loads, Ops
    <3>3. \A a \in Reqs : a # r => req[a] = Idle
      BY <1>1, <1>4 DEF SyncInv
    <3>4. Settled(x)
      BY <1>1, <1>9, <3>1, <3>2, <3>3, IdleTouches DEF Settled, Live
    <3> QED
      BY <1>3, <3>1, <3>4 DEF SyncInv, Sound, hosts
  <2> QED
    BY <2>1, <2>2
<1>10. \A a \in Reqs : Loads(req[a])' /\ Unshared(req[a])'
  BY <1>6, RestingRequest DEF Loads, Unshared, Writers
<1> QED
  BY <1>6, <1>8, <1>9, <1>10 DEF SyncInv

(* The commit of a cascade only takes rules away.                           *)
LEMMA SyncCascade ==
    ASSUME TypedInv, SyncInv, Calm, NEW r \in Reqs, CommitCascade(r) PROVE SyncInv'
<1>1. PICK q : q = req[r]
  OBVIOUS
<1>2. /\ rows' = [x \in Rules |-> IF q.load[x] = None THEN rows[x]
                                  ELSE [rows[x] EXCEPT !.st = "deleted", !.sync = "pending_delete"]]
      /\ Free(r) /\ UNCHANGED hosts /\ q.pc = "fanout" /\ q.op = "cascade" /\ Loads(q) /\ q # Idle
  BY <1>1, RestingRequest DEF CommitCascade, TypedInv, Ordered, SyncInv
<1>3. \A x \in Rules : q.load[x] # None => rows'[x].st = "deleted"
  BY <1>2 DEF TypedInv, TypeOK
<1>4. \A x \in Rules : Live(x)' => q.load[x] = None /\ rows'[x] = rows[x] /\ Live(x)
  BY <1>2, <1>3 DEF Live
<1>5. \A a \in Reqs : req'[a] = Idle
  <2>1. \A a \in Reqs : IF a = r THEN req'[a] = Idle ELSE req'[a] = req[a]
    BY <1>2, FreeTyped
  <2> QED
    BY <1>1, <1>2, <2>1 DEF SyncInv
<1>6. ASSUME NEW x \in Rules, Settled(x)' PROVE Sound(x)'
  <2>1. q.load[x] = None /\ rows'[x] = rows[x] /\ Live(x)
    BY <1>4, <1>6 DEF Settled
  <2>2. ~Touches(q, x)
    BY <1>2, <2>1, NoneAssumption DEF Touches, Loads
  <2>3. \A a \in Reqs : a # r => req[a] = Idle
    BY <1>1, <1>2 DEF SyncInv
  <2>4. Settled(x)
    BY <1>1, <1>6, <2>1, <2>2, <2>3, IdleTouches DEF Settled
  <2> QED
    BY <1>2, <2>1, <2>4 DEF SyncInv, Sound, hosts
<1>7. \A a \in Reqs : Loads(req[a])' /\ Unshared(req[a])'
  BY <1>5, RestingRequest DEF Loads, Unshared, Writers
<1>8. \A x, y \in Rules : Live(x)' /\ Live(y)' /\ rows'[x].spec = rows'[y].spec => x = y
  BY <1>4 DEF SyncInv
<1> QED
  BY <1>5, <1>6, <1>7, <1>8 DEF SyncInv

(* The commands of a request leave the other rules sound.                   *)
LEMMA SyncReturns ==
    ASSUME TypedInv, SyncInv, Calm, NEW r \in Reqs, Returns(r) PROVE SyncInv'
<1>1. PICK q : q = req[r]
  OBVIOUS
<1>2. /\ q \in Request /\ Ordered(q) /\ q.pc \in Commands /\ Loads(q) /\ Unshared(q)
      /\ q.op \in Ops /\ q # Idle /\ rows' = rows
  BY <1>1, ReturnsShape, RestingRequest DEF TypedInv, TypeOK, SyncInv, Ordered, Commands
<1>3. PICK ok \in BOOLEAN, z \in Turns(q) : req' = [req EXCEPT ![r] = Answered(q, ok, z)]
  BY <1>1, ReturnsShape
<1>4. PICK p : p = Answered(q, ok, z)
  OBVIOUS
<1>5. Follows(p, q) /\ p.pc \in Inside \ {"half"}
  BY <1>2, <1>4, AnsweredShape
<1>6. \A a \in Reqs : IF a = r THEN req'[a] = p ELSE req'[a] = req[a]
  BY <1>1, <1>3, <1>4, <1>5, OneRequest DEF Follows
<1>7. Loads(p)' /\ Unshared(p)' /\ \A x \in Rules : Touches(q, x) => Touches(p, x)
  BY <1>2, <1>5, FollowsLoads
<1>8. \A a \in Reqs : Loads(req[a])' /\ Unshared(req[a])'
  <2>1. ASSUME NEW a \in Reqs, a # r PROVE Loads(req[a])' /\ Unshared(req[a])'
    BY <1>2, <1>6, <2>1 DEF SyncInv, Loads, Unshared, Live
  <2> QED
    BY <1>6, <1>7, <2>1
<1>9. ASSUME NEW x \in Rules, Settled(x)' PROVE Sound(x)'
  <2>1. ~Touches(q, x)
    <3>1. Touches(p, x) => p.pc \in {"loaded", "half"}
      BY <1>6, <1>9 DEF Settled, Touches
    <3> QED
      BY <1>5, <1>7, <3>1 DEF Inside, Commands
  <2>2. \A a \in Reqs : a # r => req[a] = Idle
    BY <1>1, <1>2 DEF SyncInv
  <2>3. Settled(x)
    BY <1>1, <1>2, <1>9, <2>1, <2>2, IdleTouches DEF Settled, Live
  <2>4. Sound(x) /\ Live(x)
    BY <2>3 DEF SyncInv, Settled
  <2>5. q.pc = "remove" => TextOf(q) # rows[x].spec
    <3> SUFFICES ASSUME q.pc = "remove" PROVE q.load[q.rule] # rows[x].spec
      BY DEF TextOf
    <3>1. q.op \in {"update", "delete", "cascade"} /\ q.rule \in Rules /\ q.rule # None
      BY <1>2, NoneAssumption DEF Ordered, Ops
    <3>2. Live(q.rule) /\ q.load[q.rule] = rows[q.rule].spec
      BY <1>2, <3>1 DEF Loads
    <3>3. q.rule # x
      BY <2>1 DEF Touches
    <3> QED
      BY <2>4, <3>1, <3>2, <3>3 DEF SyncInv
  <2>6. CASE UNCHANGED hosts
    BY <1>2, <2>4, <2>6 DEF Sound, hosts
  <2>7. CASE Run(q.pc, q.at, TextOf(q))
    <3>1. q.at \in Instances
      BY <1>2 DEF Request
    <3> QED
      BY <1>2, <2>4, <2>5, <2>7, <3>1, SoundKept
  <2> QED
    BY <1>1, <2>6, <2>7, ReturnsShape
<1>10. \A a, b \in Reqs : req'[a] # Idle /\ req'[b] # Idle => a = b
  BY <1>1, <1>2, <1>6 DEF SyncInv
<1>11. \A x, y \in Rules : Live(x)' /\ Live(y)' /\ rows'[x].spec = rows'[y].spec => x = y
  BY <1>2 DEF SyncInv, Live
<1> QED
  BY <1>8, <1>9, <1>10, <1>11 DEF SyncInv

(* Every step keeps the rules that say synced sound.                        *)
LEMMA SyncStep == ASSUME TypedInv, Apart, AppliedInv, SyncInv, Next PROVE SyncInv'
<1> SUFFICES ASSUME Calm' PROVE SyncInv'
  BY DEF SyncInv
<1>1. ASSUME NEW r \in Reqs, Requests(r) PROVE SyncInv'
  <2>1. PICK q : /\ Starts(r, q) /\ Loads(q)
                 /\ q.op \in {"create", "update"} /\ "shared" \notin seen' => Unshared(q)
                 /\ q.op = "retry" => q.new = q.load[q.rule]
    BY <1>1, RequestsStart
  <2>2. \A a \in Reqs : IF a = r THEN req'[a] = q ELSE req'[a] = req[a]
    BY <2>1, OneRequest DEF Starts
  <2>3. rows' = rows /\ UNCHANGED hosts /\ seen \subseteq seen' /\ req[r] = Idle /\ q.pc = "loaded"
        /\ Overlaps(q.op) \subseteq seen' /\ q \in Request /\ q.op \in Ops /\ Ordered(q) /\ q # Idle
    BY <2>1, RestingRequest DEF Starts
  <2>4. \A a \in Reqs : req[a] = Idle
    BY <2>3 DEF Overlaps, Calm, Busy
  <2>5. Unshared(q)
    <3>1. CASE q.op \in {"create", "update"}
      BY <2>1, <3>1 DEF Calm
    <3>2. CASE q.op = "retry"
      <4>1. Live(q.rule) /\ q.new = rows[q.rule].spec /\ q.rule \in Rules
        BY <2>1, <2>3, <3>2 DEF Loads, Ordered
      <4> QED
        BY <2>3, <4>1 DEF SyncInv, Calm, Unshared
    <3>3. CASE q.op \notin Writers
      BY <3>3 DEF Unshared
    <3> QED
      BY <3>1, <3>2, <3>3 DEF Writers
  <2>6. req[r].pc = "idle"
    BY <2>3, RestingRequest
  <2> QED
    BY <2>1, <2>2, <2>3, <2>4, <2>5, <2>6, SyncMove
<1>2. ASSUME NEW r \in Reqs, TakeLock(r) \/ TakeSecondary(r) PROVE SyncInv'
  <2>1. PICK p, k : Grants(r, k, p) /\ req[r].pc \in {"loaded", "half"}
    BY <1>2, TakeLockGrants, TakeSecondaryGrants
  <2>2. \A a \in Reqs : IF a = r THEN req'[a] = p ELSE req'[a] = req[a]
    BY <2>1, OneRequest DEF Grants, Follows
  <2>3. rows' = rows /\ UNCHANGED hosts /\ seen' = seen /\ Follows(p, req[r]) /\ req[r] # Idle
    BY <2>1, RestingRequest DEF Grants
  <2>4. Calm
    BY <2>3 DEF Calm
  <2>5. Loads(req[r]) /\ Unshared(req[r]) /\ Ordered(req[r]) /\ \A a \in Reqs : a # r => req[a] = Idle
    BY <2>3, <2>4 DEF SyncInv, TypedInv
  <2>6. Loads(p) /\ Unshared(p)
    <3>1. PICK q : q = req[r]
      OBVIOUS
    <3>2. Loads(p)' /\ Unshared(p)'
      BY <2>3, <2>5, <3>1, FollowsLoads
    <3> QED
      BY <2>3, <3>2 DEF Loads, Unshared, Live
  <2> QED
    BY <2>1, <2>2, <2>3, <2>5, <2>6, SyncMove
<1>3. ASSUME NEW r \in Reqs, Leaves(r) PROVE SyncInv'
  <2>1. Rollback(r) /\ seen \subseteq seen' /\ req[r] # Idle
    BY <1>3, LeavesShape
  <2>2. req[r].pc \in {"loaded", "half"}
    <3>1. req[r].pc \in {"idle", "loaded"} \cup Inside /\ req[r].pc # "idle"
      BY <2>1 DEF TypedInv, TypeOK, Request, Ordered
    <3>2. req[r].pc \notin Commands \cup {"commit", "fanout"}
      BY <1>3, LeavesShape DEF Calm
    <3> QED
      BY <3>1, <3>2 DEF Inside
  <2>3. \A a \in Reqs : IF a = r THEN req'[a] = Idle ELSE req'[a] = req[a]
    BY <2>1, FreeTyped DEF Rollback
  <2> QED
    BY <2>1, <2>2, <2>3, IdleTouches, SyncMove DEF Rollback
<1>4. ASSUME NEW r \in Reqs, Commit(r) PROVE SyncInv'
  BY <1>4, SyncCommit DEF Commit, Calm
<1>5. ASSUME NEW r \in Reqs, CommitCascade(r) PROVE SyncInv'
  BY <1>5, SyncCascade DEF CommitCascade, Calm
<1>6. ASSUME NEW r \in Reqs, Returns(r) PROVE SyncInv'
  BY <1>6, ReturnsShape, SyncReturns DEF Calm
<1>7. ASSUME NEW c \in late, LateRuns(c) PROVE SyncInv'
  BY <1>7 DEF LateRuns, Apart, Calm
<1>8. ASSUME NEW i \in Instances, Reboot(i) PROVE SyncInv'
  <2>1. /\ kernel' = [kernel EXCEPT ![i] = saved[i]] /\ seen \subseteq seen'
        /\ UNCHANGED <<rows, tunnels, saved, lock, req, late, begun>>
    BY <1>8 DEF Reboot, Disturb
  <2>2. \A j \in Instances : kernel'[j] = saved[j] \/ kernel'[j] = kernel[j]
    BY <2>1 DEF TypedInv, TypeOK, Counts
  <2>3. \A x \in Rules : Settled(x)' => Sound(x)'
    BY <2>1, <2>2 DEF SyncInv, Calm, Settled, Sound, Live, Touches
  <2> QED
    BY <2>1, <2>3 DEF SyncInv, Calm, Loads, Unshared, Live
<1>9. ASSUME NEW r \in Reqs, Disconnect(r) PROVE SyncInv'
  BY <1>9, DisconnectShape DEF Calm
<1>10. ASSUME NEW r \in Reqs, Steps(r) PROVE SyncInv'
  BY <1>2, <1>3, <1>4, <1>5, <1>6, <1>9, <1>10 DEF Steps, Leaves, Returns
<1> QED
  BY <1>1, <1>7, <1>8, <1>10 DEF Next

(* A live rule that says synced runs on both instances and survives their   *)
(* reboots, after any number of requests that failed in part and were       *)
(* retried, as long as they do not overlap nor share the text of a rule     *)
(* (create_rule, update_rule, retry_rule, delete_rule, delete_tunnel).      *)
THEOREM SyncedIsApplied == Spec => []SyncedApplied
<1>1. Init => SyncInv
  BY RestingRequest, IdleTouches DEF Init, SyncInv, Settled, Live, NoRow
<1>2. TypedInv /\ Apart /\ AppliedInv /\ SyncInv /\ [Next]_vars => SyncInv'
  <2> SUFFICES ASSUME TypedInv, Apart, AppliedInv, SyncInv, [Next]_vars PROVE SyncInv'
    OBVIOUS
  <2>1. CASE UNCHANGED vars
    BY <2>1 DEF vars, hosts, SyncInv, Calm, Settled, Sound, Live, Touches, Loads, Unshared
  <2> QED
    BY <2>1, SyncStep
<1>3. SyncInv => SyncedApplied
  BY DEF SyncInv, Calm, Settled, Sound, Touches, SyncedApplied
<1> QED
  BY <1>1, <1>2, <1>3, TypedInvariant, ApartInvariant, AppliedInvariant, PTL DEF Spec

-----------------------------------------------------------------------------
(* One copy per live rule.  No set of rules is assumed to be finite: that   *)
(* of the rules with one text is, because every request adds at most one.   *)

Plain == seen \subseteq {"shared"}

(* The command c of a request is done on an instance, or long past.         *)
Past(q, c, i) == \/ q.pc = c /\ q.at = "secondary" /\ i = "primary"
                 \/ q.pc \in {"save", "commit"}
                 \/ c = "remove" /\ q.pc = "add"

(* A rule stands for a copy of a text on an instance: a request takes it    *)
(* over from the table, command by command.                                 *)
Runs(q, i, y, s) ==
    IF Touches(q, y)
    THEN \/ y = q.rule /\ q.op \in Writers /\ Past(q, "add", i) /\ s = q.new
         \/ /\ (q.op = "cascade" /\ y \in q.todo) \/ (y = q.rule /\ ~Past(q, "remove", i))
            /\ s = q.load[y]
    ELSE Live(y) /\ s = rows[y].spec

Holding(q, i, s) == {y \in Rules : Runs(q, i, y, s)}

Counted(q) == \A i \in Instances, s \in Specs :
                 IsFiniteSet(Holding(q, i, s)) /\ kernel[i][s] = Cardinality(Holding(q, i, s))

(* What a request is like that met no failure.                              *)
Tidy(q) ==
    /\ Loads(q) /\ ~q.bad
    /\ q.op # "retry"
    /\ q.op # "delete" /\ q.pc = "commit" => q.sync = "synced"
    /\ q.op = "cascade" => q.rule \notin q.todo
    /\ q.op = "cascade" /\ q.pc = "loaded" =>
          q.rule = None /\ \A y \in Rules : q.load[y] # None => y \in q.todo
    /\ q.pc = "fanout" => q.todo = {} /\ q.rule = None

MatchInv == Plain =>
    /\ \A a, b \in Reqs : req[a] # Idle /\ req[b] # Idle => a = b
    /\ \A a \in Reqs : Tidy(req[a])
    /\ \A x \in Rules : Live(x) => rows[x].sync # "failed"
    /\ \A a \in Reqs : req[a] # Idle => Counted(req[a])
    /\ Busy = {} => Counted(Idle)

(* An idle request is tidy and leaves every rule to the table.              *)
LEMMA IdleRuns == /\ Tidy(Idle)
                  /\ \A i, s : \A y \in Rules : Runs(Idle, i, y, s) <=> Live(y) /\ s = rows[y].spec
<1>1. Idle.rule = None /\ \A y \in Rules : Idle.load[y] = None
  BY DEF Idle, NoLoad
<1>2. \A y \in Rules : ~Touches(Idle, y)
  BY <1>1, NoneAssumption DEF Touches
<1> QED
  BY <1>2, IdleTouches, RestingRequest DEF Tidy, Runs

(* A step that runs no command and moves no rule.                           *)
LEMMA CountedKept ==
    ASSUME NEW q, NEW p, Counted(q), kernel' = kernel,
           \A i \in Instances, s \in Specs : \A y \in Rules : Runs(p, i, y, s)' <=> Runs(q, i, y, s)
    PROVE  Counted(p)'
<1> SUFFICES ASSUME NEW i \in Instances, NEW s \in Specs
             PROVE  IsFiniteSet(Holding(p, i, s)') /\ kernel'[i][s] = Cardinality(Holding(p, i, s)')
  BY DEF Counted
<1>1. Holding(p, i, s)' = Holding(q, i, s)
  BY DEF Holding
<1> QED
  BY <1>1 DEF Counted

(* A command adds a copy, and a rule stands for it.                         *)
Adds(q, p, j, t, x) ==
    /\ j \in Instances /\ t \in Specs /\ x \in Rules
    /\ kernel' = [kernel EXCEPT ![j][t] = @ + 1] /\ ~Runs(q, j, x, t)
    /\ \A i \in Instances, s \in Specs : \A y \in Rules :
          Runs(p, i, y, s)' <=> Runs(q, i, y, s) \/ (i = j /\ s = t /\ y = x)

LEMMA CountedAdd ==
    ASSUME TypedInv, NEW q, NEW p, NEW j, NEW t, NEW x, Counted(q), Adds(q, p, j, t, x)
    PROVE  Counted(p)'
<1> SUFFICES ASSUME NEW i \in Instances, NEW s \in Specs
             PROVE  IsFiniteSet(Holding(p, i, s)') /\ kernel'[i][s] = Cardinality(Holding(p, i, s)')
  BY DEF Counted
<1>1. IsFiniteSet(Holding(q, i, s)) /\ kernel[i][s] = Cardinality(Holding(q, i, s))
  BY DEF Counted
<1>2. CASE i = j /\ s = t
  <2>1. Holding(p, i, s)' = Holding(q, i, s) \cup {x} /\ x \notin Holding(q, i, s)
    BY <1>2 DEF Holding, Adds
  <2>2. kernel'[i][s] = kernel[i][s] + 1
    BY <1>2 DEF TypedInv, TypeOK, Counts, Adds
  <2>3. /\ IsFiniteSet(Holding(q, i, s) \cup {x})
        /\ Cardinality(Holding(q, i, s) \cup {x}) = Cardinality(Holding(q, i, s)) + 1
    BY <1>1, <2>1, FS_AddElement
  <2> QED
    BY <1>1, <2>1, <2>2, <2>3
<1>3. CASE ~(i = j /\ s = t)
  <2>1. Holding(p, i, s)' = Holding(q, i, s)
    BY <1>3 DEF Holding, Adds
  <2>2. kernel'[i][s] = kernel[i][s]
    BY <1>3 DEF TypedInv, TypeOK, Counts, Adds
  <2> QED
    BY <1>1, <2>1, <2>2
<1> QED
  BY <1>2, <1>3

(* A command removes the copy a rule stands for.                            *)
Removes(q, p, j, t, x) ==
    /\ j \in Instances /\ t \in Specs /\ x \in Rules
    /\ kernel' = [kernel EXCEPT ![j][t] = Removed(kernel[j][t])] /\ Runs(q, j, x, t)
    /\ \A i \in Instances, s \in Specs : \A y \in Rules :
          Runs(p, i, y, s)' <=> Runs(q, i, y, s) /\ ~(i = j /\ s = t /\ y = x)

LEMMA CountedRemove ==
    ASSUME TypedInv, NEW q, NEW p, NEW j, NEW t, NEW x, Counted(q), Removes(q, p, j, t, x)
    PROVE  Counted(p)'
<1> SUFFICES ASSUME NEW i \in Instances, NEW s \in Specs
             PROVE  IsFiniteSet(Holding(p, i, s)') /\ kernel'[i][s] = Cardinality(Holding(p, i, s)')
  BY DEF Counted
<1>1. /\ IsFiniteSet(Holding(q, i, s)) /\ kernel[i][s] = Cardinality(Holding(q, i, s))
      /\ kernel[i][s] \in Nat
  BY DEF Counted, TypedInv, TypeOK, Counts
<1>2. CASE i = j /\ s = t
  <2>1. Holding(p, i, s)' = Holding(q, i, s) \ {x} /\ x \in Holding(q, i, s)
    BY <1>2 DEF Holding, Removes
  <2>2. kernel[i][s] # 0
    <3>1. Holding(q, i, s) # {}
      BY <2>1
    <3> QED
      BY <1>1, <3>1, FS_EmptySet
  <2>3. kernel'[i][s] = kernel[i][s] - 1
    BY <1>2, <2>2 DEF TypedInv, TypeOK, Counts, Removes, Removed
  <2>4. /\ IsFiniteSet(Holding(q, i, s) \ {x})
        /\ Cardinality(Holding(q, i, s) \ {x}) = Cardinality(Holding(q, i, s)) - 1
    BY <1>1, <2>1, FS_RemoveElement
  <2> QED
    BY <1>1, <2>1, <2>3, <2>4
<1>3. CASE ~(i = j /\ s = t)
  <2>1. Holding(p, i, s)' = Holding(q, i, s)
    BY <1>3 DEF Holding, Removes
  <2>2. kernel'[i][s] = kernel[i][s]
    BY <1>3 DEF TypedInv, TypeOK, Counts, Removes
  <2> QED
    BY <1>1, <2>1, <2>2
<1> QED
  BY <1>2, <1>3

(* Where a request goes when its command succeeds.                          *)
Proceeds(p, q) ==
    \/ q.at = "primary" /\ p.pc = q.pc /\ p.at = "secondary" /\ p.rule = q.rule /\ p.todo = q.todo
    \/ /\ q.at = "secondary" /\ p.at = "primary"
       /\ \/ q.pc = "remove" /\ q.op = "update" /\ p.pc = "add" /\ p.rule = q.rule /\ p.todo = q.todo
          \/ /\ q.pc \in {"remove", "add"} /\ ~(q.pc = "remove" /\ q.op = "update")
             /\ p.pc = "save" /\ p.rule = q.rule /\ p.todo = q.todo
          \/ /\ q.pc = "save" /\ q.op # "cascade" /\ p.pc = "commit" /\ p.rule = q.rule /\ p.todo = q.todo
             /\ q.op # "delete" => p.sync = "synced"
          \/ /\ q.pc = "save" /\ q.op = "cascade" /\ p.pc = "remove"
             /\ p.rule \in q.todo /\ p.todo = q.todo \ {p.rule}
    \/ /\ q.at = "secondary" /\ q.pc = "save" /\ q.op = "cascade" /\ p.pc = "fanout"
       /\ q.todo = {} /\ p.todo = {} /\ p.rule = None

LEMMA SuccessShape ==
    ASSUME NEW q \in Request, Ordered(q), q.pc \in Commands, ~q.bad, NEW x \in Turns(q)
    PROVE  LET p == Answered(q, TRUE, x) IN ~p.bad /\ Follows(p, q) /\ Proceeds(p, q)
<1> DEFINE p == Answered(q, TRUE, x)
<1>1. ~p.bad /\ Follows(p, q)
  BY AnsweredShape
<1>2. Proceeds(p, q)
  <2>1. CASE q.at = "primary"
    <3>1. p = [q EXCEPT !.at = "secondary", !.bad = FALSE]
      BY <2>1 DEF Answered
    <3> HIDE DEF p
    <3>2. p.pc = q.pc /\ p.at = "secondary" /\ p.rule = q.rule /\ p.todo = q.todo
      BY <3>1 DEF Request
    <3> QED
      BY <2>1, <3>2 DEF Proceeds
  <2>2. CASE q.at # "primary"
    <3>0. q.at = "secondary" /\ p = Onward(q, FALSE, x)
      <4>1. (q.bad \/ ~TRUE) = FALSE
        BY DEF Request
      <4> QED
        BY <2>2, <4>1 DEF Answered, Request, Instances
    <3>1. CASE q.pc = "remove" /\ q.op = "update"
      <4>1. p = [q EXCEPT !.pc = "add", !.at = "primary", !.bad = FALSE]
        BY <3>0, <3>1 DEF Onward
      <4> HIDE DEF p
      <4>2. p.pc = "add" /\ p.at = "primary" /\ p.rule = q.rule /\ p.todo = q.todo
        BY <4>1 DEF Request
      <4> QED
        BY <3>0, <3>1, <4>2 DEF Proceeds
    <3>2. CASE ~(q.pc = "remove" /\ q.op = "update") /\ q.pc # "save"
      <4>1. p = [q EXCEPT !.pc = "save", !.at = "primary"]
        BY <3>0, <3>2 DEF Onward
      <4> HIDE DEF p
      <4>2. p.pc = "save" /\ p.at = "primary" /\ p.rule = q.rule /\ p.todo = q.todo
        BY <4>1 DEF Request
      <4> QED
        BY <3>0, <3>2, <4>2 DEF Proceeds, Commands
    <3>3. CASE q.pc = "save" /\ q.op # "cascade"
      <4>1. p = [q EXCEPT !.pc = "commit", !.at = "primary", !.bad = FALSE, !.sync = SyncOf(q, FALSE)]
        BY <3>0, <3>3 DEF Onward
      <4>2. q.op # "delete" => SyncOf(q, FALSE) = "synced"
        BY DEF SyncOf
      <4> HIDE DEF p
      <4>3. /\ p.pc = "commit" /\ p.at = "primary" /\ p.rule = q.rule /\ p.todo = q.todo
            /\ p.sync = SyncOf(q, FALSE)
        BY <4>1 DEF Request
      <4> QED
        BY <3>0, <3>3, <4>2, <4>3 DEF Proceeds
    <3>4. CASE q.pc = "save" /\ q.op = "cascade" /\ q.todo # {}
      <4>1. p = NextRule(q, x) /\ x \in q.todo /\ x # None
        BY <3>0, <3>4, NoneAssumption DEF Onward, Turns, Request
      <4>2. p = [q EXCEPT !.pc = "remove", !.at = "primary", !.rule = x, !.bad = FALSE, !.todo = q.todo \ {x}]
        BY <4>1 DEF NextRule
      <4> HIDE DEF p
      <4>3. p.pc = "remove" /\ p.at = "primary" /\ p.rule = x /\ p.todo = q.todo \ {x}
        BY <4>2 DEF Request
      <4> QED
        BY <3>0, <3>4, <4>1, <4>3 DEF Proceeds
    <3>5. CASE q.pc = "save" /\ q.op = "cascade" /\ q.todo = {}
      <4>1. p = [q EXCEPT !.pc = "fanout", !.rule = None]
        BY <3>0, <3>5 DEF Onward, Turns, NextRule
      <4> HIDE DEF p
      <4>2. p.pc = "fanout" /\ p.rule = None /\ p.todo = q.todo
        BY <4>1 DEF Request
      <4> QED
        BY <3>0, <3>5, <4>2 DEF Proceeds
    <3> QED
      BY <3>1, <3>2, <3>3, <3>4, <3>5
  <2> QED
    BY <2>1, <2>2
<1> QED
  BY <1>1, <1>2

(* The copy a rule stands for comes and goes with the command for it.       *)
LEMMA CommandRuns ==
    ASSUME TypedInv, NEW q \in Request, NEW p \in Request, Ordered(q), Tidy(q), q.pc \in Commands,
           ~p.bad, Follows(p, q), Proceeds(p, q), NEW i \in Instances, NEW s \in Specs, NEW y \in Rules
    PROVE  /\ q.pc = "remove" => /\ Runs(p, i, y, s) <=> /\ Runs(q, i, y, s)
                                                         /\ ~(i = q.at /\ s = TextOf(q) /\ y = q.rule)
                                 /\ i = q.at /\ s = TextOf(q) /\ y = q.rule => Runs(q, i, y, s)
           /\ q.pc = "add" => /\ Runs(p, i, y, s) <=> \/ Runs(q, i, y, s)
                                                      \/ i = q.at /\ s = TextOf(q) /\ y = q.rule
                              /\ i = q.at /\ s = TextOf(q) /\ y = q.rule => ~Runs(q, i, y, s)
           /\ q.pc = "save" => (Runs(p, i, y, s) <=> Runs(q, i, y, s))
<1>0. /\ q.at \in Instances /\ s # None /\ y # None /\ q # Idle /\ q.op \in Ops
      /\ p.op = q.op /\ p.new = q.new /\ p.load = q.load
  BY NoneAssumption, RestingRequest DEF Request, Follows, Ordered, Commands
<1>1. CASE q.pc = "remove"
  <2>1. /\ TextOf(q) = q.load[q.rule] /\ q.rule \in Rules /\ q.load[q.rule] # None
        /\ q.op \in {"update", "delete", "cascade"} /\ p.rule = q.rule /\ p.todo = q.todo
        /\ p.pc \in {"remove", "add", "save"}
    <3>1. q.rule \in Rules /\ q.op \in {"update", "delete", "cascade"} /\ q.rule # None
      BY <1>0, <1>1, NoneAssumption DEF Ordered, Ops
    <3>2. q.load[q.rule] # None
      BY <3>1, NoneAssumption DEF Tidy, Loads, TypedInv
    <3> QED
      BY <1>1, <3>1, <3>2 DEF TextOf, Proceeds
  <2> QED
    BY <1>0, <1>1, <2>1 DEF Proceeds, Runs, Touches, Past, Tidy, Instances, Writers
<1>2. CASE q.pc = "add"
  <2>1. /\ TextOf(q) = q.new /\ q.op \in {"create", "update"} /\ q.rule \in Rules
        /\ p.rule = q.rule /\ p.todo = q.todo /\ p.pc \in {"add", "save"}
        /\ q.op = "create" => q.load[q.rule] = None
    BY <1>0, <1>2 DEF TextOf, Proceeds, Ordered, Writers, Tidy, Loads
  <2> QED
    BY <1>0, <1>2, <2>1 DEF Proceeds, Runs, Touches, Past, Instances, Writers
<1>3. CASE q.pc = "save"
  <2>1. CASE q.op = "cascade"
    <3>1. \A z \in q.todo \cup {q.rule} : z = None \/ q.load[z] # None
      BY <2>1 DEF Tidy, Loads
    <3> QED
      BY <1>0, <1>3, <2>1, <3>1, NoneAssumption DEF Proceeds, Runs, Touches, Past, Instances, Writers, Tidy, Request
  <2>2. CASE q.op # "cascade"
    BY <1>0, <1>3, <2>2 DEF Proceeds, Runs, Touches, Past, Instances, Writers
  <2> QED
    BY <2>1, <2>2
<1> QED
  BY <1>1, <1>2, <1>3 DEF Commands

(* A request stays tidy when its command succeeds.                          *)
LEMMA TidyOn ==
    ASSUME NEW q \in Request, NEW p \in Request, Ordered(q), Tidy(q), q.pc \in Commands,
           ~p.bad, Follows(p, q), Proceeds(p, q)
    PROVE  Tidy(p)
<1>0. p.op = q.op /\ p.new = q.new /\ p.load = q.load /\ p.was = q.was
      /\ (q.op # "cascade" => p.rule = q.rule) /\ p.todo \subseteq q.todo
      /\ p.rule \in q.todo \cup {q.rule, None}
  BY DEF Follows
<1>1. Loads(p)
  <2>1. CASE q.op = "cascade"
    BY <1>0, <2>1 DEF Tidy, Loads
  <2>2. CASE q.op # "cascade"
    BY <1>0, <2>2 DEF Tidy, Loads
  <2> QED
    BY <2>1, <2>2
<1>2. q.op # "delete" /\ p.pc = "commit" => p.sync = "synced"
  BY DEF Proceeds, Commands
<1>3. q.op = "cascade" => p.rule \notin p.todo
  BY DEF Proceeds, Tidy
<1>4. p.pc # "loaded" /\ (p.pc = "fanout" => p.todo = {} /\ p.rule = None)
  BY DEF Proceeds, Commands
<1> QED
  BY <1>0, <1>1, <1>2, <1>3, <1>4 DEF Tidy

(* A step of one request that leaves the table and the kernels alone and    *)
(* moves no rule.                                                           *)
LEMMA MatchMove ==
    ASSUME TypedInv, MatchInv, Plain, NEW r \in Reqs, NEW p \in Request, NEW q, q = req[r],
           \A a \in Reqs : IF a = r THEN req'[a] = p ELSE req'[a] = req[a],
           \A a \in Reqs : a # r => req[a] = Idle,
           rows' = rows, Tidy(p)', Counted(q) => Counted(p)'
    PROVE  MatchInv'
<1>1. Counted(q)
  <2>1. CASE q = Idle
    BY <2>1 DEF MatchInv, Busy
  <2>2. CASE q # Idle
    BY <2>2 DEF MatchInv
  <2> QED
    BY <2>1, <2>2
<1>2. \A a \in Reqs : Tidy(req[a])'
  <2>1. ASSUME NEW a \in Reqs, a # r PROVE Tidy(req[a])'
    <3>1. req'[a] = req[a] /\ Tidy(req[a])
      BY <2>1 DEF MatchInv
    <3> QED
      BY <3>1 DEF Tidy, Loads, Live
  <2> QED
    BY <2>1
<1>3. /\ \A a \in Reqs : req'[a] # Idle => Counted(req[a])'
      /\ Busy' = {} => Counted(Idle)'
  <2>1. ASSUME NEW a \in Reqs, req'[a] # Idle PROVE Counted(req[a])'
    <3>1. req'[a] = p
      BY <2>1
    <3> QED
      BY <1>1, <3>1
  <2>2. ASSUME Busy' = {} PROVE Counted(Idle)'
    <3>1. p = Idle
      BY <2>2 DEF Busy
    <3> QED
      BY <1>1, <3>1
  <2> QED
    BY <2>1, <2>2
<1>4. \A a, b \in Reqs : req'[a] # Idle /\ req'[b] # Idle => a = b
  OBVIOUS
<1>5. \A x \in Rules : Live(x)' => rows'[x].sync # "failed"
  BY DEF MatchInv, Live
<1> QED
  BY <1>2, <1>3, <1>4, <1>5 DEF MatchInv

(* A command that succeeds.                                                 *)
LEMMA MatchCommand ==
    ASSUME TypedInv, MatchInv, Plain, NEW r \in Reqs, CommandDone(r) PROVE MatchInv'
<1>1. PICK q : q = req[r]
  OBVIOUS
<1>2. /\ q \in Request /\ Ordered(q) /\ q.pc \in Commands /\ q # Idle /\ Tidy(q)
      /\ Run(q.pc, q.at, TextOf(q)) /\ rows' = rows
  BY <1>1, RestingRequest DEF CommandDone, Answer, TypedInv, TypeOK, MatchInv, Ordered, Commands
<1>3. PICK x \in Turns(q) : req' = [req EXCEPT ![r] = Answered(q, TRUE, x)]
  BY <1>1 DEF CommandDone, Answer
<1>4. PICK p : p = Answered(q, TRUE, x)
  OBVIOUS
<1>5. ~p.bad /\ Follows(p, q) /\ Proceeds(p, q) /\ p \in Request
  BY <1>2, <1>4, SuccessShape DEF Follows, Tidy
<1>6. \A a \in Reqs : IF a = r THEN req'[a] = p ELSE req'[a] = req[a]
  BY <1>1, <1>3, <1>4, <1>5, OneRequest DEF Follows
<1>7. Tidy(p)'
  <2>1. Tidy(p)
    BY <1>2, <1>5, TidyOn
  <2> QED
    BY <1>2, <2>1 DEF Tidy, Loads, Live
<1>8. \A i \in Instances, s \in Specs : \A y \in Rules : Runs(p, i, y, s)' <=> Runs(p, i, y, s)
  BY <1>2 DEF Runs, Touches, Past, Live
<1>9. ASSUME Counted(q) PROVE Counted(p)'
  <2>0. q.at \in Instances
    BY <1>2 DEF Request
  <2>1. CASE q.pc = "remove"
    <3>1. kernel' = [kernel EXCEPT ![q.at][TextOf(q)] = Removed(kernel[q.at][TextOf(q)])]
      BY <1>2, <2>1 DEF Run
    <3>2. TextOf(q) \in Specs /\ q.rule \in Rules
      <4>1. q.rule \in Rules /\ q.rule # None /\ q.op \in {"update", "delete", "cascade"}
        BY <1>2, <2>1, NoneAssumption DEF Ordered, Ops
      <4>2. q.load[q.rule] = rows[q.rule].spec /\ Live(q.rule)
        BY <1>2, <4>1 DEF Tidy, Loads
      <4> QED
        BY <2>1, <4>1, <4>2 DEF TextOf, TypedInv
    <3>3. PICK j, t, z : j = q.at /\ t = TextOf(q) /\ z = q.rule
      OBVIOUS
    <3>4. /\ Runs(q, j, z, t)
          /\ \A i \in Instances, s \in Specs : \A y \in Rules :
                Runs(p, i, y, s)' <=> Runs(q, i, y, s) /\ ~(i = j /\ s = t /\ y = z)
      BY <1>2, <1>5, <1>8, <2>0, <2>1, <3>2, <3>3, CommandRuns
    <3>5. Removes(q, p, j, t, z)
      BY <2>0, <3>1, <3>2, <3>3, <3>4 DEF Removes
    <3> QED
      BY <1>9, <3>5, CountedRemove
  <2>2. CASE q.pc = "add"
    <3>1. kernel' = [kernel EXCEPT ![q.at][TextOf(q)] = @ + 1]
      BY <1>2, <2>2 DEF Run
    <3>2. TextOf(q) \in Specs /\ q.rule \in Rules
      BY <1>2, <2>2 DEF TextOf, Ordered, Writers
    <3>3. PICK j, t, z : j = q.at /\ t = TextOf(q) /\ z = q.rule
      OBVIOUS
    <3>4. /\ ~Runs(q, j, z, t)
          /\ \A i \in Instances, s \in Specs : \A y \in Rules :
                Runs(p, i, y, s)' <=> Runs(q, i, y, s) \/ (i = j /\ s = t /\ y = z)
      BY <1>2, <1>5, <1>8, <2>0, <2>2, <3>2, <3>3, CommandRuns
    <3>5. Adds(q, p, j, t, z)
      BY <2>0, <3>1, <3>2, <3>3, <3>4 DEF Adds
    <3> QED
      BY <1>9, <3>5, CountedAdd
  <2>3. CASE q.pc = "save"
    <3>1. kernel' = kernel
      BY <1>2, <2>3 DEF Run
    <3>2. \A i \in Instances, s \in Specs : \A y \in Rules : Runs(p, i, y, s)' <=> Runs(q, i, y, s)
      BY <1>2, <1>5, <1>8, <2>3, CommandRuns
    <3> QED
      BY <1>9, <3>1, <3>2, CountedKept
  <2> QED
    BY <1>2, <2>1, <2>2, <2>3 DEF Commands
<1>10. \A a \in Reqs : a # r => req[a] = Idle
  BY <1>1, <1>2 DEF MatchInv
<1> QED
  BY <1>1, <1>2, <1>5, <1>6, <1>7, <1>9, <1>10, MatchMove

(* Up to its first command a request moves no rule.                         *)
LEMMA FreshRuns ==
    ASSUME NEW q \in Request, Ordered(q), Tidy(q), q.pc \in {"loaded", "half"},
           NEW i \in Instances, NEW s \in Specs, NEW y \in Rules
    PROVE  Runs(q, i, y, s) <=> Runs(Idle, i, y, s)
<1>0. s # None /\ y # None /\ q # Idle /\ q.op \in Ops
      /\ (Runs(Idle, i, y, s) <=> Live(y) /\ s = rows[y].spec)
  BY NoneAssumption, RestingRequest, IdleRuns DEF Ordered
<1>1. CASE q.op = "cascade"
  <2>1. q.pc = "loaded" /\ q.rule = None /\ \A z \in Rules : q.load[z] # None => z \in q.todo
    BY <1>1 DEF Ordered, Tidy
  <2>2. q.load[y] # None => Live(y) /\ q.load[y] = rows[y].spec
    BY <1>1 DEF Tidy, Loads
  <2> QED
    BY <1>0, <1>1, <2>1, <2>2 DEF Runs, Touches, Writers
<1>2. CASE q.op # "cascade"
  BY <1>0, <1>2 DEF Runs, Touches, Past, Tidy, Loads, Ops
<1> QED
  BY <1>1, <1>2

(* The commit of a rule request says what the kernels run.                  *)
LEMMA MatchCommit ==
    ASSUME TypedInv, MatchInv, Plain, NEW r \in Reqs, Commit(r), seen' = seen PROVE MatchInv'
<1>1. PICK q : q = req[r]
  OBVIOUS
<1>2. PICK w : w = Write(req[r])
  OBVIOUS
<1>3. /\ rows' = [rows EXCEPT ![q.rule] = w] /\ Free(r) /\ UNCHANGED hosts
      /\ q.pc = "commit" /\ q.rule \in Rules /\ q.rule # None
  BY <1>1, <1>2, WriteTyped, NoneAssumption DEF Commit
<1>4. /\ q \in Request /\ q.op \in {"create", "update", "delete"} /\ Tidy(q) /\ q # Idle
      /\ \A y \in Rules : Touches(q, y) <=> y = q.rule
  <2>1. q \in Request /\ Ordered(q) /\ Tidy(q) /\ q # Idle
    BY <1>1, <1>3, RestingRequest DEF TypedInv, TypeOK, MatchInv
  <2>2. q.op \in {"create", "update", "delete"}
    BY <1>3, <2>1 DEF Ordered, Ops, Tidy
  <2> QED
    BY <2>1, <2>2 DEF Tidy, Loads, Touches
<1>5. \A y \in Rules : IF y = q.rule THEN rows'[y] = w ELSE rows'[y] = rows[y]
  BY <1>3 DEF TypedInv, TypeOK
<1>6. \A a \in Reqs : req'[a] = Idle
  BY <1>1, <1>3, <1>4, FreeTyped DEF MatchInv
<1>7. /\ q.op = "delete" => w.st # "live"
      /\ q.op # "delete" => w.st = "live" /\ w.spec = q.new /\ w.sync # "failed"
  <2>1. CASE q.op = "delete"
    BY <1>1, <1>2, <1>3, <2>1, WriteTyped
  <2>2. CASE q.op = "create"
    <3>1. w = [st |-> "live", tun |-> q.tun, spec |-> q.new, sync |-> q.sync]
      BY <1>1, <1>2, <1>3, <2>2, WriteTyped
    <3>2. w.st = "live" /\ w.spec = q.new /\ w.sync = q.sync
      BY <3>1
    <3> QED
      BY <1>3, <1>4, <2>2, <3>2 DEF Tidy
  <2>3. CASE q.op = "update"
    <3>1. /\ w.st = rows[q.rule].st
          /\ w.spec = Put(rows[q.rule].spec, q.load[q.rule], q.new)
          /\ w.sync = Put(rows[q.rule].sync, q.was, q.sync)
      BY <1>1, <1>2, <1>3, <2>3, WriteTyped
    <3>2. /\ Live(q.rule) /\ q.load[q.rule] = rows[q.rule].spec /\ q.was = rows[q.rule].sync
          /\ q.sync = "synced"
      BY <1>3, <1>4, <2>3 DEF Tidy, Loads
    <3> QED
      BY <2>3, <3>1, <3>2 DEF Put, Live
  <2> QED
    BY <1>4, <2>1, <2>2, <2>3
<1>8. \A i \in Instances, s \in Specs : \A y \in Rules : Runs(Idle, i, y, s)' <=> Runs(q, i, y, s)
  <2> SUFFICES ASSUME NEW i \in Instances, NEW s \in Specs, NEW y \in Rules
               PROVE  Runs(Idle, i, y, s)' <=> Runs(q, i, y, s)
    OBVIOUS
  <2>1. Runs(Idle, i, y, s)' <=> Live(y)' /\ s = rows'[y].spec
    BY IdleTouches DEF Runs, Touches
  <2>2. CASE y = q.rule
    <3>1. Runs(q, i, y, s) <=> q.op \in Writers /\ s = q.new
      BY <1>3, <1>4, <2>2 DEF Runs, Past
    <3> QED
      BY <1>4, <1>5, <1>7, <2>1, <2>2, <3>1 DEF Live, Writers
  <2>3. CASE y # q.rule
    BY <1>4, <1>5, <2>1, <2>3 DEF Runs, Live
  <2> QED
    BY <2>2, <2>3
<1>9. Counted(Idle)'
  <2>1. Counted(q)
    BY <1>1, <1>4 DEF MatchInv
  <2> QED
    BY <1>3, <1>8, <2>1, CountedKept DEF hosts
<1>10. Tidy(Idle)'
  BY RestingRequest DEF Tidy, Loads
<1>11. \A x \in Rules : Live(x)' => rows'[x].sync # "failed"
  BY <1>4, <1>5, <1>7 DEF Live, MatchInv
<1> QED
  BY <1>6, <1>9, <1>10, <1>11 DEF MatchInv

(* The commit of a cascade takes away the rules it has removed.             *)
LEMMA MatchCascade ==
    ASSUME TypedInv, MatchInv, Plain, NEW r \in Reqs, CommitCascade(r) PROVE MatchInv'
<1>1. PICK q : q = req[r]
  OBVIOUS
<1>2. /\ rows' = [x \in Rules |-> IF q.load[x] = None THEN rows[x]
                                  ELSE [rows[x] EXCEPT !.st = "deleted", !.sync = "pending_delete"]]
      /\ Free(r) /\ UNCHANGED hosts /\ q.pc = "fanout" /\ q.op = "cascade" /\ q # Idle /\ Tidy(q)
  BY <1>1, RestingRequest DEF CommitCascade, TypedInv, Ordered, MatchInv
<1>3. \A x \in Rules : q.load[x] # None => rows'[x].st = "deleted"
  BY <1>2 DEF TypedInv, TypeOK
<1>4. \A x \in Rules : Live(x)' <=> q.load[x] = None /\ rows'[x] = rows[x] /\ Live(x)
  BY <1>2, <1>3 DEF Live
<1>5. \A a \in Reqs : req'[a] = Idle
  <2>1. \A a \in Reqs : IF a = r THEN req'[a] = Idle ELSE req'[a] = req[a]
    BY <1>2, FreeTyped
  <2> QED
    BY <1>1, <1>2, <2>1 DEF MatchInv
<1>6. q.todo = {} /\ q.rule = None
  BY <1>2 DEF Tidy
<1>7. \A i \in Instances, s \in Specs : \A y \in Rules : Runs(Idle, i, y, s)' <=> Runs(q, i, y, s)
  <2> SUFFICES ASSUME NEW i \in Instances, NEW s \in Specs, NEW y \in Rules
               PROVE  Runs(Idle, i, y, s)' <=> Runs(q, i, y, s)
    OBVIOUS
  <2>1. Runs(Idle, i, y, s)' <=> Live(y)' /\ s = rows'[y].spec
    BY IdleTouches DEF Runs, Touches
  <2> QED
    BY <1>2, <1>4, <1>6, <2>1, NoneAssumption DEF Runs, Touches
<1>8. Counted(Idle)'
  <2>1. Counted(q)
    BY <1>1, <1>2 DEF MatchInv
  <2> QED
    BY <1>2, <1>7, <2>1, CountedKept DEF hosts
<1>9. Tidy(Idle)'
  BY RestingRequest DEF Tidy, Loads
<1>10. \A x \in Rules : Live(x)' => rows'[x].sync # "failed"
  BY <1>4 DEF MatchInv
<1> QED
  BY <1>5, <1>8, <1>9, <1>10 DEF MatchInv

(* The locks of a request.                                                  *)
LEMMA MatchLock ==
    ASSUME TypedInv, MatchInv, Plain, NEW r \in Reqs, TakeLock(r) \/ TakeSecondary(r) PROVE MatchInv'
<1>1. PICK q : q = req[r]
  OBVIOUS
<1>2. /\ q \in Request /\ Ordered(q) /\ Tidy(q) /\ q.pc \in {"loaded", "half"} /\ q # Idle /\ q.op \in Ops
      /\ rows' = rows /\ kernel' = kernel
  BY <1>1, RestingRequest DEF TakeLock, TakeSecondary, TypedInv, TypeOK, MatchInv, hosts, Ordered
<1>3. ASSUME NEW p \in Request, Ordered(p), req' = [req EXCEPT ![r] = p], Tidy(p),
             \A i \in Instances, s \in Specs : \A y \in Rules : Runs(p, i, y, s) <=> Runs(q, i, y, s)
      PROVE  MatchInv'
  <2>1. \A a \in Reqs : IF a = r THEN req'[a] = p ELSE req'[a] = req[a]
    BY <1>3, OneRequest
  <2>2. Tidy(p)'
    BY <1>2, <1>3 DEF Tidy, Loads, Live
  <2>3. \A i \in Instances, s \in Specs : \A y \in Rules : Runs(p, i, y, s)' <=> Runs(p, i, y, s)
    BY <1>2 DEF Runs, Touches, Past, Live
  <2>4. Counted(q) => Counted(p)'
    BY <1>2, <1>3, <2>3, CountedKept
  <2>5. \A a \in Reqs : a # r => req[a] = Idle
    BY <1>1, <1>2 DEF MatchInv
  <2> QED
    BY <1>1, <1>2, <2>1, <2>2, <2>4, <2>5, MatchMove
<1>4. CASE q.op = "cascade"
  <2>1. PICK x \in Turns(q) : req' = [req EXCEPT ![r] = NextRule(q, x)]
    BY <1>1, <1>2, <1>4 DEF TakeLock, TakeSecondary, Ordered
  <2>2. PICK p : p = NextRule(q, x)
    OBVIOUS
  <2>3. p \in Request /\ Ordered(p) /\ Follows(p, q) /\ ~p.bad /\ p.pc \in {"remove", "fanout"}
    BY <1>2, <1>4, <2>2, NextRuleShape DEF Follows, Tidy
  <2>4. q.pc = "loaded" /\ q.rule = None /\ \A y \in Rules : q.load[y] # None <=> y \in q.todo
    BY <1>2, <1>4 DEF Ordered, Tidy, Loads, Request
  <2>5. CASE q.todo = {}
    <3>1. p = [q EXCEPT !.pc = "fanout", !.rule = None]
      BY <2>2, <2>5 DEF NextRule, Turns
    <3>2. p.pc = "fanout" /\ p.rule = None /\ p.todo = {} /\ p.load = q.load /\ p.op = "cascade"
      BY <1>2, <1>4, <2>5, <3>1 DEF Request
    <3>3. Tidy(p)
      BY <1>2, <1>4, <2>3, <3>2 DEF Tidy, Loads
    <3>4. \A i \in Instances, s \in Specs : \A y \in Rules : Runs(p, i, y, s) <=> Runs(q, i, y, s)
      BY <1>4, <2>4, <2>5, <3>2, NoneAssumption DEF Runs, Touches
    <3> QED
      BY <1>3, <2>1, <2>2, <2>3, <3>3, <3>4
  <2>6. CASE q.todo # {}
    <3>0. x \in q.todo /\ x \in Rules /\ x # None
      BY <1>2, <2>6, NoneAssumption DEF Turns, Request
    <3>1. p = [q EXCEPT !.pc = "remove", !.at = "primary", !.rule = x, !.bad = FALSE, !.todo = q.todo \ {x}]
      BY <2>2, <3>0 DEF NextRule
    <3>2. /\ p.pc = "remove" /\ p.at = "primary" /\ p.rule = x /\ p.todo = q.todo \ {x}
          /\ p.load = q.load /\ p.op = "cascade" /\ p.new = q.new
      BY <1>2, <1>4, <3>1 DEF Request
    <3>3. Tidy(p)
      BY <1>2, <1>4, <2>3, <2>4, <3>0, <3>2 DEF Tidy, Loads
    <3>4. \A i \in Instances, s \in Specs : \A y \in Rules : Runs(p, i, y, s) <=> Runs(q, i, y, s)
      BY <1>4, <2>4, <3>0, <3>2, NoneAssumption DEF Runs, Touches, Past, Writers
    <3> QED
      BY <1>3, <2>1, <2>2, <2>3, <3>3, <3>4
  <2> QED
    BY <2>5, <2>6
<1>5. CASE q.op # "cascade"
  <2>1. PICK p : /\ p \in Request /\ Ordered(p) /\ Follows(p, q) /\ ~p.bad /\ req' = [req EXCEPT ![r] = p]
                 /\ p.pc = "half" \/ (p.pc = FirstCommand(q.op) /\ p.at = "primary")
    BY <1>1, <1>2, <1>5, TakeLockGrants, TakeSecondaryGrants DEF Grants, Follows, Tidy, Ordered
  <2>2. /\ p.op = q.op /\ p.new = q.new /\ p.load = q.load /\ p.rule = q.rule /\ p.was = q.was
        /\ p.pc \in {"half", "remove", "add"} /\ q.at = "primary"
    BY <1>2, <1>5, <2>1 DEF Follows, FirstCommand, Ordered
  <2>3. Tidy(p)
    BY <1>2, <1>5, <2>1, <2>2 DEF Tidy, Loads
  <2>4. \A i \in Instances, s \in Specs : \A y \in Rules : Runs(p, i, y, s) <=> Runs(q, i, y, s)
    <3>1. \A i : ~Past(p, "add", i) /\ ~Past(q, "add", i) /\ ~Past(q, "remove", i)
      BY <1>2, <2>1, <2>2 DEF Past, FirstCommand
    <3>2. q.op = "create" \/ \A i : ~Past(p, "remove", i)
      BY <1>2, <1>5, <2>1, <2>2 DEF Past, FirstCommand, Tidy, Ops
    <3>3. q.op = "create" => \A y \in Rules : q.load[y] = None
      BY <1>2 DEF Tidy, Loads
    <3> QED
      BY <1>5, <2>2, <3>1, <3>2, <3>3, NoneAssumption DEF Runs, Touches
  <2> QED
    BY <1>3, <2>1, <2>3, <2>4
<1> QED
  BY <1>4, <1>5

(* Every step without a failure nor an overlap keeps one copy per rule.     *)
LEMMA MatchStep == ASSUME TypedInv, Apart, OwedInv, MatchInv, Next PROVE MatchInv'
<1> SUFFICES ASSUME Plain' PROVE MatchInv'
  BY DEF MatchInv
<1>1. ASSUME NEW r \in Reqs, Requests(r) PROVE MatchInv'
  <2>1. PICK q : /\ Starts(r, q) /\ Loads(q)
                 /\ q.op = "retry" => q.was = "failed"
                 /\ q.op = "cascade" => q.rule = None /\ \A y \in Rules : q.load[y] # None => y \in q.todo
    BY <1>1, RequestsStart
  <2>2. \A a \in Reqs : IF a = r THEN req'[a] = q ELSE req'[a] = req[a]
    BY <2>1, OneRequest DEF Starts
  <2>3. /\ rows' = rows /\ UNCHANGED hosts /\ seen \subseteq seen' /\ req[r] = Idle /\ q.pc = "loaded"
        /\ Overlaps(q.op) \subseteq seen' /\ q \in Request /\ q.op \in Ops /\ Ordered(q)
    BY <2>1 DEF Starts
  <2>4. Plain /\ \A a \in Reqs : req[a] = Idle
    BY <2>3 DEF Overlaps, Plain, Busy
  <2>5. Tidy(q)
    <3>1. q.op # "retry"
      <4> SUFFICES ASSUME q.op = "retry" PROVE FALSE
        OBVIOUS
      <4>1. Live(q.rule) /\ rows[q.rule].sync = "failed" /\ q.rule \in Rules
        BY <2>1, <2>3, RestingRequest DEF Loads, Ordered
      <4> QED
        BY <2>4, <4>1 DEF MatchInv
    <3>2. ~q.bad /\ (q.op = "cascade" => q.rule \notin q.todo)
      BY <2>1, <2>3, NoneAssumption DEF Ordered, Request
    <3> QED
      BY <2>1, <2>3, <3>1, <3>2 DEF Tidy
  <2>6. Tidy(q)' /\ \A i \in Instances, s \in Specs : \A y \in Rules : Runs(q, i, y, s)' <=> Runs(q, i, y, s)
    BY <2>3, <2>5 DEF Tidy, Loads, Live, Runs, Touches, Past
  <2>7. \A i \in Instances, s \in Specs : \A y \in Rules : Runs(q, i, y, s)' <=> Runs(Idle, i, y, s)
    BY <2>3, <2>5, <2>6, FreshRuns
  <2>8. Counted(Idle) => Counted(q)'
    BY <2>3, <2>7, CountedKept DEF hosts
  <2> QED
    BY <2>2, <2>3, <2>4, <2>6, <2>8, MatchMove
<1>2. ASSUME NEW r \in Reqs, TakeLock(r) \/ TakeSecondary(r) PROVE MatchInv'
  <2>1. seen' = seen
    BY <1>2 DEF TakeLock, TakeSecondary
  <2> QED
    BY <1>2, <2>1, MatchLock DEF Plain
<1>3. ASSUME NEW r \in Reqs, Leaves(r) PROVE MatchInv'
  <2>1. Rollback(r) /\ seen \subseteq seen' /\ req[r] # Idle
    BY <1>3, LeavesShape
  <2>2. PICK q : q = req[r]
    OBVIOUS
  <2>3. q.pc \in {"loaded", "half"}
    <3>1. q.pc \in {"idle", "loaded"} \cup Inside /\ q.pc # "idle"
      BY <2>1, <2>2 DEF TypedInv, TypeOK, Request, Ordered
    <3>2. q.pc \notin Commands \cup {"commit", "fanout"}
      BY <1>3, <2>2, LeavesShape DEF Plain
    <3> QED
      BY <3>1, <3>2 DEF Inside
  <2>4. \A a \in Reqs : IF a = r THEN req'[a] = Idle ELSE req'[a] = req[a]
    BY <2>1, FreeTyped DEF Rollback
  <2>5. Plain /\ q \in Request /\ Ordered(q) /\ Tidy(q) /\ \A a \in Reqs : a # r => req[a] = Idle
    BY <2>1, <2>2 DEF Plain, TypedInv, TypeOK, MatchInv
  <2>6. rows' = rows /\ kernel' = kernel
    BY <2>1 DEF Rollback, hosts
  <2>7. \A i \in Instances, s \in Specs : \A y \in Rules : Runs(Idle, i, y, s)' <=> Runs(q, i, y, s)
    <3>1. \A i \in Instances, s \in Specs : \A y \in Rules : Runs(Idle, i, y, s)' <=> Runs(Idle, i, y, s)
      BY <2>6 DEF Runs, Touches, Past, Live
    <3> QED
      BY <2>3, <2>5, <3>1, FreshRuns
  <2>8. Tidy(Idle)'
    BY RestingRequest DEF Tidy, Loads
  <2>9. Counted(q) => Counted(Idle)'
    BY <2>6, <2>7, CountedKept
  <2> QED
    BY <2>2, <2>4, <2>5, <2>6, <2>8, <2>9, RestingRequest, MatchMove
<1>4. ASSUME NEW r \in Reqs, Commit(r) PROVE MatchInv'
  BY <1>4, MatchCommit DEF Commit, Plain
<1>5. ASSUME NEW r \in Reqs, CommitCascade(r) PROVE MatchInv'
  BY <1>5, MatchCascade DEF CommitCascade, Plain
<1>6. ASSUME NEW r \in Reqs, Returns(r) PROVE MatchInv'
  <2>1. "refused" \notin seen' /\ "lost" \notin seen' /\ "late" \notin seen'
    BY DEF Plain
  <2>2. \A D : Disturb(D) => D \subseteq seen'
    BY DEF Disturb
  <2>3. ~CommandRefused(r) /\ ~CommandLost(r) /\ ~CommandLate(r)
    BY <2>1, <2>2 DEF CommandRefused, CommandLost, CommandLate
  <2>4. CommandDone(r)
    BY <1>6, <2>3 DEF Returns
  <2> QED
    BY <2>4, MatchCommand DEF CommandDone, Plain
<1>7. ASSUME NEW c \in late, LateRuns(c) PROVE MatchInv'
  BY <1>7 DEF LateRuns, Apart, Plain
<1>8. ASSUME NEW i \in Instances, Reboot(i) PROVE MatchInv'
  <2>1. /\ kernel' = [kernel EXCEPT ![i] = saved[i]] /\ seen \subseteq seen' /\ Busy = {}
        /\ UNCHANGED <<rows, tunnels, saved, lock, req, late, begun>>
    BY <1>8 DEF Reboot, Disturb, Plain
  <2>2. saved = kernel
    BY <2>1, OwedSaved DEF KernelSaved, Plain
  <2>3. kernel' = kernel
    BY <2>1, <2>2 DEF TypedInv, TypeOK, Counts
  <2>4. Plain /\ \A a \in Reqs : req[a] = Idle /\ req'[a] = Idle
    BY <2>1 DEF Plain, Busy
  <2>5. Tidy(Idle)' /\ (\A x \in Rules : Live(x)' => rows'[x].sync # "failed")
    BY <2>1, <2>4, RestingRequest DEF Tidy, Loads, MatchInv, Live
  <2>6. Counted(Idle)'
    <3>1. Counted(Idle)
      BY <2>1, <2>4 DEF MatchInv
    <3>2. \A j \in Instances, s \in Specs : \A y \in Rules : Runs(Idle, j, y, s)' <=> Runs(Idle, j, y, s)
      BY <2>1 DEF Runs, Touches, Past, Live
    <3> QED
      BY <2>3, <3>1, <3>2, CountedKept
  <2> QED
    BY <2>4, <2>5, <2>6 DEF MatchInv
<1>9. ASSUME NEW r \in Reqs, Disconnect(r) PROVE MatchInv'
  BY <1>9, DisconnectShape DEF Plain
<1>10. ASSUME NEW r \in Reqs, Steps(r) PROVE MatchInv'
  BY <1>2, <1>3, <1>4, <1>5, <1>6, <1>9, <1>10 DEF Steps, Leaves, Returns
<1> QED
  BY <1>1, <1>7, <1>8, <1>10 DEF Next

(* Without a request nothing is counted, and nothing runs.                  *)
LEMMA MatchInit == Init => MatchInv
<1> SUFFICES ASSUME Init PROVE MatchInv
  OBVIOUS
<1>1. (\A a \in Reqs : req[a] = Idle) /\ \A x \in Rules : ~Live(x)
  BY DEF Init, Live, NoRow
<1>2. ASSUME NEW i \in Instances, NEW s \in Specs PROVE Holding(Idle, i, s) = {} /\ kernel[i][s] = 0
  BY <1>1, <1>2, IdleRuns DEF Init, Holding
<1>3. Counted(Idle)
  BY <1>2, FS_EmptySet DEF Counted
<1> QED
  BY <1>1, <1>3, IdleRuns DEF MatchInv

(* Requests that do not overlap and meet no failure leave exactly one copy  *)
(* of a text per live rule that has it, on both instances, for any number   *)
(* of requests and rules (create_rule, update_rule, delete_rule, and        *)
(* delete_tunnel with its cascade).                                         *)
THEOREM KernelIsTable == Spec => []KernelMatchesRows
<1>1. TypedInv /\ Apart /\ OwedInv /\ MatchInv /\ [Next]_vars => MatchInv'
  <2> SUFFICES ASSUME TypedInv, Apart, OwedInv, MatchInv, [Next]_vars PROVE MatchInv'
    OBVIOUS
  <2>1. CASE UNCHANGED vars
    <3>1. rows' = rows /\ kernel' = kernel /\ req' = req /\ seen' = seen
      BY <2>1 DEF vars, hosts
    <3>2. ASSUME NEW q, Tidy(q) PROVE Tidy(q)'
      BY <3>1, <3>2 DEF Tidy, Loads, Live
    <3>3. ASSUME NEW q, Counted(q) PROVE Counted(q)'
      <4>1. \A i \in Instances, s \in Specs : \A y \in Rules : Runs(q, i, y, s)' <=> Runs(q, i, y, s)
        BY <3>1 DEF Runs, Touches, Past, Live
      <4> QED
        BY <3>1, <3>3, <4>1, CountedKept
    <3>4. ASSUME NEW a \in Reqs, Tidy(req[a]) PROVE Tidy(req[a])'
      BY <3>1, <3>2, <3>4 DEF Tidy, Loads, Live
    <3>5. ASSUME NEW a \in Reqs, Counted(req[a]) PROVE Counted(req[a])'
      <4>1. PICK q : q = req[a] /\ q = req'[a]
        BY <3>1
      <4>2. Counted(q)'
        BY <3>3, <3>5, <4>1
      <4> QED
        BY <4>1, <4>2
    <3>6. Counted(Idle) => Counted(Idle)'
      BY <3>3
    <3> QED
      BY <3>1, <3>4, <3>5, <3>6 DEF MatchInv, Plain, Live, Busy
  <2> QED
    BY <2>1, MatchStep
<1>2. MatchInv => KernelMatchesRows
  <2> SUFFICES ASSUME MatchInv, Plain, Busy = {}, NEW i \in Instances, NEW s \in Specs
               PROVE  kernel[i][s] = Cardinality({x \in Rules : Live(x) /\ rows[x].spec = s})
    BY DEF KernelMatchesRows, Plain
  <2>1. Counted(Idle)
    BY DEF MatchInv
  <2>2. Holding(Idle, i, s) = {x \in Rules : Live(x) /\ rows[x].spec = s}
    BY IdleRuns DEF Holding
  <2> QED
    BY <2>1, <2>2 DEF Counted
<1> QED
  BY <1>1, <1>2, MatchInit, TypedInvariant, ApartInvariant, OwedInvariant, PTL DEF Spec
=============================================================================
