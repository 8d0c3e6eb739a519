-------------------------- MODULE JwksCacheProofs ---------------------------
(* What JwksCache promises for every number of fetches, keys and ticks.     *)
EXTENDS JwksCache, TLAPS

(* An entry taken at time t is at most that old: a later key became the     *)
(* current one at t or later.                                               *)
TakenAt(k, t) == k \in 1..key /\ (k < key => t <= since[k + 1])

KeysInv ==
    /\ KeysTypeOK
    /\ Cached => TakenAt(jwks.key, jwks.at)
    /\ \A f \in Fetches : fetch[f].pc = "answer" => TakenAt(fetch[f].key, fetch[f].at)

(* The initial state satisfies the invariant.                               *)
LEMMA KeysInitInv == KeysInit => KeysInv
<1> SUFFICES ASSUME KeysInit PROVE KeysInv
  OBVIOUS
<1>1. KeysTypeOK
  <2>1. 0 \in Time /\ 0 \in Keys /\ 1 \in 1..MaxKeys
    BY MaxTimeAssumption, KeyAssumption DEF Time, Keys
  <2>2. NoKeys \in [key : Keys, at : Time] /\ NoKeys.at = 0 /\ NoFetch.at = 0
    BY <2>1 DEF NoKeys, NoFetch
  <2>3. NoFetch \in [pc : {"none", "config", "jwks", "answer"}, at : Time, key : Keys]
    BY <2>1 DEF NoFetch
  <2>4. now = 0 /\ key = 1 /\ jwks = NoKeys /\ discovered = FALSE
    BY DEF KeysInit
  <2>5. since \in [1..MaxKeys -> Time]
    BY <2>1 DEF KeysInit
  <2>6. /\ fetch \in [Fetches -> [pc : {"none", "config", "jwks", "answer"}, at : Time, key : Keys]]
        /\ \A f \in Fetches : fetch[f].at = 0
    BY <2>2, <2>3 DEF KeysInit
  <2>7. jwks.at <= now /\ \A f \in Fetches : fetch[f].at <= now
    BY <2>2, <2>4, <2>6
  <2> QED
    BY <2>1, <2>2, <2>4, <2>5, <2>6, <2>7 DEF KeysTypeOK
<1>2. ~Cached /\ \A f \in Fetches : fetch[f].pc = "none"
  BY DEF KeysInit, NoFetch, Cached
<1> QED
  BY <1>1, <1>2 DEF KeysInv

(* A step of one fetch keeps the invariant: the date it stores is the one   *)
(* it read before it asked, so it is not later than the answer.             *)
LEMMA FetchInv ==
    ASSUME KeysInv, NEW f \in Fetches,
           StartFetch(f) \/ ConfigArrives(f) \/ ProviderAnswers(f) \/ StoreKeys(f) \/ FetchFails(f)
    PROVE  KeysInv'
<1> USE MaxTimeAssumption, KeyAssumption DEF KeysInv, KeysTypeOK, Keys, Time, Cached, TakenAt
<1>1. CASE StartFetch(f)
  BY <1>1 DEF StartFetch
<1>2. CASE ConfigArrives(f)
  BY <1>2 DEF ConfigArrives
<1>3. CASE ProviderAnswers(f)
  BY <1>3 DEF ProviderAnswers
<1>4. CASE StoreKeys(f)
  <2>1. /\ fetch[f].pc = "answer" /\ jwks' = [key |-> fetch[f].key, at |-> fetch[f].at]
        /\ fetch' = [fetch EXCEPT ![f] = NoFetch]
        /\ UNCHANGED <<now, key, since, discovered>>
    BY <1>4 DEF StoreKeys
  <2>2. \A g \in Fetches : fetch'[g] = IF g = f THEN NoFetch ELSE fetch[g]
    BY <2>1
  <2>3. KeysTypeOK'
    BY <2>1, <2>2 DEF NoFetch
  <2>4. TakenAt(jwks.key, jwks.at)'
    BY <2>1
  <2>5. \A g \in Fetches : fetch'[g].pc = "answer" => TakenAt(fetch[g].key, fetch[g].at)'
    BY <2>1, <2>2 DEF NoFetch
  <2> QED
    BY <2>3, <2>4, <2>5
<1>5. CASE FetchFails(f)
  BY <1>5 DEF FetchFails, NoFetch
<1> QED
  BY <1>1, <1>2, <1>3, <1>4, <1>5

(* So does every step of the provider, the process and the clock: a new key *)
(* is dated by the present, which no entry is ahead of.                     *)
LEMMA WorldInv ==
    ASSUME KeysInv, Rotate \/ (\E killed \in BOOLEAN : ForgetKeys(killed)) \/ KeysTick
    PROVE  KeysInv'
<1> USE MaxTimeAssumption, KeyAssumption DEF KeysInv, KeysTypeOK, Keys, Time, Cached, TakenAt
<1>1. CASE Rotate
  <2>1. KeysTypeOK' /\ (Cached' <=> Cached)
    BY <1>1 DEF Rotate
  <2>2. ASSUME NEW k, NEW t, TakenAt(k, t), t \in Time, t <= now PROVE TakenAt(k, t)'
    <3>1. since'[key + 1] = now /\ key' = key + 1 /\ key + 1 \in 1..MaxKeys
      BY <1>1 DEF Rotate
    <3>2. \A j \in 1..MaxKeys : j # key + 1 => since'[j] = since[j]
      BY <1>1 DEF Rotate
    <3>3. k \in 1..key
      BY <2>2
    <3>4. CASE k = key
      BY <3>1, <3>4, <2>2
    <3>5. CASE k < key
      BY <3>1, <3>2, <3>3, <3>5, <2>2
    <3> QED
      BY <3>3, <3>4, <3>5
  <2>3. jwks' = jwks /\ fetch' = fetch
    BY <1>1 DEF Rotate
  <2>4. Cached => TakenAt(jwks.key, jwks.at)'
    BY <2>2, <2>3
  <2>5. ASSUME NEW f \in Fetches, fetch[f].pc = "answer" PROVE TakenAt(fetch[f].key, fetch[f].at)'
    <3>1. TakenAt(fetch[f].key, fetch[f].at) /\ fetch[f].at \in Time /\ fetch[f].at <= now
      BY <2>5
    <3> QED
      BY <2>2, <2>3, <3>1
  <2> QED
    BY <2>1, <2>3, <2>4, <2>5
<1>2. CASE \E killed \in BOOLEAN : ForgetKeys(killed)
  <2>1. PICK killed \in BOOLEAN : ForgetKeys(killed)
    BY <1>2
  <2>2. KeysTypeOK' /\ ~Cached'
    <3>1. NoKeys \in [key : Keys, at : Time] /\ NoKeys.at <= now
      BY DEF NoKeys
    <3>2. NoFetch \in [pc : {"none", "config", "jwks", "answer"}, at : Time, key : Keys] /\ NoFetch.at <= now
      BY DEF NoFetch
    <3>3. jwks' = NoKeys /\ discovered' = FALSE /\ UNCHANGED <<now, key, since>>
      BY <2>1 DEF ForgetKeys
    <3>4. /\ fetch' \in [Fetches -> [pc : {"none", "config", "jwks", "answer"}, at : Time, key : Keys]]
          /\ \A f \in Fetches : fetch'[f].at <= now
      BY <2>1, <3>2 DEF ForgetKeys
    <3> QED
      BY <3>1, <3>3, <3>4
  <2>3. \A f \in Fetches : fetch'[f].pc = "answer" => fetch'[f] = fetch[f]
    BY <2>1 DEF ForgetKeys, NoFetch
  <2>4. key' = key /\ since' = since
    BY <2>1 DEF ForgetKeys
  <2> QED
    BY <2>2, <2>3, <2>4
<1>3. CASE KeysTick
  BY <1>3 DEF KeysTick, Tick, keysVars
<1> QED
  BY <1>1, <1>2, <1>3

(* The invariant is inductive.                                              *)
LEMMA KeysInvariant == KeysSpec => []KeysInv
<1>1. KeysInv /\ [KeysNext]_<<now, keysVars>> => KeysInv'
  <2> SUFFICES ASSUME KeysInv, [KeysNext]_<<now, keysVars>> PROVE KeysInv'
    OBVIOUS
  <2>1. CASE UNCHANGED <<now, keysVars>>
    BY <2>1 DEF keysVars, KeysInv, KeysTypeOK, Cached, TakenAt
  <2>2. CASE KeysNext
    BY <2>2, FetchInv, WorldInv DEF KeysNext
  <2> QED
    BY <2>1, <2>2
<1> QED
  BY <1>1, KeysInitInv, PTL DEF KeysSpec

(* Every variable keeps its type, whatever the fetches do (fetch_jwks).     *)
THEOREM KeysTyped == KeysSpec => []KeysTypeOK
  BY KeysInvariant, PTL DEF KeysInv

(* Keys the cache takes for fresh were the provider's within the last       *)
(* KeyTTL, for any number of overlapping fetches (fetch_jwks).              *)
THEOREM KeysFresh == KeysSpec => []FreshKeys
<1>1. KeysInv => FreshKeys
  BY KeyAssumption DEF KeysInv, KeysTypeOK, FreshKeys, Fresh, Cached, TakenAt, Keys, Time
<1> QED
  BY <1>1, KeysInvariant, PTL
=============================================================================
