----------------------------- MODULE JwksCache ------------------------------
(***************************************************************************)
(* The signing keys of the OIDC provider as app/auth/oidc.py caches them.  *)
(* A request whose token must be validated uses the cached keys while they *)
(* are fresh; otherwise it fetches them, with an await between the clock   *)
(* it read and the entry it stores, so that fetches of several requests    *)
(* overlap and may end in any order.                                       *)
(*                                                                         *)
(* Keys are numbered in the order in which the provider signs with them.   *)
(***************************************************************************)
EXTENDS ProcessClock

CONSTANTS
    Fetches,   \* slots for requests that fetch
    MaxKeys,   \* bound: keys of one behaviour
    KeyTTL     \* _JWKS_TTL_SECONDS, in ticks

ASSUME KeyAssumption == MaxKeys \in Nat \ {0} /\ KeyTTL \in Nat

VARIABLES
    key,         \* the provider's current key
    since,       \* history: when each key became the current one
    jwks,        \* _jwks and _jwks_fetched_at
    discovered,  \* _openid_config is cached
    fetch        \* the fetches in flight

keysVars == <<key, since, jwks, discovered, fetch>>

NoKeys  == [key |-> 0, at |-> 0]
NoFetch == [pc |-> "none", at |-> 0, key |-> 0]

KeysInit ==
    /\ now = 0
    /\ key = 1
    /\ since = [k \in 1..MaxKeys |-> 0]
    /\ jwks = NoKeys
    /\ discovered = FALSE
    /\ fetch = [f \in Fetches |-> NoFetch]

Cached == jwks # NoKeys
Fresh  == Cached /\ now - jwks.at < KeyTTL

(* Mutant of StartFetch: it notes when the keys are to expire.             *)
StartFetchExpiry(f) ==
    /\ fetch[f] = NoFetch
    /\ ~Fresh
    /\ fetch' = [fetch EXCEPT ![f] = [pc |-> IF discovered THEN "jwks" ELSE "config",
                                      at |-> now + KeyTTL, key |-> 0]]
    /\ UNCHANGED <<now, key, since, jwks, discovered>>

(* The clock is read here, before the first await.                         *)
StartFetch(f) ==
    /\ fetch[f] = NoFetch
    /\ ~Fresh
    /\ fetch' = [fetch EXCEPT ![f] = [pc |-> IF discovered THEN "jwks" ELSE "config",
                                      at |-> now, key |-> 0]]
    /\ UNCHANGED <<now, key, since, jwks, discovered>>

ConfigArrives(f) ==
    /\ fetch[f].pc = "config"
    /\ fetch' = [fetch EXCEPT ![f] = [pc |-> "jwks", at |-> fetch[f].at, key |-> 0]]
    /\ discovered' = TRUE
    /\ UNCHANGED <<now, key, since, jwks>>

(* The provider answers with its keys of that moment.                      *)
ProviderAnswers(f) ==
    /\ fetch[f].pc = "jwks"
    /\ fetch' = [fetch EXCEPT ![f] = [pc |-> "answer", at |-> fetch[f].at, key |-> key]]
    /\ UNCHANGED <<now, key, since, jwks, discovered>>

(* Mutant of StoreKeys: the entry is dated when the answer arrives.        *)
StoreKeysDatedLate(f) ==
    /\ fetch[f].pc = "answer"
    /\ jwks' = [key |-> fetch[f].key, at |-> now]
    /\ fetch' = [fetch EXCEPT ![f] = NoFetch]
    /\ UNCHANGED <<now, key, since, discovered>>

(* The last answer to arrive wins, whenever it was asked for.              *)
StoreKeys(f) ==
    /\ fetch[f].pc = "answer"
    /\ jwks' = [key |-> fetch[f].key, at |-> fetch[f].at]
    /\ fetch' = [fetch EXCEPT ![f] = NoFetch]
    /\ UNCHANGED <<now, key, since, discovered>>

(* The request goes on with the keys of the cache, if it has some.         *)
FetchFails(f) ==
    /\ fetch[f] # NoFetch
    /\ fetch' = [fetch EXCEPT ![f] = NoFetch]
    /\ UNCHANGED <<now, key, since, jwks, discovered>>

Rotate ==
    /\ key < MaxKeys
    /\ key' = key + 1
    /\ since' = [since EXCEPT ![key + 1] = now]
    /\ UNCHANGED <<now, jwks, discovered, fetch>>

(* A restart, or clear_jwks_cache while fetches are in flight.             *)
ForgetKeys(killed) ==
    /\ jwks' = NoKeys
    /\ discovered' = FALSE
    /\ fetch' = [f \in Fetches |-> IF killed THEN NoFetch ELSE fetch[f]]
    /\ UNCHANGED <<now, key, since>>

KeysTick == Tick(FALSE) /\ UNCHANGED keysVars

KeysNext ==
    \/ \E f \in Fetches : \/ StartFetch(f) \/ ConfigArrives(f) \/ ProviderAnswers(f)
                          \/ StoreKeys(f) \/ FetchFails(f)
    \/ Rotate
    \/ \E killed \in BOOLEAN : ForgetKeys(killed)
    \/ KeysTick

KeysSpec == KeysInit /\ [][KeysNext]_<<now, keysVars>>

-----------------------------------------------------------------------------
(* Properties.                                                             *)

Keys == 0..MaxKeys
Time == 0..MaxTime

(* Every variable keeps its type, and the times are in the past.           *)
KeysTypeOK ==
    /\ now \in Time
    /\ key \in 1..MaxKeys
    /\ since \in [1..MaxKeys -> Time]
    /\ jwks \in [key : Keys, at : Time] /\ jwks.at <= now
    /\ discovered \in BOOLEAN
    /\ fetch \in [Fetches -> [pc : {"none", "config", "jwks", "answer"}, at : Time, key : Keys]]
    /\ \A f \in Fetches : fetch[f].at <= now

(* Keys the cache takes for fresh were the provider's within the last      *)
(* KeyTTL, however many fetches overlap and in whatever order they end: a  *)
(* key retired for longer is asked for again before it is used, and used   *)
(* only if the provider does not answer (fetch_jwks).                      *)
FreshKeys == Fresh /\ jwks.key < key => now - since[jwks.key + 1] < KeyTTL
=============================================================================
