--------------------------- MODULE ResolverProofs ---------------------------
(***************************************************************************)
(* The safety properties of Resolver, for any callers, architectures and   *)
(* number of releases.                                                     *)
(***************************************************************************)
EXTENDS Resolver, TLAPS

\* What is stored, has been returned or has been refused for architecture a.
CacheInv(a) ==
  /\ fills[a] = IF fresh[a] THEN 1 ELSE 0
  /\ cached[a] <= latest /\ best[a] <= latest
  /\ caching => best[a] <= cached[a] /\ ~refused[a]
  /\ ~caching => cached[a] = 0

\* The mutex keeps the cache of a caller's architecture stale while it is
\* fetching, and everybody else from returning or storing anything newer.
FetchInv(k) ==
  /\ at[k] \in {"fetch", "store"} => ~fresh[arch[k]]
  /\ at[k] = "store" =>
       /\ answer[k] \in 1 .. latest
       /\ answer[k] >= best[arch[k]] /\ answer[k] >= cached[arch[k]]

ResolverInv ==
  /\ ResolverTypeOK
  /\ \A a \in Arch : CacheInv(a)
  /\ \A k \in Caller : FetchInv(k)

LEMMA ResolverInvInit == ResolverInit => ResolverInv
BY ResolverAssumption
DEF ResolverInit, ResolverInv, ResolverTypeOK, CacheInv, FetchInv, Version

\* One step per action.
LEMMA ResolverInvStep ==
  ASSUME ResolverInv, [ResolverNext]_resolverVars
  PROVE  ResolverInv'
<1> USE ResolverAssumption
    DEF ResolverInv, ResolverTypeOK, CacheInv, FetchInv, Version
<1>1. ASSUME NEW k \in Caller, NEW a \in Arch, Call(k, a)
      PROVE  ResolverInv'
  BY <1>1 DEF Call
<1>2. ASSUME NEW k \in Caller, Hit(k)
      PROVE  ResolverInv'
  BY <1>2 DEF Hit, Return
<1>3. ASSUME NEW k \in Caller, Miss(k)
      PROVE  ResolverInv'
  BY <1>3 DEF Miss
<1>4. ASSUME NEW k \in Caller, Answered(k)
      PROVE  ResolverInv'
  BY <1>4 DEF Answered
<1>5. ASSUME NEW k \in Caller, Store(k)
      PROVE  ResolverInv'
  <2>1. CASE caching
    <3>1. ResolverTypeOK'
      <4>1. /\ holder' = Nobody /\ at' = [at EXCEPT ![k] = "idle"]
            /\ at[k] = "store" /\ UNCHANGED <<caching, latest, arch, refused>>
        BY <1>5 DEF Store, Return
      <4>2. /\ answer' \in [Caller -> Version] /\ best' \in [Arch -> Version]
            /\ cached' \in [Arch -> Version] /\ fills' \in [Arch -> Nat]
        BY <1>5, <2>1 DEF Store, Return
      <4>3. fresh' \in [Arch -> BOOLEAN]
        BY <1>5, <2>1, Zenon DEF Store
      <4>4. \A a \in Arch : fresh'[a] => cached'[a] # 0
        BY <1>5, <2>1 DEF Store
      <4> QED
        BY <4>1, <4>2, <4>3, <4>4
    <3>2. \A a \in Arch : CacheInv(a)'
      BY <1>5, <2>1 DEF Store, Return
    <3>3. \A j \in Caller : FetchInv(j)'
      BY <1>5, <2>1 DEF Store, Return
    <3> QED
      BY <3>1, <3>2, <3>3
  <2>2. CASE ~caching
    BY <1>5, <2>2 DEF Store, Return
  <2> QED
    BY <2>1, <2>2
<1>6. ASSUME NEW k \in Caller, FetchFails(k)
      PROVE  ResolverInv'
  <2>1. CASE cached[arch[k]] # 0
    BY <1>6, <2>1 DEF FetchFails, Return
  <2>2. CASE cached[arch[k]] = 0
    <3>1. ResolverTypeOK'
      <4>1. /\ holder' = Nobody /\ at' = [at EXCEPT ![k] = "idle"]
            /\ at[k] \in {"fetch", "store"}
            /\ answer' = [answer EXCEPT ![k] = 0]
            /\ UNCHANGED <<caching, latest, arch, cached, fresh, fills, best>>
        BY <1>6, <2>2 DEF FetchFails
      <4>2. refused' \in [Arch -> BOOLEAN]
        BY <1>6, <2>2, Zenon DEF FetchFails
      <4> QED
        BY <4>1, <4>2
    <3>2. \A a \in Arch : CacheInv(a)'
      BY <1>6, <2>2 DEF FetchFails, Return
    <3>3. \A j \in Caller : FetchInv(j)'
      BY <1>6, <2>2 DEF FetchFails, Return
    <3> QED
      BY <3>1, <3>2, <3>3
  <2> QED
    BY <2>1, <2>2
<1>7. CASE Publish
  BY <1>7 DEF Publish
<1>8. ASSUME NEW a \in Arch, TTLExpires(a)
      PROVE  ResolverInv'
  BY <1>8 DEF TTLExpires
<1>9. CASE UNCHANGED resolverVars
  BY <1>9 DEF resolverVars
<1> QED
  BY <1>1, <1>2, <1>3, <1>4, <1>5, <1>6, <1>7, <1>8, <1>9 DEF ResolverNext

----------------------------------------------------------------------------

\* The invariant of LatestResolver's critical section.
THEOREM ResolverCorrect == ResolverSpec => []ResolverInv
<1>1. ResolverInv /\ [ResolverNext]_resolverVars => ResolverInv'
  BY ResolverInvStep
<1> QED
  BY ResolverInvInit, <1>1, PTL DEF ResolverSpec

\* Types, mutual exclusion of the fetches, and only a cached release is fresh.
THEOREM ResolverTypeCorrect == ResolverSpec => []ResolverTypeOK
<1>1. ResolverInv => ResolverTypeOK
  BY DEF ResolverInv
<1> QED
  BY ResolverCorrect, <1>1, PTL

\* Between two expiries of the ttl Resolve stores one answer per architecture,
\* however many spawn tasks ask at once.
THEOREM OneFetchCorrect == ResolverSpec => []OneFetchPerWindow
<1>1. ResolverInv => OneFetchPerWindow
  BY DEF ResolverInv, CacheInv, OneFetchPerWindow
<1> QED
  BY ResolverCorrect, <1>1, PTL

\* With a cache, Resolve returns no error once it has returned a release.
THEOREM FallsBackCorrect == ResolverSpec => []FallsBack
<1>1. ResolverInv => FallsBack
  BY DEF ResolverInv, CacheInv, FallsBack
<1> QED
  BY ResolverCorrect, <1>1, PTL

\* Resolve returns releases in the order of their publication, with a cache
\* and without: a runner is never launched with an older release than one
\* launched before it.
THEOREM NeverOlderCorrect == ResolverSpec => NeverOlder
<1>1. ASSUME ResolverInv, [ResolverNext]_resolverVars
      PROVE  \A a \in Arch : best'[a] >= best[a]
  <2> USE DEF ResolverInv, ResolverTypeOK, CacheInv, FetchInv, Version
  <2>1. ASSUME NEW k \in Caller, Hit(k)
        PROVE  \A a \in Arch : best'[a] >= best[a]
    BY <1>1, <2>1 DEF Hit, Return
  <2>2. ASSUME NEW k \in Caller, Store(k)
        PROVE  \A a \in Arch : best'[a] >= best[a]
    BY <1>1, <2>2 DEF Store, Return
  <2>3. ASSUME NEW k \in Caller, FetchFails(k)
        PROVE  \A a \in Arch : best'[a] >= best[a]
    BY <1>1, <2>3 DEF FetchFails, Return
  <2>4. CASE UNCHANGED best
    BY <1>1, <2>4
  <2>5. \/ \E k \in Caller : Hit(k) \/ Store(k) \/ FetchFails(k)
        \/ UNCHANGED best
    BY <1>1
    DEF ResolverNext, resolverVars, Call, Miss, Answered, Publish, TTLExpires
  <2> QED
    BY <2>1, <2>2, <2>3, <2>4, <2>5
<1>2. ResolverInv /\ [ResolverNext]_resolverVars
        => [\A a \in Arch : best'[a] >= best[a]]_resolverVars
  BY <1>1
<1> QED
  BY <1>2, ResolverCorrect, PTL DEF ResolverSpec, NeverOlder
=============================================================================
