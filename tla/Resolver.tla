------------------------------ MODULE Resolver ------------------------------
(***************************************************************************)
(* LatestResolver of internal/runner/resolver.go: the release of           *)
(* actions/runner that every spawn task of every class asks for.  One      *)
(* mutex is held from the look at the cache to the end of the network      *)
(* call, so callers queue behind a slow fetch.                             *)
(***************************************************************************)
EXTENDS Integers

CONSTANTS
  Caller,       \* the spawn tasks
  Arch,         \* the architectures the classes use
  MaxVersion    \* bound: how many releases are published

Nobody == "nobody"

ASSUME ResolverAssumption ==
  /\ MaxVersion \in Nat \ {0}
  /\ Nobody \notin Caller

VARIABLES
  caching,     \* the ttl is positive; a ttl of zero means never cache
  latest,      \* GitHub: the newest release; releases are never withdrawn
  holder,      \* who holds the mutex
  at,          \* at[k]: where Resolve is for caller k
  arch,        \* arch[k]: its argument
  answer,      \* answer[k]: the release GitHub has answered with, 0 for none
  cached,      \* cached[a]: the cached release, 0 for none
  fresh,       \* fresh[a]: the cached release is younger than the ttl
  fills,       \* history: fetches stored since the ttl last ran out
  best,        \* history: the last release returned for a
  refused      \* history: an error was returned for a after a release had been

resolverVars ==
  <<caching, latest, holder, at, arch, answer, cached, fresh, fills, best,
    refused>>

Version == 0 .. MaxVersion

\* Every variable has its type, the mutex belongs to the one caller that is
\* fetching, and only a release that is cached can be fresh.
ResolverTypeOK ==
  /\ caching \in BOOLEAN
  /\ latest \in 1 .. MaxVersion
  /\ holder \in Caller \cup {Nobody}
  /\ at \in [Caller -> {"idle", "lock", "fetch", "store"}]
  /\ arch \in [Caller -> Arch]
  /\ answer \in [Caller -> Version]
  /\ cached \in [Arch -> Version]
  /\ fresh \in [Arch -> BOOLEAN]
  /\ fills \in [Arch -> Nat]
  /\ best \in [Arch -> Version]
  /\ refused \in [Arch -> BOOLEAN]
  /\ \A k \in Caller : at[k] \in {"fetch", "store"} <=> holder = k
  /\ \A a \in Arch : fresh[a] => cached[a] # 0

ResolverInit ==
  /\ caching \in BOOLEAN
  /\ latest = 1
  /\ holder = Nobody
  /\ at = [k \in Caller |-> "idle"]
  /\ arch \in [Caller -> Arch]
  /\ answer = [k \in Caller |-> 0]
  /\ cached = [a \in Arch |-> 0]
  /\ fresh = [a \in Arch |-> FALSE]
  /\ fills = [a \in Arch |-> 0]
  /\ best = [a \in Arch |-> 0]
  /\ refused = [a \in Arch |-> FALSE]

----------------------------------------------------------------------------

Return(k, v) ==
  /\ at' = [at EXCEPT ![k] = "idle"]
  /\ answer' = [answer EXCEPT ![k] = 0]
  /\ best' = [best EXCEPT ![arch[k]] = v]

Call(k, a) ==
  /\ at[k] = "idle"
  /\ at' = [at EXCEPT ![k] = "lock"]
  /\ arch' = [arch EXCEPT ![k] = a]
  /\ UNCHANGED <<caching, latest, holder, answer, cached, fresh, fills, best,
                 refused>>

\* A fresh release is returned without leaving the critical section.
Hit(k) ==
  /\ at[k] = "lock"
  /\ holder = Nobody
  /\ fresh[arch[k]]
  /\ Return(k, cached[arch[k]])
  /\ UNCHANGED <<caching, latest, holder, arch, cached, fresh, fills, refused>>

\* Mutant: the mutex is not held during the fetch.
Miss_Unlocked(k) ==
  /\ at[k] = "lock"
  /\ ~fresh[arch[k]]
  /\ at' = [at EXCEPT ![k] = "fetch"]
  /\ UNCHANGED <<caching, latest, holder, arch, answer, cached, fresh, fills,
                 best, refused>>

Miss(k) ==
  /\ at[k] = "lock"
  /\ holder = Nobody
  /\ ~fresh[arch[k]]
  /\ holder' = k
  /\ at' = [at EXCEPT ![k] = "fetch"]
  /\ UNCHANGED <<caching, latest, arch, answer, cached, fresh, fills, best,
                 refused>>

\* GitHub answers with the release that is the latest at that moment.
Answered(k) ==
  /\ at[k] = "fetch"
  /\ at' = [at EXCEPT ![k] = "store"]
  /\ answer' = [answer EXCEPT ![k] = latest]
  /\ UNCHANGED <<caching, latest, holder, arch, cached, fresh, fills, best,
                 refused>>

\* The ttl runs from the moment the answer is stored, if it is stored.
Store(k) ==
  /\ at[k] = "store"
  /\ holder' = Nobody
  /\ IF caching
       THEN /\ cached' = [cached EXCEPT ![arch[k]] = answer[k]]
            /\ fresh' = [fresh EXCEPT ![arch[k]] = TRUE]
            /\ fills' = [fills EXCEPT ![arch[k]] = @ + 1]
       ELSE UNCHANGED <<cached, fresh, fills>>
  /\ Return(k, answer[k])
  /\ UNCHANGED <<caching, latest, arch, refused>>

\* Mutant: an error is returned whatever is cached.
FetchFails_NoFallback(k) ==
  /\ at[k] \in {"fetch", "store"}
  /\ holder' = Nobody
  /\ at' = [at EXCEPT ![k] = "idle"]
  /\ answer' = [answer EXCEPT ![k] = 0]
  /\ refused' = [refused EXCEPT ![arch[k]] = @ \/ best[arch[k]] # 0]
  /\ UNCHANGED <<caching, latest, arch, cached, fresh, fills, best>>

\* Mutant: the error path returns without unlocking.
FetchFails_KeepsLock(k) ==
  /\ at[k] \in {"fetch", "store"}
  /\ at' = [at EXCEPT ![k] = "idle"]
  /\ answer' = [answer EXCEPT ![k] = 0]
  /\ UNCHANGED <<caching, latest, holder, arch, cached, fresh, fills, best,
                 refused>>

\* Mutant: the caller tries again instead of returning an error.
FetchFails_Retries(k) ==
  /\ at[k] \in {"fetch", "store"}
  /\ holder' = Nobody
  /\ at' = [at EXCEPT ![k] = "lock"]
  /\ answer' = [answer EXCEPT ![k] = 0]
  /\ UNCHANGED <<caching, latest, arch, cached, fresh, fills, best, refused>>

\* No answer, an answer that is refused, or a context that is done.  A cached
\* release of any age is better than an error, and it stays as old as it is.
FetchFails(k) ==
  /\ at[k] \in {"fetch", "store"}
  /\ holder' = Nobody
  /\ IF cached[arch[k]] # 0
       THEN Return(k, cached[arch[k]]) /\ UNCHANGED refused
       ELSE /\ at' = [at EXCEPT ![k] = "idle"]
            /\ answer' = [answer EXCEPT ![k] = 0]
            /\ refused' = [refused EXCEPT ![arch[k]] = @ \/ best[arch[k]] # 0]
            /\ UNCHANGED best
  /\ UNCHANGED <<caching, latest, arch, cached, fresh, fills>>

Publish ==
  /\ latest < MaxVersion
  /\ latest' = latest + 1
  /\ UNCHANGED <<caching, holder, at, arch, answer, cached, fresh, fills, best,
                 refused>>

TTLExpires(a) ==
  /\ fresh[a]
  /\ fresh' = [fresh EXCEPT ![a] = FALSE]
  /\ fills' = [fills EXCEPT ![a] = 0]
  /\ UNCHANGED <<caching, latest, holder, at, arch, answer, cached, best,
                 refused>>

ResolverNext ==
  \/ \E k \in Caller :
       \/ \E a \in Arch : Call(k, a)
       \/ Hit(k) \/ Miss(k) \/ Answered(k) \/ Store(k) \/ FetchFails(k)
  \/ Publish
  \/ \E a \in Arch : TTLExpires(a)

ResolverSpec == ResolverInit /\ [][ResolverNext]_resolverVars

----------------------------------------------------------------------------

\* A burst of callers makes one request: those that queued behind the fetch
\* find its result ("hits api.github.com once, not once per runner").
OneFetchPerWindow == \A a \in Arch : fills[a] <= 1

\* Whatever the order in which callers queue, answers arrive, fetches fail and
\* the ttl runs out, no caller gets an older release than one before it.
NeverOlder == [][\A a \in Arch : best'[a] >= best[a]]_resolverVars

\* With a cache, no outage of GitHub fails a spawn after the first success.
FallsBack == caching => \A a \in Arch : ~refused[a]

\* Every request has an end (the client's 30s timeout), and a goroutine that
\* waits for a mutex gets it (sync.Mutex hands it over to a starving waiter).
ResolverFairness ==
  \A k \in Caller :
    /\ SF_resolverVars(Hit(k) \/ Miss(k))
    /\ WF_resolverVars(Answered(k) \/ FetchFails(k))
    /\ WF_resolverVars(Store(k))

FairResolver == ResolverSpec /\ ResolverFairness

\* Every call returns, however many are queued for the mutex.
ResolveReturns == \A k \in Caller : at[k] = "lock" ~> at[k] = "idle"
=============================================================================
