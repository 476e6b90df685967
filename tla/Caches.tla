------------------------------ MODULE Caches ------------------------------
(***************************************************************************)
(* What replicas remember of the configuration while administrators change *)
(* it: the virtual key cached in Redis (auth/virtualKeyCache.ts), the      *)
(* router settings each process keeps (router/settings.ts), and the cached *)
(* responses, whose key holds an epoch (cache/responseCache.ts, the        *)
(* middleware of admin/index.ts, openResponseCache).                       *)
(*                                                                         *)
(* Abstractions.  One virtual key, one payload, and a version for each of  *)
(* the three things administrators change.  Times to live are fairness.    *)
(***************************************************************************)
EXTENDS Naturals

CONSTANTS
    Replicas, Requests, None,
    MaxChanges   \* changes administrators make

VARIABLES
    stored,    \* the version of each thing in Postgres
    epoch,     \* CACHE_EPOCH_KEY
    entries,   \* the versions each cached response was made under, by epoch
    keyCache,  \* the version of the row in Redis
    settings,  \* globalCache of each replica
    admin,     \* the mutation in progress
    request,   \* requests in progress
    changes,
    due        \* the versions a request that begins now must see

vars == <<stored, epoch, entries, keyCache, settings, admin, request, changes, due>>

Things == {"key", "settings", "deployments"}
Idle == [at |-> "idle"]
Larger(a, b) == IF a > b THEN a ELSE b

Init ==
    /\ stored = [t \in Things |-> 0] /\ epoch = 0 /\ entries = [e \in 0..2 * MaxChanges |-> None]
    /\ keyCache = None /\ settings = [r \in Replicas |-> None]
    /\ admin = Idle /\ request = [k \in Requests |-> Idle] /\ changes = 0
    /\ due = [key |-> 0, deployments |-> 0, settings |-> [r \in Replicas |-> 0]]

-----------------------------------------------------------------------------
(* A mutation on one replica, between the two steps of the middleware.      *)

Arrives(t, r) ==
    /\ admin = Idle /\ changes < MaxChanges
    /\ changes' = changes + 1 /\ epoch' = epoch + 1
    /\ admin' = [at |-> "commit", thing |-> t, r |-> r, version |-> 0]
    /\ UNCHANGED <<stored, entries, keyCache, settings, request, due>>

Commits ==
    /\ admin.at = "commit"
    /\ stored' = [stored EXCEPT ![admin.thing] = @ + 1]
    /\ admin' = [admin EXCEPT !.at = "invalidate", !.version = stored'[admin.thing]]
    /\ UNCHANGED <<epoch, entries, keyCache, settings, request, changes, due>>

\* Mutated form: the update forgets the cache of its own replica.
SettingsLeft(r) == settings

SettingsWithout(r) == [settings EXCEPT ![r] = None]

\* A look-up that read the old row and has not stored it yet stores it afterwards:
\* it escapes the invalidation, and nothing is due.
InFlight(at, seen) == \E k \in Requests : request[k].at = at /\ request[k].seen < seen

Invalidates ==
    /\ admin.at = "invalidate"
    /\ admin' = [admin EXCEPT !.at = "advance"]
    /\ CASE admin.thing = "key" ->
              /\ keyCache' = None /\ UNCHANGED settings
              /\ due' = IF InFlight("putKey", admin.version) THEN due ELSE [due EXCEPT !.key = Larger(@, admin.version)]
         [] admin.thing = "settings" ->
              /\ settings' = SettingsWithout(admin.r) /\ UNCHANGED keyCache
              /\ due' = IF InFlight("putSettings", admin.version) THEN due
                        ELSE [due EXCEPT !.settings[admin.r] = Larger(@, admin.version)]
         [] OTHER -> UNCHANGED <<keyCache, settings, due>>
    /\ UNCHANGED <<stored, epoch, entries, request, changes>>

\* Mutated form: the epoch advances before the handler only.
EpochOnce == epoch

EpochAfter == epoch + 1

\* The second advance is for a handler that answered 2xx or 3xx.
Completes ==
    /\ admin.at = "advance"
    /\ epoch' = EpochAfter /\ admin' = Idle
    /\ due' = IF admin.thing = "deployments" THEN [due EXCEPT !.deployments = Larger(@, admin.version)] ELSE due
    /\ UNCHANGED <<stored, entries, keyCache, settings, request, changes>>

\* The handler fails, before or after what it committed, or the replica dies.
Fails ==
    /\ admin # Idle /\ admin' = Idle
    /\ UNCHANGED <<stored, epoch, entries, keyCache, settings, request, changes, due>>

-----------------------------------------------------------------------------
(* A request: its key, the response cache, the settings, its route.  What    *)
(* a later step no longer needs is forgotten.                                *)

Goes(k, change) == request' = [request EXCEPT ![k] = change]

Begins(k, r) ==
    /\ request[k] = Idle
    /\ Goes(k, [at |-> "getKey", r |-> r, due |-> [due EXCEPT !.settings = due.settings[r]],
                seen |-> 0, key |-> 0, epoch |-> 0, with |-> [settings |-> 0, deployments |-> 0]])
    /\ UNCHANGED <<stored, epoch, entries, keyCache, settings, admin, changes, due>>

\* getCachedVirtualKey: Redis, or the row, which is then stored in Redis.
GetsKey(k) ==
    /\ request[k].at = "getKey"
    /\ Goes(k, IF keyCache # None THEN [request[k] EXCEPT !.key = keyCache, !.at = "open"]
               ELSE [request[k] EXCEPT !.seen = stored["key"], !.at = "putKey"])
    /\ UNCHANGED <<stored, epoch, entries, keyCache, settings, admin, changes, due>>

PutsKey(k) ==
    /\ request[k].at = "putKey"
    /\ keyCache' = request[k].seen
    /\ Goes(k, [request[k] EXCEPT !.key = request[k].seen, !.seen = 0, !.at = "open"])
    /\ UNCHANGED <<stored, epoch, entries, settings, admin, changes, due>>

\* openResponseCache
Opens(k) ==
    /\ request[k].at = "open"
    /\ Goes(k, [request[k] EXCEPT !.epoch = epoch, !.at = "look", !.key = 0, !.due.key = 0])
    /\ UNCHANGED <<stored, epoch, entries, keyCache, settings, admin, changes, due>>

Looks(k) ==
    /\ request[k].at = "look"
    /\ LET entry == entries[request[k].epoch] IN
       Goes(k, IF entry # None THEN [request[k] EXCEPT !.with.deployments = entry, !.at = "hit"]
               ELSE [request[k] EXCEPT !.at = "settings", !.due.deployments = 0])
    /\ UNCHANGED <<stored, epoch, entries, keyCache, settings, admin, changes, due>>

\* loadGlobal
GetsSettings(k) ==
    /\ request[k].at = "settings"
    /\ Goes(k, IF settings[request[k].r] # None
               THEN [request[k] EXCEPT !.with.settings = settings[request[k].r], !.at = "route"]
               ELSE [request[k] EXCEPT !.seen = stored["settings"], !.at = "putSettings"])
    /\ UNCHANGED <<stored, epoch, entries, keyCache, settings, admin, changes, due>>

PutsSettings(k) ==
    /\ request[k].at = "putSettings"
    /\ settings' = [settings EXCEPT ![request[k].r] = request[k].seen]
    /\ Goes(k, [request[k] EXCEPT !.with.settings = request[k].seen, !.seen = 0, !.at = "route"])
    /\ UNCHANGED <<stored, epoch, entries, keyCache, admin, changes, due>>

\* Candidates are read from Postgres by every request.
Routes(k) ==
    /\ request[k].at = "route"
    /\ Goes(k, [request[k] EXCEPT !.with = [settings |-> 0, deployments |-> stored["deployments"]],
                                 !.due.settings = 0, !.at = "store"])
    /\ UNCHANGED <<stored, epoch, entries, keyCache, settings, admin, changes, due>>

\* The response is stored under the key made at the start, or is not cached.
Stores(k) ==
    /\ request[k].at = "store"
    /\ entries' = [entries EXCEPT ![request[k].epoch] = request[k].with.deployments]
    /\ Goes(k, Idle)
    /\ UNCHANGED <<stored, epoch, keyCache, settings, admin, changes, due>>

Leaves(k) ==
    /\ request[k].at \in {"hit", "store"}
    /\ Goes(k, Idle)
    /\ UNCHANGED <<stored, epoch, entries, keyCache, settings, admin, changes, due>>

-----------------------------------------------------------------------------
(* Times to live. *)

\* Mutated form: a replica keeps its settings for good.
SettingsStay(r) == FALSE

SettingsExpire(r) == settings[r] # None

ExpireSettings(r) ==
    /\ SettingsExpire(r) /\ settings' = [settings EXCEPT ![r] = None]
    /\ UNCHANGED <<stored, epoch, entries, keyCache, admin, request, changes, due>>

ExpireKey ==
    /\ keyCache # None /\ keyCache' = None
    /\ UNCHANGED <<stored, epoch, entries, settings, admin, request, changes, due>>

ExpireEntry(e) ==
    /\ entries[e] # None /\ entries' = [entries EXCEPT ![e] = None]
    /\ UNCHANGED <<stored, epoch, keyCache, settings, admin, request, changes, due>>

-----------------------------------------------------------------------------
Serves(k) ==
    \/ GetsKey(k) \/ PutsKey(k) \/ Opens(k) \/ Looks(k) \/ GetsSettings(k) \/ PutsSettings(k)
    \/ Routes(k) \/ Stores(k) \/ Leaves(k)

Next ==
    \/ \E t \in Things, r \in Replicas : Arrives(t, r)
    \/ Commits \/ Invalidates \/ Completes \/ Fails
    \/ \E k \in Requests : Serves(k) \/ \E r \in Replicas : Begins(k, r)
    \/ \E r \in Replicas : ExpireSettings(r)
    \/ ExpireKey
    \/ \E e \in DOMAIN entries : ExpireEntry(e)

\* Requests have deadlines; expiry is Redis's and the clock's.
Steady == \/ \E k \in Requests : Serves(k)
          \/ Commits \/ Invalidates \/ Completes
Fairness ==
    /\ WF_vars(Steady) /\ WF_vars(ExpireKey) /\ \A r \in Replicas : WF_vars(ExpireSettings(r))
-----------------------------------------------------------------------------
TypeOK ==
    /\ stored \in [Things -> 0..MaxChanges] /\ epoch \in 0..2 * MaxChanges
    /\ keyCache \in 0..MaxChanges \cup {None}
    /\ \A r \in Replicas : settings[r] \in 0..MaxChanges \cup {None}

\* A request that begins after a change of the deployments has completed is never
\* answered from the cache with a response made before ("Global logical generation
\* that makes invalidation safe against concurrent cache writes", responseCache.ts).
HitsCurrent == \A k \in Requests : request[k].at = "hit" => request[k].with.deployments >= request[k].due.deployments

\* Nor does it run under the key's former row ("Invalidates a key's cache by its
\* hash"), or, on the replica of the change, under the former settings ("visible to
\* the next request immediately", settings.ts).  A look-up in flight escapes both.
KeyCurrent == \A k \in Requests : request[k].at = "open" => request[k].key >= request[k].due.key
SettingsCurrent == \A k \in Requests : request[k].at = "route" => request[k].with.settings >= request[k].due.settings

CachesKept == HitsCurrent /\ KeyCurrent /\ SettingsCurrent

\* What escaped expires: every cache comes to hold the last change, or nothing.
CachesCatchUp ==
    /\ <>[](keyCache \in {None, stored["key"]})
    /\ \A r \in Replicas : <>[](settings[r] \in {None, stored["settings"]})
=============================================================================
