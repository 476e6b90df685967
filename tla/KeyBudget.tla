----------------------------- MODULE KeyBudget -----------------------------
(***************************************************************************)
(* The spend budget of one virtual key (ratelimit/index.ts): conservative  *)
(* reservations in Redis reconciled to actual cost, seeded from the row in *)
(* Postgres, which also records the spend and when its window ends.        *)
(*                                                                         *)
(* Abstractions.  Time is a discrete clock shared by the replicas, Redis   *)
(* and Postgres; a step of the gateway takes any time up to MaxDuration.   *)
(* The sorted set of lease deadlines and the hash of lease amounts are     *)
(* always written together: one key.  Fewer than 256 leases expire at once.*)
(***************************************************************************)
EXTENDS Naturals, FiniteSets

CONSTANTS
    Requests,     \* concurrent requests of the key, over all replicas
    Settings,     \* the keys and circumstances to consider, each a record
    LeaseTtl,     \* LEASE_TTL_SECONDS
    MaxDuration,  \* longest time a request may take
    MaxTime,      \* bound on the clock
    CrashPhases   \* phases in which a replica may die

(***************************************************************************)
(* A key has a limit (maxBudgetCents) and a period (0: the budget never    *)
(* resets). No reservation exceeds cost, and no actual cost its own        *)
(* reservation. In trouble, Redis may lose its data and an administrator   *)
(* resets the spend.                                                       *)
(***************************************************************************)

ASSUME BudgetAssumption ==
    /\ IsFiniteSet(Requests)
    /\ \A s \in Settings :
         /\ s.requests \subseteq Requests /\ s.limit \in Nat
         /\ s.cost \in Nat \ {0} /\ s.period \in Nat /\ s.trouble \in BOOLEAN
    /\ LeaseTtl \in Nat /\ MaxDuration \in 1..(LeaseTtl - 1) /\ MaxTime \in Nat \ {0}

VARIABLES
    setting,   \* the key and the circumstances of a behaviour
    now,
    actual,    \* budget:{id}
    reserved,  \* budget-reserved:{id}
    leases,    \* budget-leases:{id} and budget-amounts:{id}
    row,       \* spend_cents and budget_reset_at in Postgres
    req,       \* the requests
    admin      \* the administrator's reset: "idle" or "clearing"

redisKeys == <<actual, reserved, leases>>
vars == <<setting, now, actual, reserved, leases, row, req, admin>>

(***************************************************************************)
(* A Redis key carries its expiry; Gone is an absent one.  The expiry of a *)
(* key without TTL lies beyond the clock.                                  *)
(***************************************************************************)
Forever == MaxTime + setting.period + LeaseTtl + 1
GoneNumber == [val |-> 0, exp |-> 0]
GoneLeases == [ids |-> {}, exp |-> 0]
Exists(key) == key.exp > 0

Until(ttl) == IF ttl > 0 THEN now + ttl ELSE Forever
Ttl(key) == IF Exists(key) /\ key.exp < Forever THEN key.exp - now ELSE 0

(***************************************************************************)
(* A request: "idle", "absent" (found no counter), "seeding" (holds the    *)
(* row it read, in seen), "zeroing" (has reset the row), "reserving",      *)
(* "live" and "settling", with the writes still to do.                     *)
(***************************************************************************)
Phases == {"idle", "absent", "seeding", "zeroing", "reserving", "live", "settling"}
Idle == [phase |-> "idle", since |-> 0, ttl |-> 0, seen |-> [spend |-> 0, resetAt |-> 0],
         amount |-> 0, deadline |-> 0, cost |-> 0, todo |-> {}]

\* nextResetAt: an expired window is followed by one that starts now.
NextResetAt == IF setting.period = 0 THEN Forever ELSE now + setting.period

Init ==
    /\ setting \in Settings
    /\ now = 1
    /\ actual = GoneNumber /\ reserved = GoneNumber /\ leases = GoneLeases
    /\ row = [spend |-> 0, resetAt |-> NextResetAt]
    /\ req = [r \in Requests |-> Idle]
    /\ admin = "idle"

Goes(r, record) == req' = [req EXCEPT ![r] = record]
-----------------------------------------------------------------------------
(* budgetSpendFromRedisOrDb.                                               *)

\* GET and TTL of the counter.
Finds(r, since) ==
    Goes(r, [Idle EXCEPT !.phase = IF Exists(actual) THEN "reserving" ELSE "absent",
                         !.since = since, !.ttl = Ttl(actual)])

Lookup(r) ==
    /\ req[r].phase = "idle"
    /\ Finds(r, now)
    /\ UNCHANGED <<setting, now, redisKeys, row, admin>>

ReadRow(r) ==
    /\ req[r].phase = "absent"
    /\ Goes(r, [req[r] EXCEPT !.phase = "seeding", !.seen = row])
    /\ UNCHANGED <<setting, now, redisKeys, row, admin>>

\* Mutated form: the counter is written even if it is there by now.
SeedsOverwriting(r, spend, ttl) ==
    /\ actual' = [val |-> spend, exp |-> Until(ttl)]
    /\ Goes(r, [req[r] EXCEPT !.phase = "reserving", !.ttl = ttl])

\* SET NX.  The request goes on with the counter's value, but with its own idea
\* of the remaining window.
Seeds(r, spend, ttl) ==
    /\ actual' = IF Exists(actual) THEN actual ELSE [val |-> spend, exp |-> Until(ttl)]
    /\ Goes(r, [req[r] EXCEPT !.phase = "reserving", !.ttl = ttl])

SecondsUntilReset(resetAt) ==
    IF setting.period = 0 THEN 0 ELSE IF resetAt > now THEN resetAt - now ELSE 1

Seed(r) ==
    /\ req[r].phase = "seeding" /\ req[r].seen.resetAt > now
    /\ Seeds(r, req[r].seen.spend, SecondsUntilReset(req[r].seen.resetAt))
    /\ UNCHANGED <<setting, now, reserved, leases, row, admin>>

\* Mutated form: the update has no condition on the row's reset time.
IsDueUnconditionally == TRUE

\* resetVirtualKeySpendIfDue: of the requests that saw an expired window one
\* resets the row, the others start over.
IsDue == row.resetAt <= now

ResetIfDue(r) ==
    /\ req[r].phase = "seeding" /\ req[r].seen.resetAt <= now
    /\ IF IsDue
       THEN /\ row' = [spend |-> 0, resetAt |-> NextResetAt]
            /\ Goes(r, [req[r] EXCEPT !.phase = "zeroing"])
       ELSE /\ Finds(r, req[r].since)
            /\ UNCHANGED row
    /\ UNCHANGED <<setting, now, redisKeys, admin>>

Zero(r) ==
    /\ req[r].phase = "zeroing"
    /\ Seeds(r, 0, setting.period)
    /\ UNCHANGED <<setting, now, reserved, leases, row, admin>>

\* enforceVirtualKey looks the budget up without reserving, and refuses or not.
Enforced(r) ==
    /\ req[r].phase = "reserving"
    /\ Goes(r, Idle)
    /\ UNCHANGED <<setting, now, redisKeys, row, admin>>
-----------------------------------------------------------------------------
(* The reservation.                                                        *)

\* The sum of f over the requests, as the number of its cents.
Cents(f) == UNION {{r} \X (1..f[r]) : r \in Requests}
Total(f) == Cardinality(Cents(f))

Amounts(ids) == Total([r \in Requests |-> IF r \in ids THEN req[r].amount ELSE 0])

Less(n, m) == IF n > m THEN n - m ELSE 0

\* Mutated form: leases are reclaimed ahead of their deadline.
OverdueSoon == {r \in leases.ids : req[r].deadline <= now + 1}

Overdue == {r \in leases.ids : req[r].deadline <= now}
LeaseTtlFor(ttl) == IF ttl > 0 /\ ttl < LeaseTtl THEN ttl ELSE LeaseTtl

\* RESERVE_LUA, reclaiming the expired leases first.
Reserve(r, amount) ==
    LET kept == leases.ids \ Overdue
        held == Less(reserved.val, Amounts(Overdue))
        ends == now + LeaseTtlFor(req[r].ttl)
    IN  /\ req[r].phase = "reserving"
        /\ \/ /\ actual.val + held + amount <= setting.limit
              /\ reserved' = [val |-> held + amount, exp |-> ends]
              /\ leases' = [ids |-> kept \cup {r}, exp |-> ends]
              /\ Goes(r, [req[r] EXCEPT !.phase = "live", !.amount = amount,
                                        !.deadline = now + LeaseTtl])
           \/ /\ actual.val + held + amount > setting.limit
              /\ reserved' = IF Overdue = {} THEN reserved
                             ELSE IF held = 0 THEN GoneNumber
                             ELSE [val |-> held, exp |-> ends]
              /\ leases' = IF kept = {} THEN GoneLeases ELSE [leases EXCEPT !.ids = kept]
              /\ Goes(r, Idle)
        /\ UNCHANGED <<setting, now, actual, row, admin>>
-----------------------------------------------------------------------------
(* Settlement.                                                             *)

\* settle, or with no cost release: the writes go to Redis and Postgres at once.
Settle(r, cost) ==
    /\ req[r].phase = "live"
    /\ Goes(r, [req[r] EXCEPT !.phase = "settling", !.cost = cost,
                              !.todo = {"redis"} \cup (IF cost > 0 THEN {"db"} ELSE {})])
    /\ UNCHANGED <<setting, now, redisKeys, row, admin>>

Done(r, write) ==
    Goes(r, IF req[r].todo = {write} THEN Idle
            ELSE [req[r] EXCEPT !.todo = @ \ {write}])

\* Mutated form: the lease is not consumed.
ExchangesKeepingLease(r) ==
    /\ reserved' = [val |-> Less(reserved.val, req[r].amount),
                    exp |-> now + LeaseTtlFor(req[r].ttl)]
    /\ actual' = [val |-> actual.val + req[r].cost,
                  exp |-> IF req[r].ttl > 0 THEN Until(req[r].ttl) ELSE Forever]
    /\ UNCHANGED leases

\* SETTLE_LUA for a lease that is there.  A cost moves the expiry of the
\* counter to what was left of the window at the time of the reservation.
Exchanges(r) ==
    LET kept == leases.ids \ {r}
    IN  /\ leases' = IF kept = {} THEN GoneLeases ELSE [leases EXCEPT !.ids = kept]
        /\ reserved' = [val |-> Less(reserved.val, req[r].amount),
                        exp |-> now + LeaseTtlFor(req[r].ttl)]
        /\ actual' = IF req[r].cost = 0 THEN actual
                     ELSE [val |-> actual.val + req[r].cost,
                           exp |-> IF req[r].ttl > 0 THEN Until(req[r].ttl)
                                   ELSE IF Exists(actual) THEN actual.exp ELSE Forever]

SettleRedis(r) ==
    /\ req[r].phase = "settling" /\ "redis" \in req[r].todo
    /\ IF r \in leases.ids THEN Exchanges(r) ELSE UNCHANGED redisKeys
    /\ Done(r, "redis")
    /\ UNCHANGED <<setting, now, row, admin>>

\* addVirtualKeySpend.
AddSpend(r) ==
    /\ req[r].phase = "settling" /\ "db" \in req[r].todo
    /\ row' = [row EXCEPT !.spend = @ + req[r].cost]
    /\ Done(r, "db")
    /\ UNCHANGED <<setting, now, redisKeys, admin>>
-----------------------------------------------------------------------------
(* The administrator, failures and time.                                   *)

\* resetVirtualKeySpend, then clearVirtualKeyBudget.
AdminResetRow ==
    /\ setting.trouble /\ admin = "idle"
    /\ row' = [spend |-> 0, resetAt |-> NextResetAt]
    /\ admin' = "clearing"
    /\ UNCHANGED <<setting, now, redisKeys, req>>

ForgetRedis ==
    /\ actual' = GoneNumber /\ reserved' = GoneNumber /\ leases' = GoneLeases

AdminClear ==
    /\ admin = "clearing"
    /\ ForgetRedis
    /\ admin' = "idle"
    /\ UNCHANGED <<setting, now, row, req>>

RedisLost ==
    /\ setting.trouble
    /\ ForgetRedis
    /\ UNCHANGED <<setting, now, row, req, admin>>

\* The amount and deadline of a lease stay in Redis when its request dies; the
\* slot is free for another request once the lease is gone.
Crash(r) ==
    /\ req[r].phase \in CrashPhases
    /\ Goes(r, [req[r] EXCEPT !.phase = "crashed"])
    /\ UNCHANGED <<setting, now, redisKeys, row, admin>>

Reuse(r) ==
    /\ req[r].phase = "crashed" /\ r \notin leases.ids
    /\ Goes(r, Idle)
    /\ UNCHANGED <<setting, now, redisKeys, row, admin>>

Expires(key, gone) == IF key.exp <= now + 1 THEN gone ELSE key

Tick ==
    /\ now < MaxTime
    /\ \A r \in Requests :
          req[r].phase \notin {"idle", "crashed"} => now < req[r].since + MaxDuration
    /\ now' = now + 1
    /\ actual' = Expires(actual, GoneNumber)
    /\ reserved' = Expires(reserved, GoneNumber)
    /\ leases' = Expires(leases, GoneLeases)
    /\ UNCHANGED <<setting, row, req, admin>>

Next ==
    \/ \E r \in setting.requests :
          \/ Lookup(r) \/ ReadRow(r) \/ Seed(r) \/ ResetIfDue(r) \/ Zero(r) \/ Enforced(r)
          \/ \E amount \in 1..setting.cost : Reserve(r, amount)
          \/ \E cost \in 0..req[r].amount : Settle(r, cost)
          \/ SettleRedis(r) \/ AddSpend(r)
          \/ Crash(r) \/ Reuse(r)
    \/ AdminResetRow \/ AdminClear \/ RedisLost \/ Tick

Spec == Init /\ [][Next]_vars
-----------------------------------------------------------------------------
TypeOK ==
    /\ setting \in Settings
    /\ now \in 1..MaxTime
    /\ \A key \in {actual, reserved} : key.val \in Nat /\ key.exp \in {0} \cup ((now + 1)..Forever)
    /\ leases.ids \subseteq Requests /\ leases.exp \in 0..Forever
    /\ row.spend \in Nat /\ row.resetAt \in Nat
    /\ \A r \in Requests :
          /\ req[r].phase \in Phases \cup {"crashed"}
          /\ req[r].amount \in 0..setting.cost /\ req[r].cost \in 0..req[r].amount
          /\ req[r].todo \subseteq {"redis", "db"}
    /\ admin \in {"idle", "clearing"}

Unwritten(write) ==
    Total([r \in Requests |-> IF write \in req[r].todo THEN req[r].cost ELSE 0])

\* Nobody's reservation is returned twice or for somebody else: the reserved
\* counter of a budget that never resets covers the amounts of the leases.
ReservedCoversLeases ==
    TypeOK /\ (setting.period = 0 => reserved.val >= Amounts(leases.ids))

\* The same of any budget: "atomically reserves a conservative maximum cost"
\* (virtual-keys.mdx:77).  A settlement may end the counter before the leases.
ReservedCoversAlways == reserved.val >= Amounts(leases.ids)

\* "Expired leases are reclaimed before each admission, so a crashed replica
\* cannot strand capacity": after an admission, leases hold all that is reserved.
CrashStrandsNothing ==
    [][\A r \in Requests :
         req[r].phase = "reserving" /\ req'[r].phase = "live"
           => reserved'.val = Amounts(leases.ids)']_vars

\* The two ledgers of a budget agree on every cent that both have been told:
\* concurrent seeding never hides spend from the counter of a budget that
\* never resets, while Redis keeps its data.
LedgersAgree ==
    setting.period = 0 /\ ~setting.trouble /\ Exists(actual) =>
        row.spend + Unwritten("db") = actual.val + Unwritten("redis")

\* The recorded spend of such a budget never exceeds its limit.
HardCap == setting.period = 0 /\ ~setting.trouble => row.spend <= setting.limit

\* Requests that find the window expired at the same time reset it once: spend
\* recorded after a reset is not wiped by the reset of another request.
SpendWipedOnlyWhenDue ==
    [][row'.spend < row.spend =>
          admin' = "clearing" \/ (row.resetAt <= now /\ row'.resetAt > now)]_vars

\* The counter ends with the window of its row, give or take one request.
RollsOver == Exists(actual) => actual.exp <= row.resetAt + MaxDuration

\* A counter rebuilt after a loss shows no less than the row, once every write
\* has arrived.
RebuiltFromRow ==
    Exists(actual) /\ (\A r \in Requests : req[r].phase = "idle")
        => actual.val >= row.spend
=============================================================================
