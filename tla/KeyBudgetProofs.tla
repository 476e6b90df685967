-------------------------- MODULE KeyBudgetProofs --------------------------
(***************************************************************************)
(* For any number of requests and any settings: the reserved counter of a  *)
(* budget that never resets covers its leases, both ledgers agree on what  *)
(* both were told, and the recorded spend stays within the limit.          *)
(*                                                                         *)
(* A sum over the requests is the cardinality of Cents(f), so the only     *)
(* arithmetic is that of adding or removing the cents of one request.      *)
(***************************************************************************)
EXTENDS KeyBudget, FiniteSetTheorems, TLAPS

Tallies(N) == [Requests -> 0..N]

Own(r, n) == {r} \X (1..n)

\* A request owns the cents it counts for.
LEMMA CentsOf ==
    ASSUME NEW N \in Nat, NEW f \in Tallies(N)
    PROVE  Cents(f) = {c \in Requests \X (1..N) : c[2] <= f[c[1]]}
<1> DEFINE S == {c \in Requests \X (1..N) : c[2] <= f[c[1]]}
<1>1. ASSUME NEW c \in Cents(f) PROVE c \in S
  <2>1. PICK r \in Requests : c \in {r} \X (1..f[r])
    BY DEF Cents
  <2>2. f[r] \in 0..N
    BY DEF Tallies
  <2> QED  BY <2>1, <2>2
<1>2. ASSUME NEW c \in S PROVE c \in Cents(f)
  <2>1. c[1] \in Requests /\ c[2] \in 1..f[c[1]] /\ c = <<c[1], c[2]>>
    BY DEF Tallies
  <2>2. c \in {c[1]} \X (1..f[c[1]])
    BY <2>1
  <2> QED  BY <2>1, <2>2 DEF Cents
<1> QED  BY <1>1, <1>2

LEMMA TotalNatural ==
    \A N \in Nat : \A f \in Tallies(N) : IsFiniteSet(Cents(f)) /\ Total(f) \in Nat
<1> SUFFICES ASSUME NEW N \in Nat, NEW f \in Tallies(N)
             PROVE  IsFiniteSet(Cents(f)) /\ Total(f) \in Nat
  OBVIOUS
<1>1. IsFiniteSet(Requests) /\ IsFiniteSet(1..N)
  BY BudgetAssumption, FS_Interval DEF BudgetAssumption
<1>2. IsFiniteSet(Requests \X (1..N))
  BY <1>1, FS_Product
<1>3. Cents(f) \subseteq Requests \X (1..N)
  BY CentsOf
<1> QED  BY <1>2, <1>3, FS_Subset, FS_CardinalityType DEF Total

LEMMA TotalMonotone ==
    ASSUME NEW N \in Nat, NEW f \in Tallies(N), NEW g \in Tallies(N), \A r \in Requests : f[r] <= g[r]
    PROVE  Total(f) <= Total(g)
<1>1. Cents(f) \subseteq Cents(g)
  <2> SUFFICES ASSUME NEW c \in Requests \X (1..N), c[2] <= f[c[1]] PROVE c[2] <= g[c[1]]
    BY CentsOf
  <2>1. c[1] \in Requests /\ c[2] \in Nat /\ f[c[1]] \in Nat /\ g[c[1]] \in Nat
    BY DEF Tallies
  <2> QED  BY <2>1
<1> QED  BY <1>1, TotalNatural, FS_Subset DEF Total

LEMMA TotalZero ==
    ASSUME NEW f, \A r \in Requests : f[r] = 0 PROVE Total(f) = 0
<1>1. Cents(f) = {}
  <2> SUFFICES ASSUME NEW c \in Cents(f) PROVE FALSE
    OBVIOUS
  <2>1. PICK r \in Requests : c \in {r} \X (1..f[r])
    BY DEF Cents
  <2> QED  BY <2>1
<1> QED  BY <1>1, FS_EmptySet DEF Total

\* Requests divided between two tallies.
LEMMA TotalSplit ==
    ASSUME NEW N \in Nat, NEW f \in Tallies(N), NEW g \in Tallies(N), NEW h \in Tallies(N),
           \A r \in Requests : \/ f[r] = g[r] /\ h[r] = 0
                               \/ f[r] = h[r] /\ g[r] = 0
    PROVE  Total(f) = Total(g) + Total(h)
<1>1. Cents(f) = Cents(g) \cup Cents(h) /\ Cents(g) \cap Cents(h) = {}
  <2>1. ASSUME NEW c \in Requests \X (1..N)
        PROVE  /\ c[2] <= f[c[1]] <=> c[2] <= g[c[1]] \/ c[2] <= h[c[1]]
               /\ ~(c[2] <= g[c[1]] /\ c[2] <= h[c[1]])
    <3>1. c[1] \in Requests /\ c[2] \in 1..N
      OBVIOUS
    <3>2. f[c[1]] \in Nat /\ g[c[1]] \in Nat /\ h[c[1]] \in Nat
      BY <3>1 DEF Tallies
    <3> QED  BY <3>1, <3>2
  <2>2. /\ Cents(f) = {c \in Requests \X (1..N) : c[2] <= f[c[1]]}
        /\ Cents(g) = {c \in Requests \X (1..N) : c[2] <= g[c[1]]}
        /\ Cents(h) = {c \in Requests \X (1..N) : c[2] <= h[c[1]]}
    BY CentsOf
  <2> QED  BY <2>1, <2>2
<1>2. IsFiniteSet(Cents(g)) /\ IsFiniteSet(Cents(h))
  BY TotalNatural
<1>3. Cardinality(Cents(g) \cup Cents(h)) = Cardinality(Cents(g)) + Cardinality(Cents(h))
  <2>1. Cardinality(Cents(g) \cap Cents(h)) = 0
    BY <1>1, FS_EmptySet
  <2>2. Cardinality(Cents(g)) \in Nat /\ Cardinality(Cents(h)) \in Nat
    BY TotalNatural DEF Total
  <2>3. Cardinality(Cents(g) \cup Cents(h))
           = Cardinality(Cents(g)) + Cardinality(Cents(h)) - Cardinality(Cents(g) \cap Cents(h))
    BY <1>2, FS_Union, Zenon
  <2> QED  BY <2>1, <2>2, <2>3
<1> QED  BY <1>1, <1>3 DEF Total

\* One request counts for what it owns.
LEMMA TotalOfOne ==
    ASSUME NEW N \in Nat, NEW f \in Tallies(N), NEW r \in Requests,
           \A q \in Requests \ {r} : f[q] = 0
    PROVE  Total(f) = f[r]
<1>1. Cents(f) = Own(r, f[r])
  <2>1. ASSUME NEW c \in Cents(f) PROVE c \in Own(r, f[r])
    <3>1. PICK q \in Requests : c \in {q} \X (1..f[q])
      BY DEF Cents
    <3>2. q = r
      BY <3>1
    <3> QED  BY <3>1, <3>2 DEF Own
  <2>2. Own(r, f[r]) \subseteq Cents(f)
    BY DEF Own, Cents
  <2> QED  BY <2>1, <2>2
<1>2. f[r] \in Nat
  BY DEF Tallies
<1>3. \A n \in Nat : IsFiniteSet(1..n) /\ Cardinality(1..n) = n
  BY FS_Interval
<1>4. IsFiniteSet({r}) /\ Cardinality({r}) = 1
  BY FS_Singleton
<1>5. ASSUME NEW n \in Nat PROVE Cardinality(Own(r, n)) = n
  <2>1. Cardinality({r} \X (1..n)) = Cardinality({r}) * Cardinality(1..n)
    BY <1>3, <1>4, FS_Product
  <2> QED  BY <1>3, <1>4, <2>1 DEF Own
<1> QED  BY <1>1, <1>2, <1>5 DEF Total

\* What changing one request does to a total.
LEMMA TotalChange ==
    ASSUME NEW N \in Nat, NEW f \in Tallies(N), NEW g \in Tallies(N), NEW r \in Requests,
           \A q \in Requests \ {r} : g[q] = f[q]
    PROVE  Total(g) + f[r] = Total(f) + g[r]
<1> DEFINE rest == [q \in Requests |-> IF q = r THEN 0 ELSE f[q]]
           of(n) == [q \in Requests |-> IF q = r THEN n ELSE 0]
<1>1. rest \in Tallies(N) /\ of(f[r]) \in Tallies(N) /\ of(g[r]) \in Tallies(N)
  BY DEF Tallies
<1>2. Total(f) = Total(rest) + Total(of(f[r]))
  BY <1>1, TotalSplit
<1>3. Total(g) = Total(rest) + Total(of(g[r]))
  BY <1>1, TotalSplit
<1>4. Total(of(f[r])) = f[r] /\ Total(of(g[r])) = g[r]
  BY <1>1, TotalOfOne
<1>5. Total(rest) \in Nat /\ f[r] \in Nat /\ g[r] \in Nat
  BY <1>1, TotalNatural DEF Tallies
<1> HIDE DEF rest, of
<1> QED  BY <1>2, <1>3, <1>4, <1>5
-----------------------------------------------------------------------------
(* The inductive invariant. *)

Records == [phase : Phases \cup {"crashed"}, since : Nat, ttl : Nat,
            seen : [spend : Nat, resetAt : Nat], amount : Nat, deadline : Nat,
            cost : Nat, todo : SUBSET {"redis", "db"}]

\* The reset of a row is no further away than one period.
WithinPeriod(resetAt) == setting.period = 0 \/ resetAt <= now + setting.period

\* A record a request may have now.
Fits(q) ==
    /\ q \in Records /\ q.since <= now /\ q.ttl <= setting.period
    /\ q.amount <= setting.cost /\ q.cost <= q.amount /\ WithinPeriod(q.seen.resetAt)
    /\ q.phase \notin {"live", "settling", "crashed"} => q.amount = 0

Typed ==
    /\ setting \in Settings /\ now \in 1..MaxTime /\ admin \in {"idle", "clearing"}
    /\ actual \in [val : Nat, exp : Nat]
    /\ actual.exp \in {0, Forever} \/ actual.exp \in (now + 1)..(now + setting.period)
    /\ reserved \in [val : Nat, exp : Nat]
    /\ reserved.exp = 0 \/ reserved.exp \in (now + 1)..(now + LeaseTtl)
    /\ leases \in [ids : SUBSET Requests, exp : Nat] /\ leases.exp <= now + LeaseTtl
    /\ row \in [spend : Nat, resetAt : Nat] /\ WithinPeriod(row.resetAt)
    /\ req \in [Requests -> Records] /\ \A r \in Requests : Fits(req[r])

\* Leases belong to requests that are being served, settled or were lost.
Leased ==
    /\ \A r \in leases.ids :
          /\ req[r].amount >= 1
          /\ \/ req[r].phase \in {"live", "crashed"}
             \/ req[r].phase = "settling" /\ "redis" \in req[r].todo
    /\ \A r \in Requests : req[r].phase \notin {"settling", "crashed"} => req[r].todo = {}

\* Without a period the reserved counter outlives the leases.
Covered ==
    setting.period = 0 =>
        leases.exp <= reserved.exp /\ reserved.val >= Amounts(leases.ids)

Lifetime == setting.period = 0 /\ ~setting.trouble
Active(q) == q.phase = "live" \/ (q.phase = "settling" /\ "redis" \in q.todo)

\* Nobody resets a budget that never resets, and its counter is seeded once.
Seeded ==
    Lifetime =>
        /\ admin = "idle" /\ row.resetAt = Forever
        /\ \A r \in Requests :
              /\ req[r].phase # "zeroing"
              /\ req[r].phase = "seeding" => req[r].seen.resetAt = Forever
        /\ actual.exp = 0 =>
              /\ actual.val = 0 /\ row.spend = 0
              /\ \A r \in Requests :
                    /\ req[r].phase \notin {"reserving", "live", "settling"}
                    /\ req[r].phase = "seeding" => req[r].seen.spend = 0

\* A request in time has its lease.
InTime ==
    Lifetime =>
        /\ \A r \in leases.ids : req[r].deadline <= leases.exp
        /\ \A r \in Requests :
              /\ req[r].phase \notin {"idle", "crashed"} => now <= req[r].since + MaxDuration
              /\ Active(req[r]) => r \in leases.ids /\ req[r].deadline >= req[r].since + LeaseTtl

\* Every cent is in both ledgers or on its way, and is reserved before it is spent.
Balanced ==
    Lifetime =>
        /\ row.spend + Unwritten("db") = actual.val + Unwritten("redis")
        /\ actual.val + reserved.val <= setting.limit
        /\ \A r \in Requests : req[r].phase # "settling" => req[r].todo = {}

Inv == Typed /\ Leased /\ Covered
LifetimeInv == Inv /\ Seeded /\ InTime /\ Balanced
-----------------------------------------------------------------------------
(* Types. *)

\* What the assumption says of the setting and the bounds.
LEMMA Parameters ==
    Typed => /\ setting.requests \subseteq Requests /\ setting.limit \in Nat
             /\ setting.cost \in Nat \ {0} /\ setting.period \in Nat /\ setting.trouble \in BOOLEAN
             /\ LeaseTtl \in Nat /\ LeaseTtl >= 2 /\ MaxDuration \in 1..(LeaseTtl - 1)
             /\ MaxTime \in Nat /\ MaxTime >= 1 /\ now \in Nat /\ now >= 1 /\ now <= MaxTime
             /\ Forever \in Nat /\ Forever = MaxTime + setting.period + LeaseTtl + 1
<1> SUFFICES ASSUME Typed PROVE Typed
      /\ setting.requests \subseteq Requests /\ setting.limit \in Nat
      /\ setting.cost \in Nat \ {0} /\ setting.period \in Nat /\ setting.trouble \in BOOLEAN
      /\ LeaseTtl \in Nat /\ LeaseTtl >= 2 /\ MaxDuration \in 1..(LeaseTtl - 1)
      /\ MaxTime \in Nat /\ MaxTime >= 1 /\ now \in Nat /\ now >= 1 /\ now <= MaxTime
      /\ Forever \in Nat
  BY DEF Forever
<1>1. setting \in Settings /\ now \in 1..MaxTime
  BY DEF Typed
<1> QED  BY <1>1, BudgetAssumption DEF BudgetAssumption, Forever

\* One request goes on with another record.
LEMMA Going ==
    ASSUME Typed, NEW r \in Requests, NEW q, Fits(q), Goes(r, q), UNCHANGED <<setting, now>>
    PROVE  /\ req' \in [Requests -> Records] /\ \A x \in Requests : Fits(req[x])'
           /\ req'[r] = q /\ \A x \in Requests \ {r} : req'[x] = req[x]
<1>1. req' = [req EXCEPT ![r] = q] /\ q \in Records /\ req \in [Requests -> Records]
  BY DEF Goes, Fits, Typed
<1>2. req' \in [Requests -> Records] /\ req'[r] = q /\ \A x \in Requests \ {r} : req'[x] = req[x]
  BY <1>1
<1>3. ASSUME NEW x \in Requests PROVE Fits(req[x])'
  <2>1. req'[x] \in Records /\ (req'[x] = req[x] \/ req'[x] = q)
    BY <1>2
  <2>2. Fits(req[x])
    BY DEF Typed
  <2> QED  BY <2>1, <2>2 DEF Fits, WithinPeriod
<1> QED  BY <1>2, <1>3

LEMMA IdleFits == Typed => Fits(Idle)
<1> SUFFICES ASSUME Typed PROVE Fits(Idle)
  OBVIOUS
<1>1. Idle \in Records
  BY DEF Idle, Records, Phases
<1> QED  BY <1>1, Parameters DEF Idle, Fits, WithinPeriod

\* What is left of a window is no more than a period.
LEMMA TtlFits == Typed => Ttl(actual) \in Nat /\ Ttl(actual) <= setting.period
<1> SUFFICES ASSUME Typed PROVE Ttl(actual) \in Nat /\ Ttl(actual) <= setting.period
  OBVIOUS
<1>1. actual.exp \in Nat /\ (actual.exp \in {0, Forever} \/ actual.exp \in (now + 1)..(now + setting.period))
  BY DEF Typed
<1> QED  BY <1>1, Parameters DEF Ttl, Exists

LEMMA SecondsFit ==
    ASSUME Typed, NEW at \in Nat, WithinPeriod(at)
    PROVE  SecondsUntilReset(at) \in Nat /\ SecondsUntilReset(at) <= setting.period
BY Parameters DEF SecondsUntilReset, WithinPeriod

LEMMA ResetFits == Typed => NextResetAt \in Nat /\ WithinPeriod(NextResetAt)
BY Parameters DEF NextResetAt, WithinPeriod

LEMMA FoundFits ==
    ASSUME Typed, NEW since \in Nat, since <= now
    PROVE  Fits([Idle EXCEPT !.phase = IF Exists(actual) THEN "reserving" ELSE "absent",
                             !.since = since, !.ttl = Ttl(actual)])
<1> DEFINE q == [Idle EXCEPT !.phase = IF Exists(actual) THEN "reserving" ELSE "absent",
                             !.since = since, !.ttl = Ttl(actual)]
<1>1. Ttl(actual) \in Nat /\ Ttl(actual) <= setting.period
  BY TtlFits
<1>2. q \in Records
  BY <1>1 DEF Idle, Records, Phases
<1>3. q.since = since /\ q.ttl = Ttl(actual) /\ q.amount = 0 /\ q.cost = 0 /\ q.seen.resetAt = 0
  BY DEF Idle
<1> HIDE DEF q
<1>4. Fits(q)
  BY <1>1, <1>2, <1>3, Parameters DEF Fits, WithinPeriod
<1> QED  BY <1>4 DEF q

\* The counter is seeded for no longer than a period.
LEMMA SeededFits ==
    ASSUME Typed, NEW r \in Requests, NEW spend \in Nat, NEW ttl \in Nat, ttl <= setting.period,
           req[r].phase \in {"seeding", "zeroing"}, Seeds(r, spend, ttl), UNCHANGED <<setting, now>>
    PROVE  /\ actual' \in [val : Nat, exp : Nat]
           /\ actual'.exp \in {0, Forever} \/ actual'.exp \in (now + 1)..(now + setting.period)
           /\ req' \in [Requests -> Records] /\ \A x \in Requests : Fits(req[x])'
<1>1. /\ actual' \in [val : Nat, exp : Nat]
      /\ actual'.exp \in {0, Forever} \/ actual'.exp \in (now + 1)..(now + setting.period)
  BY Parameters DEF Seeds, Typed, Until
<1>2. Fits([req[r] EXCEPT !.phase = "reserving", !.ttl = ttl])
  BY DEF Typed, Fits, Records, Phases
<1> QED  BY <1>1, <1>2, Going DEF Seeds

LEMMA LeaseTtlBounds ==
    ASSUME Typed, NEW ttl \in Nat
    PROVE  LeaseTtlFor(ttl) \in 1..LeaseTtl /\ now + LeaseTtlFor(ttl) \in (now + 1)..(now + LeaseTtl)
BY Parameters DEF LeaseTtlFor

LEMMA AmountsNatural ==
    ASSUME Typed, NEW ids \in SUBSET Requests PROVE Amounts(ids) \in Nat
<1>1. [r \in Requests |-> IF r \in ids THEN req[r].amount ELSE 0] \in Tallies(setting.cost)
  BY Parameters DEF Typed, Fits, Records, Tallies
<1> QED  BY <1>1, TotalNatural, Parameters DEF Amounts
LEMMA DoneFits ==
    ASSUME Typed, NEW r \in Requests, NEW write, Done(r, write), UNCHANGED <<setting, now>>
    PROVE  req' \in [Requests -> Records] /\ \A x \in Requests : Fits(req[x])'
<1>1. Fits([req[r] EXCEPT !.todo = @ \ {write}])
  BY DEF Typed, Fits, Records
<1> QED  BY <1>1, IdleFits, Going DEF Done

\* Every action keeps the types.
LEMMA StepKeepsTypes == Typed /\ [Next]_vars => Typed'
<1> SUFFICES ASSUME Typed, [Next]_vars PROVE Typed'
  OBVIOUS
<1> USE Parameters, IdleFits DEF redisKeys
<1> DEFINE Sent == req' \in [Requests -> Records] /\ \A x \in Requests : Fits(req[x])'
<1>1. ASSUME NEW r \in Requests, Lookup(r) PROVE Typed'
  <2>1. Fits([Idle EXCEPT !.phase = IF Exists(actual) THEN "reserving" ELSE "absent",
                          !.since = now, !.ttl = Ttl(actual)])
    <3>1. now \in Nat /\ now <= now
      BY Parameters
    <3> QED  BY <3>1, FoundFits
  <2>2. Sent
    BY <1>1, <2>1, Going DEF Lookup, Finds
  <2> QED  BY <1>1, <2>2 DEF Lookup, Typed, WithinPeriod, Forever
<1>2. ASSUME NEW r \in Requests, ReadRow(r) PROVE Typed'
  <2>1. Fits([req[r] EXCEPT !.phase = "seeding", !.seen = row])
    <3>1. Fits(req[r]) /\ req[r] \in Records /\ req[r].phase = "absent"
      BY <1>2 DEF ReadRow, Typed
    <3>2. row \in [spend : Nat, resetAt : Nat] /\ WithinPeriod(row.resetAt)
      BY DEF Typed
    <3> QED  BY <3>1, <3>2 DEF Fits, Records, Phases
  <2>2. Sent
    BY <1>2, <2>1, Going DEF ReadRow
  <2> QED  BY <1>2, <2>2 DEF ReadRow, Typed, WithinPeriod, Forever
<1>3. ASSUME NEW r \in Requests, Seed(r) PROVE Typed'
  <2>1. req[r].seen.spend \in Nat /\ req[r].seen.resetAt \in Nat /\ WithinPeriod(req[r].seen.resetAt)
    BY DEF Typed, Fits, Records
  <2>2. SecondsUntilReset(req[r].seen.resetAt) \in Nat
        /\ SecondsUntilReset(req[r].seen.resetAt) <= setting.period
    BY <2>1, SecondsFit
  <2>3. /\ actual' \in [val : Nat, exp : Nat]
        /\ actual'.exp \in {0, Forever} \/ actual'.exp \in (now + 1)..(now + setting.period)
        /\ Sent
    BY <1>3, <2>1, <2>2, SeededFits DEF Seed
  <2> QED  BY <1>3, <2>3 DEF Seed, Typed, WithinPeriod, Forever
<1>4. ASSUME NEW r \in Requests, ResetIfDue(r) PROVE Typed'
  <2>1. CASE IsDue
    <3>1. Fits([req[r] EXCEPT !.phase = "zeroing"])
      BY <1>4 DEF ResetIfDue, Typed, Fits, Records, Phases
    <3>2. Sent
      BY <1>4, <2>1, <3>1, Going DEF ResetIfDue
    <3>3. row' \in [spend : Nat, resetAt : Nat] /\ WithinPeriod(row'.resetAt)
      BY <1>4, <2>1, ResetFits DEF ResetIfDue
    <3> QED  BY <1>4, <3>2, <3>3 DEF ResetIfDue, Typed, WithinPeriod, Forever
  <2>2. CASE ~IsDue
    <3>1. req[r].since \in Nat /\ req[r].since <= now
      BY DEF Typed, Fits, Records
    <3>2. Sent
      BY <1>4, <2>2, <3>1, FoundFits, Going DEF ResetIfDue, Finds
    <3> QED  BY <1>4, <2>2, <3>2 DEF ResetIfDue, Typed, WithinPeriod, Forever
  <2> QED  BY <2>1, <2>2
<1>5. ASSUME NEW r \in Requests, Zero(r) PROVE Typed'
  <2>1. /\ actual' \in [val : Nat, exp : Nat]
        /\ actual'.exp \in {0, Forever} \/ actual'.exp \in (now + 1)..(now + setting.period)
        /\ Sent
    BY <1>5, SeededFits DEF Zero
  <2> QED  BY <1>5, <2>1 DEF Zero, Typed, WithinPeriod, Forever
<1>6. ASSUME NEW r \in Requests, Enforced(r) PROVE Typed'
  <2>1. Sent
    BY <1>6, Going DEF Enforced
  <2> QED  BY <1>6, <2>1 DEF Enforced, Typed, WithinPeriod, Forever
<1>7. ASSUME NEW r \in Requests, NEW amount \in 1..setting.cost, Reserve(r, amount) PROVE Typed'
  <2> DEFINE ends == now + LeaseTtlFor(req[r].ttl)
             held == Less(reserved.val, Amounts(Overdue))
             kept == leases.ids \ Overdue
  <2>1. req[r].ttl \in Nat
    BY DEF Typed, Records
  <2>2. ends \in (now + 1)..(now + LeaseTtl)
    BY <2>1, LeaseTtlBounds
  <2>3. held \in Nat
    BY AmountsNatural DEF Typed, Less, Overdue
  <2>4. kept \subseteq Requests
    BY DEF Typed
  <2>5. Fits([req[r] EXCEPT !.phase = "live", !.amount = amount, !.deadline = now + LeaseTtl])
    <3>1. req[r].phase = "reserving" /\ req[r] \in Records /\ Fits(req[r])
      BY <1>7 DEF Reserve, Typed
    <3>2. setting.cost \in Nat /\ now \in Nat /\ LeaseTtl \in Nat
      BY Parameters
    <3>3. amount \in Nat /\ amount <= setting.cost /\ now + LeaseTtl \in Nat
      BY <3>2
    <3>4. req[r].cost = 0
      BY <3>1 DEF Fits, Records
    <3> DEFINE q == [req[r] EXCEPT !.phase = "live", !.amount = amount, !.deadline = now + LeaseTtl]
    <3>5. q \in Records
      BY <3>1, <3>3 DEF Records, Phases
    <3>6. q.phase = "live" /\ q.since = req[r].since /\ q.ttl = req[r].ttl /\ q.amount = amount
          /\ q.cost = req[r].cost /\ q.seen = req[r].seen
      BY <3>1 DEF Records
    <3> HIDE DEF q
    <3>7. Fits(q)
      BY <3>1, <3>3, <3>4, <3>5, <3>6 DEF Fits
    <3> QED  BY <3>7 DEF q
  <2>6. Sent
    BY <1>7, <2>5, Going DEF Reserve
  <2> HIDE DEF ends, held, kept
  <2>7. reserved' \in [val : Nat, exp : Nat]
        /\ (reserved'.exp = 0 \/ reserved'.exp \in (now + 1)..(now + LeaseTtl))
    <3>1. \/ reserved' = [val |-> held + amount, exp |-> ends]
          \/ reserved' = reserved \/ reserved' = GoneNumber
          \/ reserved' = [val |-> held, exp |-> ends]
      BY <1>7 DEF Reserve, ends, held
    <3> QED  BY <2>2, <2>3, <3>1 DEF Typed, GoneNumber
  <2>8. leases' \in [ids : SUBSET Requests, exp : Nat] /\ leases'.exp <= now + LeaseTtl
    <3>1. \/ leases' = [ids |-> kept \cup {r}, exp |-> ends]
          \/ leases' = GoneLeases \/ leases' = [leases EXCEPT !.ids = kept]
      BY <1>7 DEF Reserve, ends, kept
    <3> QED  BY <2>2, <2>4, <3>1 DEF Typed, GoneLeases
  <2> QED  BY <1>7, <2>6, <2>7, <2>8 DEF Reserve, Typed, WithinPeriod, Forever
<1>8. ASSUME NEW r \in Requests, NEW cost \in 0..req[r].amount, Settle(r, cost) PROVE Typed'
  <2>1. Fits([req[r] EXCEPT !.phase = "settling", !.cost = cost,
                            !.todo = {"redis"} \cup (IF cost > 0 THEN {"db"} ELSE {})])
    <3>1. Fits(req[r]) /\ req[r] \in Records /\ req[r].amount \in Nat
      BY DEF Typed, Records
    <3>2. cost \in Nat /\ cost <= req[r].amount
      BY <3>1
    <3> QED  BY <3>1, <3>2 DEF Fits, Records, Phases
  <2>2. Sent
    BY <1>8, <2>1, Going DEF Settle
  <2> QED  BY <1>8, <2>2 DEF Settle, Typed, WithinPeriod, Forever
<1>9. ASSUME NEW r \in Requests, SettleRedis(r) PROVE Typed'
  <2>1. Sent
    BY <1>9, DoneFits DEF SettleRedis
  <2>2. CASE r \in leases.ids
    <3>1. Exchanges(r)
      BY <1>9, <2>2 DEF SettleRedis
    <3>2. req[r].ttl \in Nat /\ req[r].ttl <= setting.period /\ req[r].amount \in Nat /\ req[r].cost \in Nat
      BY DEF Typed, Fits, Records
    <3>3. now + LeaseTtlFor(req[r].ttl) \in (now + 1)..(now + LeaseTtl)
      BY <3>2, LeaseTtlBounds
    <3>4. reserved' \in [val : Nat, exp : Nat] /\ reserved'.exp \in (now + 1)..(now + LeaseTtl)
      BY <3>1, <3>2, <3>3 DEF Exchanges, Less, Typed
    <3>5. leases' \in [ids : SUBSET Requests, exp : Nat] /\ leases'.exp <= now + LeaseTtl
      BY <3>1 DEF Exchanges, Typed, GoneLeases
    <3>6. /\ actual' \in [val : Nat, exp : Nat]
          /\ actual'.exp \in {0, Forever} \/ actual'.exp \in (now + 1)..(now + setting.period)
      BY <3>1, <3>2 DEF Exchanges, Typed, Until, Exists
    <3> QED  BY <1>9, <2>1, <3>4, <3>5, <3>6 DEF SettleRedis, Typed, WithinPeriod, Forever
  <2>3. CASE r \notin leases.ids
    BY <1>9, <2>1, <2>3 DEF SettleRedis, Typed, WithinPeriod, Forever
  <2> QED  BY <2>2, <2>3
<1>10. ASSUME NEW r \in Requests, AddSpend(r) PROVE Typed'
  <2>1. Sent
    BY <1>10, DoneFits DEF AddSpend
  <2>2. row' \in [spend : Nat, resetAt : Nat] /\ row'.resetAt = row.resetAt
    BY <1>10 DEF AddSpend, Typed, Records
  <2> QED  BY <1>10, <2>1, <2>2 DEF AddSpend, Typed, WithinPeriod, Forever
<1>11. ASSUME NEW r \in Requests, Crash(r) PROVE Typed'
  <2>1. Fits([req[r] EXCEPT !.phase = "crashed"])
    BY DEF Typed, Fits, Records
  <2>2. Sent
    BY <1>11, <2>1, Going DEF Crash
  <2> QED  BY <1>11, <2>2 DEF Crash, Typed, WithinPeriod, Forever
<1>12. ASSUME NEW r \in Requests, Reuse(r) PROVE Typed'
  <2>1. Sent
    BY <1>12, Going DEF Reuse
  <2> QED  BY <1>12, <2>1 DEF Reuse, Typed, WithinPeriod, Forever
<1>13. CASE AdminResetRow
  BY <1>13, ResetFits DEF AdminResetRow, Typed, Fits, WithinPeriod, Forever
<1>14. CASE AdminClear \/ RedisLost
  BY <1>14 DEF AdminClear, RedisLost, ForgetRedis, GoneNumber, GoneLeases, Typed, Fits, WithinPeriod, Forever
<1>15. CASE Tick
  <2>1. now' = now + 1 /\ now' \in 1..MaxTime /\ UNCHANGED <<setting, row, req, admin>>
    BY <1>15 DEF Tick
  <2>2. \A r \in Requests : Fits(req[r])'
    BY <2>1 DEF Typed, Fits, Records, WithinPeriod
  <2>3. /\ actual' \in [val : Nat, exp : Nat]
        /\ actual'.exp \in {0, Forever} \/ actual'.exp \in (now' + 1)..(now' + setting.period)
    BY <1>15, <2>1 DEF Tick, Expires, GoneNumber, Typed
  <2>4. /\ reserved' \in [val : Nat, exp : Nat]
        /\ reserved'.exp = 0 \/ reserved'.exp \in (now' + 1)..(now' + LeaseTtl)
    BY <1>15, <2>1 DEF Tick, Expires, GoneNumber, Typed
  <2>5. leases' \in [ids : SUBSET Requests, exp : Nat] /\ leases'.exp <= now' + LeaseTtl
    BY <1>15, <2>1 DEF Tick, Expires, GoneLeases, Typed
  <2> QED  BY <2>1, <2>2, <2>3, <2>4, <2>5 DEF Typed, WithinPeriod, Forever
<1>16. CASE UNCHANGED vars
  BY <1>16 DEF vars, Typed, Fits, WithinPeriod, Forever
<1> QED
  BY <1>1, <1>2, <1>3, <1>4, <1>5, <1>6, <1>7, <1>8, <1>9, <1>10, <1>11, <1>12, <1>13, <1>14, <1>15, <1>16
  DEF Next
-----------------------------------------------------------------------------
(* Leases. *)

LEMMA LeasedKept ==
    ASSUME Typed, Leased, NEW r \in Requests, NEW q, Goes(r, q),
           leases'.ids \subseteq leases.ids \cup {r},
           r \in leases'.ids =>
              /\ q.amount >= 1
              /\ \/ q.phase \in {"live", "crashed"}
                 \/ q.phase = "settling" /\ "redis" \in q.todo,
           q.phase \notin {"settling", "crashed"} => q.todo = {}
    PROVE  Leased'
<1>1. req' = [req EXCEPT ![r] = q] /\ DOMAIN req = Requests
  BY DEF Goes, Typed
<1>2. req'[r] = q /\ \A x \in Requests \ {r} : req'[x] = req[x]
  BY <1>1
<1>3. leases.ids \subseteq Requests
  BY DEF Typed
<1> QED  BY <1>2, <1>3 DEF Leased

\* A request in another phase has no lease.
LEMMA NoLease ==
    ASSUME Leased, NEW r \in Requests,
           req[r].phase \notin {"live", "settling", "crashed"}
    PROVE  r \notin leases.ids /\ req[r].todo = {}
BY DEF Leased

\* Every action keeps the leases with their requests.
LEMMA StepKeepsLeases == Typed /\ Leased /\ [Next]_vars => Leased'
<1> SUFFICES ASSUME Typed, Leased, [Next]_vars PROVE Leased'
  OBVIOUS
<1> USE DEF redisKeys
<1>1. ASSUME NEW r \in Requests, Lookup(r) \/ ReadRow(r) \/ Seed(r) \/ ResetIfDue(r) \/ Zero(r) \/ Enforced(r)
      PROVE Leased'
  <2>1. req[r].phase \notin {"live", "settling", "crashed"} /\ leases' = leases
    BY <1>1 DEF Lookup, ReadRow, Seed, ResetIfDue, Zero, Enforced
  <2>2. r \notin leases.ids /\ req[r].todo = {} /\ req[r] \in Records
    BY <2>1, NoLease DEF Typed
  <2>3. \E q : Goes(r, q) /\ q.todo = {}
    <3>1. ASSUME NEW since, Finds(r, since) PROVE \E q : Goes(r, q) /\ q.todo = {}
      <4> DEFINE q == [Idle EXCEPT !.phase = IF Exists(actual) THEN "reserving" ELSE "absent",
                                   !.since = since, !.ttl = Ttl(actual)]
      <4>1. q.todo = {}
        BY DEF Idle
      <4> HIDE DEF q
      <4>2. Goes(r, q)
        BY <3>1 DEF Finds, q
      <4> QED  BY <4>1, <4>2
    <3>2. ASSUME NEW spend, NEW ttl, Seeds(r, spend, ttl) PROVE \E q : Goes(r, q) /\ q.todo = {}
      <4> DEFINE q == [req[r] EXCEPT !.phase = "reserving", !.ttl = ttl]
      <4>1. q.todo = {}
        BY <2>2 DEF Records
      <4> HIDE DEF q
      <4>2. Goes(r, q)
        BY <3>2 DEF Seeds, q
      <4> QED  BY <4>1, <4>2
    <3>3. CASE Lookup(r)
      BY <3>1, <3>3 DEF Lookup
    <3>4. CASE ReadRow(r)
      <4> DEFINE q == [req[r] EXCEPT !.phase = "seeding", !.seen = row]
      <4>1. q.todo = {}
        BY <2>2 DEF Records
      <4> HIDE DEF q
      <4>2. Goes(r, q)
        BY <3>4 DEF ReadRow, q
      <4> QED  BY <4>1, <4>2
    <3>5. CASE Seed(r)
      BY <3>2, <3>5 DEF Seed
    <3>6. CASE ResetIfDue(r)
      <4>1. CASE IsDue
        BY <2>2, <3>6, <4>1 DEF ResetIfDue, Records
      <4>2. CASE ~IsDue
        BY <3>1, <3>6, <4>2 DEF ResetIfDue
      <4> QED  BY <4>1, <4>2
    <3>7. CASE Zero(r)
      BY <3>2, <3>7 DEF Zero
    <3>8. CASE Enforced(r)
      BY <3>8 DEF Enforced, Idle
    <3> QED  BY <1>1, <3>3, <3>4, <3>5, <3>6, <3>7, <3>8
  <2> QED  BY <2>1, <2>2, <2>3, LeasedKept
<1>2. ASSUME NEW r \in Requests, NEW amount \in 1..setting.cost, Reserve(r, amount) PROVE Leased'
  <2>1. r \notin leases.ids /\ req[r].todo = {} /\ req[r] \in Records
    BY <1>2, NoLease DEF Reserve, Typed
  <2>2. amount >= 1
    BY Parameters
  <2>3. CASE Goes(r, [req[r] EXCEPT !.phase = "live", !.amount = amount, !.deadline = now + LeaseTtl])
             /\ leases'.ids \subseteq leases.ids \cup {r}
    <3> DEFINE q == [req[r] EXCEPT !.phase = "live", !.amount = amount, !.deadline = now + LeaseTtl]
    <3>1. q.phase = "live" /\ q.amount = amount /\ q.todo = {}
      BY <2>1 DEF Records
    <3> HIDE DEF q
    <3>2. Goes(r, q)
      BY <2>3 DEF q
    <3> QED  BY <2>2, <2>3, <3>1, <3>2, LeasedKept
  <2>4. CASE Goes(r, Idle) /\ leases'.ids \subseteq leases.ids
    <3>1. Idle.todo = {}
      BY DEF Idle
    <3> QED  BY <2>1, <2>4, <3>1, LeasedKept
  <2>5. leases \in [ids : SUBSET Requests, exp : Nat]
    BY DEF Typed
  <2> QED  BY <1>2, <2>3, <2>4, <2>5 DEF Reserve, GoneLeases
<1>3. ASSUME NEW r \in Requests, NEW cost \in 0..req[r].amount, Settle(r, cost) PROVE Leased'
  <2> DEFINE q == [req[r] EXCEPT !.phase = "settling", !.cost = cost,
                                 !.todo = {"redis"} \cup (IF cost > 0 THEN {"db"} ELSE {})]
  <2>1. q.phase = "settling" /\ q.amount = req[r].amount /\ "redis" \in q.todo
    BY DEF Typed, Records
  <2>2. r \in leases.ids => q.amount >= 1
    BY <2>1 DEF Leased
  <2> HIDE DEF q
  <2>3. Goes(r, q) /\ leases' = leases
    BY <1>3 DEF Settle, q
  <2> QED  BY <2>1, <2>2, <2>3, LeasedKept
<1>4. ASSUME NEW r \in Requests, NEW write,
             (SettleRedis(r) /\ write = "redis") \/ (AddSpend(r) /\ write = "db")
      PROVE Leased'
  <2> DEFINE q == IF req[r].todo = {write} THEN Idle ELSE [req[r] EXCEPT !.todo = @ \ {write}]
  <2>1. /\ req[r].phase = "settling" /\ write \in req[r].todo /\ req[r] \in Records
        /\ write \in {"redis", "db"} /\ Done(r, write)
    BY <1>4 DEF SettleRedis, AddSpend, Typed
  <2>2. Goes(r, q)
    BY <2>1 DEF Done
  <2>3. q.phase \notin {"settling", "crashed"} => q.todo = {}
    BY <2>1 DEF Idle, Records
  <2>4. leases'.ids \subseteq leases.ids /\ (write = "redis" => r \notin leases'.ids)
    BY <1>4 DEF SettleRedis, AddSpend, Exchanges, GoneLeases, Typed
  <2>5. r \in leases'.ids => /\ q.amount >= 1
                             /\ q.phase = "settling" /\ "redis" \in q.todo
    <3> SUFFICES ASSUME r \in leases'.ids
                 PROVE  q.amount >= 1 /\ q.phase = "settling" /\ "redis" \in q.todo
      OBVIOUS
    <3>1. write = "db" /\ req[r].amount >= 1 /\ "redis" \in req[r].todo
      BY <2>1, <2>4 DEF Leased
    <3> QED  BY <2>1, <3>1 DEF Records
  <2> HIDE DEF q
  <2> QED  BY <2>2, <2>3, <2>4, <2>5, LeasedKept
<1>5. ASSUME NEW r \in Requests, Crash(r) PROVE Leased'
  <2> DEFINE q == [req[r] EXCEPT !.phase = "crashed"]
  <2>1. q.phase = "crashed" /\ q.amount = req[r].amount
    BY DEF Typed, Records
  <2>2. r \in leases.ids => q.amount >= 1
    BY <2>1 DEF Leased
  <2> HIDE DEF q
  <2>3. Goes(r, q) /\ leases' = leases
    BY <1>5 DEF Crash, q
  <2> QED  BY <2>1, <2>2, <2>3, LeasedKept
<1>6. ASSUME NEW r \in Requests, Reuse(r) PROVE Leased'
  <2>1. Idle.todo = {} /\ r \notin leases'.ids /\ leases' = leases /\ Goes(r, Idle)
    BY <1>6 DEF Reuse, Idle
  <2> QED  BY <2>1, LeasedKept
<1>7. CASE AdminResetRow \/ AdminClear \/ RedisLost \/ Tick \/ UNCHANGED vars
  <2>1. req' = req /\ leases'.ids \subseteq leases.ids
    BY <1>7 DEF AdminResetRow, AdminClear, RedisLost, ForgetRedis, Tick, Expires, GoneLeases, vars
  <2> QED  BY <2>1 DEF Leased
<1>8. \A r \in Requests : SettleRedis(r) \/ AddSpend(r) => Leased'
  BY <1>4
<1>9. \A r \in setting.requests : r \in Requests
  BY Parameters
<1> QED
  BY <1>1, <1>2, <1>3, <1>5, <1>6, <1>7, <1>8, <1>9 DEF Next
-----------------------------------------------------------------------------
(* Sums over the records q of the requests. *)

AmountsOf(ids, q) == Total([r \in Requests |-> IF r \in ids THEN q[r].amount ELSE 0])
Owes(write, record) == IF write \in record.todo THEN record.cost ELSE 0
OwedOf(write, q) == Total([r \in Requests |-> Owes(write, q[r])])

Bounded(q, N) ==
    \A r \in Requests : q[r].amount \in 0..N /\ q[r].cost \in 0..N /\ q[r].cost <= q[r].amount

LEMMA RecordsBounded == Typed => Bounded(req, setting.cost) /\ setting.cost \in Nat
BY Parameters DEF Typed, Fits, Records, Bounded

LEMMA AmountsTallied ==
    ASSUME NEW N \in Nat, NEW q, Bounded(q, N), NEW ids
    PROVE  [r \in Requests |-> IF r \in ids THEN q[r].amount ELSE 0] \in Tallies(N)
BY DEF Bounded, Tallies

LEMMA AmountsOfNatural ==
    ASSUME NEW N \in Nat, NEW q, Bounded(q, N), NEW ids PROVE AmountsOf(ids, q) \in Nat
BY AmountsTallied, TotalNatural DEF AmountsOf

LEMMA AmountsOfNone == ASSUME NEW q PROVE AmountsOf({}, q) = 0
BY TotalZero DEF AmountsOf

\* Leases divided in two.
LEMMA AmountsPart ==
    ASSUME NEW N \in Nat, NEW q, Bounded(q, N), NEW ids, NEW part \in SUBSET ids
    PROVE  AmountsOf(ids, q) = AmountsOf(ids \ part, q) + AmountsOf(part, q)
<1> DEFINE f(s) == [r \in Requests |-> IF r \in s THEN q[r].amount ELSE 0]
<1>1. f(ids) \in Tallies(N) /\ f(ids \ part) \in Tallies(N) /\ f(part) \in Tallies(N)
  BY AmountsTallied
<1>2. \A r \in Requests : \/ f(ids)[r] = f(ids \ part)[r] /\ f(part)[r] = 0
                          \/ f(ids)[r] = f(part)[r] /\ f(ids \ part)[r] = 0
  OBVIOUS
<1>3. Total(f(ids)) = Total(f(ids \ part)) + Total(f(part))
  <2> HIDE DEF f
  <2> QED  BY <1>1, <1>2, TotalSplit
<1> QED  BY <1>3 DEF AmountsOf

\* The lease of one request counts for its amount.
LEMMA AmountsOfOne ==
    ASSUME NEW N \in Nat, NEW q, Bounded(q, N), NEW r \in Requests
    PROVE  AmountsOf({r}, q) = q[r].amount
<1> DEFINE f == [x \in Requests |-> IF x \in {r} THEN q[x].amount ELSE 0]
<1>1. f \in Tallies(N)
  BY AmountsTallied
<1>2. f[r] = q[r].amount /\ \A x \in Requests \ {r} : f[x] = 0
  OBVIOUS
<1>3. Total(f) = f[r]
  <2> HIDE DEF f
  <2> QED  BY <1>1, <1>2, TotalOfOne
<1> QED  BY <1>2, <1>3 DEF AmountsOf

LEMMA AmountsWithout ==
    ASSUME NEW N \in Nat, NEW q, Bounded(q, N), NEW ids, NEW r \in Requests, r \in ids
    PROVE  AmountsOf(ids, q) = AmountsOf(ids \ {r}, q) + q[r].amount
<1>1. {r} \in SUBSET ids
  OBVIOUS
<1>2. AmountsOf(ids, q) = AmountsOf(ids \ {r}, q) + AmountsOf({r}, q)
  BY <1>1, AmountsPart
<1> QED  BY <1>2, AmountsOfOne

\* Only the records of the leases count.
LEMMA AmountsKept ==
    ASSUME NEW q, NEW p, NEW ids, \A x \in ids : p[x].amount = q[x].amount
    PROVE  AmountsOf(ids, p) = AmountsOf(ids, q)
<1>1. [r \in Requests |-> IF r \in ids THEN p[r].amount ELSE 0]
      = [r \in Requests |-> IF r \in ids THEN q[r].amount ELSE 0]
  OBVIOUS
<1> QED  BY <1>1 DEF AmountsOf

\* What is owed changes with one record.
LEMMA OwedChange ==
    ASSUME NEW N \in Nat, NEW q, Bounded(q, N), NEW p, Bounded(p, N), NEW write, NEW r \in Requests,
           \A x \in Requests \ {r} : p[x] = q[x]
    PROVE  /\ OwedOf(write, p) + Owes(write, q[r]) = OwedOf(write, q) + Owes(write, p[r])
           /\ OwedOf(write, p) \in Nat /\ OwedOf(write, q) \in Nat
<1> DEFINE f(s) == [x \in Requests |-> Owes(write, s[x])]
<1>1. f(q) \in Tallies(N) /\ f(p) \in Tallies(N)
  BY DEF Bounded, Tallies, Owes
<1>2. f(q)[r] = Owes(write, q[r]) /\ f(p)[r] = Owes(write, p[r])
      /\ \A x \in Requests \ {r} : f(p)[x] = f(q)[x]
  OBVIOUS
<1>3. Total(f(p)) + f(q)[r] = Total(f(q)) + f(p)[r] /\ Total(f(p)) \in Nat /\ Total(f(q)) \in Nat
  <2> HIDE DEF f
  <2> QED  BY <1>1, <1>2, TotalChange, TotalNatural
<1> QED  BY <1>2, <1>3 DEF OwedOf

\* What is owed to a ledger is within the leases, if every debtor has one.
LEMMA OwedWithin ==
    ASSUME NEW N \in Nat, NEW q, Bounded(q, N), NEW write, NEW ids,
           \A r \in Requests : write \in q[r].todo => r \in ids
    PROVE  OwedOf(write, q) <= AmountsOf(ids, q)
<1> DEFINE f == [x \in Requests |-> Owes(write, q[x])]
           g == [r \in Requests |-> IF r \in ids THEN q[r].amount ELSE 0]
<1>1. f \in Tallies(N) /\ g \in Tallies(N) /\ \A r \in Requests : f[r] <= g[r]
  BY DEF Bounded, Tallies, Owes
<1>2. Total(f) <= Total(g)
  <2> HIDE DEF f, g
  <2> QED  BY <1>1, TotalMonotone
<1> QED  BY <1>2 DEF OwedOf, AmountsOf
-----------------------------------------------------------------------------
(* The reserved counter covers the leases. *)

LEMMA CoveredKept ==
    ASSUME Typed, Covered, NEW r \in Requests, NEW q, Goes(r, q),
           reserved' = reserved, leases' = leases, setting' = setting,
           r \in leases.ids => q.amount = req[r].amount
    PROVE  Covered'
<1>1. req'[r] = q /\ \A x \in Requests \ {r} : req'[x] = req[x]
  BY DEF Goes, Typed
<1>2. \A x \in leases.ids : req'[x].amount = req[x].amount
  BY <1>1 DEF Typed
<1>3. AmountsOf(leases.ids, req') = AmountsOf(leases.ids, req)
  BY <1>2, AmountsKept
<1> QED  BY <1>3 DEF Covered, Amounts, AmountsOf

\* Returning some leases' amounts leaves the counter covering the others.
LEMMA ReturningCovers ==
    ASSUME Typed, reserved.val >= Amounts(leases.ids), NEW part \in SUBSET leases.ids
    PROVE  /\ Less(reserved.val, Amounts(part)) \in Nat
           /\ Less(reserved.val, Amounts(part)) >= Amounts(leases.ids \ part)
           /\ Less(reserved.val, Amounts(part)) + Amounts(part) = reserved.val
           /\ Amounts(leases.ids \ part) \in Nat /\ Amounts(part) \in Nat
<1>1. Bounded(req, setting.cost) /\ setting.cost \in Nat
  BY RecordsBounded
<1>2. \A ids : Amounts(ids) = AmountsOf(ids, req)
  BY DEF Amounts, AmountsOf
<1>3. Amounts(leases.ids) = Amounts(leases.ids \ part) + Amounts(part)
  BY <1>1, <1>2, AmountsPart
<1>4. Amounts(leases.ids \ part) \in Nat /\ Amounts(part) \in Nat
  BY <1>1, <1>2, AmountsOfNatural
<1>5. reserved.val \in Nat
  BY DEF Typed
<1> QED  BY <1>3, <1>4, <1>5 DEF Less

\* A lease counts for something.
LEMMA NothingHeld ==
    ASSUME Typed, Leased, NEW ids \in SUBSET leases.ids, Amounts(ids) = 0
    PROVE  ids = {}
<1> SUFFICES ASSUME NEW r \in ids PROVE FALSE
  OBVIOUS
<1>1. Bounded(req, setting.cost) /\ setting.cost \in Nat
  BY RecordsBounded
<1>2. r \in Requests /\ req[r].amount \in Nat /\ req[r].amount >= 1
  BY DEF Typed, Leased, Records
<1>3. AmountsOf(ids, req) = AmountsOf(ids \ {r}, req) + req[r].amount
  BY <1>1, <1>2, AmountsWithout
<1>4. AmountsOf(ids \ {r}, req) \in Nat
  BY <1>1, AmountsOfNatural
<1> QED  BY <1>2, <1>3, <1>4 DEF Amounts, AmountsOf

\* Every action keeps the leases covered.
LEMMA StepKeepsCovered == Typed /\ Leased /\ Covered /\ [Next]_vars => Covered'
<1> SUFFICES ASSUME Typed, Leased, Covered, [Next]_vars, setting'.period = 0
             PROVE  leases'.exp <= reserved'.exp /\ reserved'.val >= Amounts(leases.ids)'
  BY DEF Covered
<1> DEFINE Goal == leases'.exp <= reserved'.exp /\ reserved'.val >= AmountsOf(leases'.ids, req')
<1> SUFFICES Goal
  BY DEF Amounts, AmountsOf
<1> HIDE DEF Goal
<1>a. Covered' => Goal
  BY DEF Goal, Covered, Amounts, AmountsOf
<1>d. setting' = setting
  BY DEF Next, vars, Lookup, ReadRow, Seed, ResetIfDue, Zero, Enforced, Reserve, Settle, SettleRedis, AddSpend,
         Crash, Reuse, AdminResetRow, AdminClear, RedisLost, Tick
<1>c. leases.exp <= reserved.exp /\ reserved.val >= Amounts(leases.ids) /\ setting.period = 0
  BY <1>d DEF Covered
<1>b. Bounded(req, setting.cost) /\ setting.cost \in Nat
  BY RecordsBounded
<1>1. ASSUME NEW r \in Requests, Lookup(r) \/ ReadRow(r) \/ Seed(r) \/ ResetIfDue(r) \/ Zero(r) \/ Enforced(r)
      PROVE Goal
  <2>1. req[r].phase \notin {"live", "settling", "crashed"} /\ leases' = leases /\ reserved' = reserved
    BY <1>1 DEF Lookup, ReadRow, Seed, ResetIfDue, Zero, Enforced, redisKeys
  <2>2. r \notin leases.ids
    BY <2>1, NoLease
  <2>3. \E q : Goes(r, q)
    <3>1. CASE Lookup(r)
      BY <3>1 DEF Lookup, Finds
    <3>2. CASE ReadRow(r)
      BY <3>2 DEF ReadRow
    <3>3. CASE Seed(r)
      BY <3>3 DEF Seed, Seeds
    <3>4. CASE ResetIfDue(r)
      BY <3>4 DEF ResetIfDue, Finds
    <3>5. CASE Zero(r)
      BY <3>5 DEF Zero, Seeds
    <3>6. CASE Enforced(r)
      BY <3>6 DEF Enforced
    <3> QED  BY <1>1, <3>1, <3>2, <3>3, <3>4, <3>5, <3>6
  <2> QED  BY <1>a, <1>d, <2>1, <2>2, <2>3, CoveredKept
<1>2. ASSUME NEW r \in Requests, NEW amount \in 1..setting.cost, Reserve(r, amount) PROVE Goal
  <2> DEFINE kept == leases.ids \ Overdue
             held == Less(reserved.val, Amounts(Overdue))
             ends == now + LeaseTtlFor(req[r].ttl)
  <2>1. Overdue \in SUBSET leases.ids
    BY DEF Overdue
  <2>2. held \in Nat /\ held >= Amounts(kept) /\ Amounts(kept) \in Nat
    BY <1>c, <2>1, ReturningCovers
  <2>3. r \notin leases.ids /\ req[r].phase = "reserving"
    BY <1>2, NoLease DEF Reserve
  <2>4. ends = now + LeaseTtl /\ leases.exp <= ends /\ leases.exp \in Nat /\ ends \in Nat
    <3>1. req[r].ttl = 0
      BY <1>c DEF Typed, Fits, Records
    <3> QED  BY <3>1, Parameters DEF LeaseTtlFor, Typed
  <2>5. req \in [Requests -> Records] /\ kept \subseteq Requests
    BY DEF Typed
  <2>6. AmountsOf(kept, req) = Amounts(kept) /\ AmountsOf(kept, req') = AmountsOf(kept, req)
    <3>1. \A x \in kept : req'[x] = req[x]
      BY <1>2, <2>3, <2>5 DEF Reserve, Goes
    <3> QED  BY <3>1, AmountsKept DEF Amounts, AmountsOf
  <2>7. CASE /\ reserved' = [val |-> held + amount, exp |-> ends]
             /\ leases' = [ids |-> kept \cup {r}, exp |-> ends]
             /\ Goes(r, [req[r] EXCEPT !.phase = "live", !.amount = amount, !.deadline = now + LeaseTtl])
    <3>1. req'[r].amount = amount /\ amount \in Nat
      BY <1>b, <2>5, <2>7 DEF Goes, Records
    <3>2. Bounded(req', setting.cost)
      <4>1. Typed'
        BY StepKeepsTypes
      <4>2. \A x \in Requests : Fits(req[x])'
        BY <4>1 DEF Typed
      <4> QED  BY <1>d, <1>b, <4>2 DEF Bounded, Fits, Records
    <3>3. AmountsOf(kept \cup {r}, req') = AmountsOf((kept \cup {r}) \ {r}, req') + req'[r].amount
      BY <1>b, <3>2, AmountsWithout
    <3>4. (kept \cup {r}) \ {r} = kept
      BY <2>3
    <3>5. AmountsOf(leases'.ids, req') = Amounts(kept) + amount
      BY <2>6, <2>7, <3>1, <3>3, <3>4
    <3> HIDE DEF kept, held, ends
    <3> QED  BY <2>2, <2>4, <2>7, <3>1, <3>5 DEF Goal
  <2>8. CASE /\ reserved' = IF Overdue = {} THEN reserved
                            ELSE IF held = 0 THEN GoneNumber
                            ELSE [val |-> held, exp |-> ends]
             /\ leases' = IF kept = {} THEN GoneLeases ELSE [leases EXCEPT !.ids = kept]
    <3>1. reserved'.val >= Amounts(kept)
      <4>1. Overdue = {} => kept = leases.ids
        OBVIOUS
      <4>2. reserved.val \in Nat
        BY DEF Typed
      <4>3. CASE Overdue = {}
        BY <1>c, <2>8, <4>1, <4>3
      <4>4. CASE Overdue # {} /\ held = 0
        BY <2>2, <2>8, <4>4 DEF GoneNumber
      <4>5. CASE Overdue # {} /\ held # 0
        BY <2>2, <2>8, <4>5
      <4> QED  BY <4>3, <4>4, <4>5
    <3>2. leases'.ids = kept /\ leases'.exp = IF kept = {} THEN 0 ELSE leases.exp
      BY <2>8 DEF GoneLeases, Typed
    <3>3. held = 0 => kept = {}
      <4>1. kept \in SUBSET leases.ids
        OBVIOUS
      <4>2. held = 0 => Amounts(kept) = 0
        BY <2>2
      <4> QED  BY <4>1, <4>2, NothingHeld
    <3>4. leases'.exp <= reserved'.exp
      <4>1. reserved.exp \in Nat
        BY DEF Typed
      <4>2. CASE Overdue = {}
        BY <1>c, <2>8, <3>2, <4>1, <4>2
      <4>3. CASE Overdue # {} /\ held = 0
        BY <2>8, <3>2, <3>3, <4>3 DEF GoneNumber
      <4>4. CASE Overdue # {} /\ held # 0
        <5>1. reserved'.exp = ends
          BY <2>8, <4>4
        <5> HIDE DEF kept, held, ends
        <5> QED  BY <2>4, <3>2, <5>1
      <4> QED  BY <4>2, <4>3, <4>4
    <3> QED  BY <2>6, <3>1, <3>2, <3>4 DEF Goal
  <2> QED  BY <1>2, <2>7, <2>8 DEF Reserve
<1>3. ASSUME NEW r \in Requests, NEW cost \in 0..req[r].amount, Settle(r, cost) PROVE Goal
  <2> DEFINE q == [req[r] EXCEPT !.phase = "settling", !.cost = cost,
                                 !.todo = {"redis"} \cup (IF cost > 0 THEN {"db"} ELSE {})]
  <2>1. q.amount = req[r].amount
    BY DEF Typed, Records
  <2> HIDE DEF q
  <2>2. Goes(r, q) /\ leases' = leases /\ reserved' = reserved
    BY <1>3 DEF Settle, redisKeys, q
  <2> QED  BY <1>a, <1>d, <2>1, <2>2, CoveredKept
<1>4. ASSUME NEW r \in Requests, SettleRedis(r), r \in leases.ids PROVE Goal
  <2> DEFINE kept == leases.ids \ {r}
  <2>1. Exchanges(r) /\ Done(r, "redis")
    BY <1>4 DEF SettleRedis
  <2>2. {r} \in SUBSET leases.ids /\ Amounts({r}) = req[r].amount
    BY <1>4, <1>b, AmountsOfOne DEF Amounts, AmountsOf
  <2>3. Less(reserved.val, req[r].amount) >= Amounts(kept)
    BY <1>c, <2>2, ReturningCovers
  <2>4. reserved'.val = Less(reserved.val, req[r].amount) /\ reserved'.exp = now + LeaseTtl
    <3>1. req[r].ttl = 0
      BY <1>c DEF Typed, Fits, Records
    <3> QED  BY <2>1, <3>1 DEF Exchanges, LeaseTtlFor
  <2>5. leases'.ids = kept /\ leases'.exp <= now + LeaseTtl
    BY <2>1, Parameters DEF Exchanges, GoneLeases, Typed
  <2>6. AmountsOf(kept, req') = Amounts(kept)
    <3>1. \A x \in kept : req'[x] = req[x]
      BY <2>1 DEF Done, Goes, Typed
    <3>2. AmountsOf(kept, req') = AmountsOf(kept, req)
      BY <3>1, AmountsKept
    <3> QED  BY <3>2 DEF Amounts, AmountsOf
  <2> HIDE DEF kept
  <2> QED  BY <2>3, <2>4, <2>5, <2>6 DEF Goal
<1>5. ASSUME NEW r \in Requests, NEW write, r \in leases.ids => write = "db",
             (SettleRedis(r) /\ write = "redis") \/ (AddSpend(r) /\ write = "db")
      PROVE Goal
  <2> DEFINE q == IF req[r].todo = {write} THEN Idle ELSE [req[r] EXCEPT !.todo = @ \ {write}]
  <2>1. leases' = leases /\ reserved' = reserved /\ req[r].phase = "settling" /\ Done(r, write)
    BY <1>5 DEF SettleRedis, AddSpend, redisKeys
  <2>2. r \in leases.ids => q.amount = req[r].amount
    <3>1. r \in leases.ids => req[r].todo # {write}
      BY <1>5, <2>1 DEF Leased
    <3> QED  BY <3>1 DEF Typed, Records
  <2>3. Goes(r, q)
    BY <2>1 DEF Done
  <2> HIDE DEF q
  <2> QED  BY <1>a, <1>d, <2>1, <2>2, <2>3, CoveredKept
<1>6. ASSUME NEW r \in Requests, Crash(r) PROVE Goal
  <2> DEFINE q == [req[r] EXCEPT !.phase = "crashed"]
  <2>1. q.amount = req[r].amount
    BY DEF Typed, Records
  <2> HIDE DEF q
  <2>2. Goes(r, q) /\ leases' = leases /\ reserved' = reserved
    BY <1>6 DEF Crash, redisKeys, q
  <2> QED  BY <1>a, <1>d, <2>1, <2>2, CoveredKept
<1>7. ASSUME NEW r \in Requests, Reuse(r) PROVE Goal
  <2>1. Goes(r, Idle) /\ leases' = leases /\ reserved' = reserved /\ r \notin leases.ids
    BY <1>7 DEF Reuse, redisKeys
  <2> QED  BY <1>a, <1>d, <2>1, CoveredKept
<1>8. CASE AdminResetRow \/ UNCHANGED vars
  BY <1>8, <1>c DEF AdminResetRow, redisKeys, vars, Goal, Amounts, AmountsOf
<1>9. CASE AdminClear \/ RedisLost
  <2>1. leases'.ids = {} /\ leases'.exp = 0 /\ reserved'.val = 0 /\ reserved'.exp = 0
    BY <1>9 DEF AdminClear, RedisLost, ForgetRedis, GoneLeases, GoneNumber
  <2>2. AmountsOf({}, req') = 0
    BY AmountsOfNone
  <2> QED  BY <2>1, <2>2 DEF Goal
<1>10. CASE Tick
  <2>1. req' = req /\ leases' = Expires(leases, GoneLeases) /\ reserved' = Expires(reserved, GoneNumber)
    BY <1>10 DEF Tick
  <2>2. leases.exp \in Nat /\ reserved.exp \in Nat /\ now \in Nat
    BY Parameters DEF Typed
  <2>3. AmountsOf({}, req') = 0 /\ AmountsOf(leases.ids, req') = Amounts(leases.ids)
    BY <2>1, AmountsOfNone DEF Amounts, AmountsOf
  <2>4. CASE leases.exp <= now + 1
    <3>1. leases'.ids = {} /\ leases'.exp = 0
      BY <2>1, <2>4 DEF Expires, GoneLeases
    <3>2. reserved'.val \in Nat /\ reserved'.exp \in Nat
      BY <2>1 DEF Expires, GoneNumber, Typed
    <3> QED  BY <2>3, <3>1, <3>2 DEF Goal
  <2>5. CASE ~(leases.exp <= now + 1)
    <3>1. ~(reserved.exp <= now + 1)
      BY <1>c, <2>2, <2>5
    <3>2. leases' = leases /\ reserved' = reserved
      BY <2>1, <2>5, <3>1 DEF Expires
    <3> QED  BY <1>c, <2>3, <3>2 DEF Goal
  <2> QED  BY <2>4, <2>5
<1>11. \A r \in Requests : SettleRedis(r) \/ AddSpend(r) => Goal
  BY <1>4, <1>5
<1>12. \A r \in setting.requests : r \in Requests
  BY Parameters
<1> QED
  BY <1>1, <1>2, <1>3, <1>6, <1>7, <1>8, <1>9, <1>10, <1>11, <1>12 DEF Next
-----------------------------------------------------------------------------
(* A budget that never resets, while Redis keeps its data. *)

LEMMA SettingStays == [Next]_vars => setting' = setting
BY DEF Next, vars, Lookup, ReadRow, Seed, ResetIfDue, Zero, Enforced, Reserve, Settle, SettleRedis, AddSpend,
       Crash, Reuse, AdminResetRow, AdminClear, RedisLost, Tick

LEMMA Moved ==
    ASSUME Typed, NEW r \in Requests, NEW q, Goes(r, q)
    PROVE  req'[r] = q /\ \A x \in Requests \ {r} : req'[x] = req[x]
BY DEF Goes, Typed

\* Its counter has no expiry, its window is never due.
LEMMA NeverDue ==
    ASSUME Typed, Seeded, Lifetime
    PROVE  /\ \A r \in Requests : req[r].ttl = 0 /\ ~ResetIfDue(r) /\ ~Zero(r)
           /\ ~AdminResetRow /\ ~AdminClear /\ ~RedisLost
           /\ actual.exp \in {0, Forever} /\ Forever > now + 1 /\ Forever \in Nat /\ Ttl(actual) = 0
<1>1. Forever > now + 1 /\ Forever \in Nat /\ now \in Nat
  BY Parameters
<1>2. actual.exp \in {0, Forever}
  BY Parameters DEF Typed, Lifetime
<1>3. Ttl(actual) = 0
  BY <1>1, <1>2 DEF Ttl, Exists
<1>4. ASSUME NEW r \in Requests PROVE req[r].ttl = 0 /\ ~ResetIfDue(r) /\ ~Zero(r)
  <2>1. req[r].ttl = 0
    BY DEF Typed, Fits, Records, Lifetime
  <2> QED  BY <1>1, <2>1 DEF Seeded, ResetIfDue, Zero
<1> QED  BY <1>1, <1>2, <1>3, <1>4 DEF Seeded, Lifetime, AdminResetRow, AdminClear, RedisLost

\* A step of one request keeps the counter seeded if the counter stays, or is
\* seeded by it, and the request goes on only with a counter.
LEMMA SeededKept ==
    ASSUME Typed, Seeded, Lifetime, NEW r \in Requests, NEW q, Goes(r, q),
           setting' = setting, admin' = admin, row'.resetAt = row.resetAt,
           UNCHANGED now,
           q.phase # "zeroing", q.phase = "seeding" => q.seen.resetAt = Forever,
           actual'.exp = 0 =>
              /\ actual' = actual /\ row' = row
              /\ q.phase \notin {"reserving", "live", "settling"}
              /\ q.phase = "seeding" => q.seen.spend = 0
    PROVE  Seeded'
<1>1. req'[r] = q /\ \A x \in Requests \ {r} : req'[x] = req[x]
  BY Moved
<1>2. Forever' = Forever
  BY DEF Forever
<1> QED  BY <1>1, <1>2 DEF Seeded

LEMMA StepKeepsSeeded == Typed /\ Leased /\ Seeded /\ [Next]_vars => Seeded'
<1> SUFFICES ASSUME Typed, Leased, Seeded, [Next]_vars, Lifetime PROVE Seeded'
  BY SettingStays DEF Seeded, Lifetime
<1>s. setting' = setting /\ setting.requests \subseteq Requests
  BY SettingStays, Parameters
<1>n. /\ \A r \in Requests : req[r].ttl = 0 /\ ~ResetIfDue(r) /\ ~Zero(r)
      /\ ~AdminResetRow /\ ~AdminClear /\ ~RedisLost
      /\ actual.exp \in {0, Forever} /\ Forever > now + 1 /\ Forever \in Nat
  BY NeverDue
<1>1. ASSUME NEW r \in Requests, Lookup(r) PROVE Seeded'
  <2> DEFINE q == [Idle EXCEPT !.phase = IF Exists(actual) THEN "reserving" ELSE "absent",
                               !.since = now, !.ttl = Ttl(actual)]
  <2>1. q.phase = IF Exists(actual) THEN "reserving" ELSE "absent"
    BY DEF Idle
  <2> HIDE DEF q
  <2>2. Goes(r, q) /\ UNCHANGED <<now, actual, row, admin>>
    BY <1>1 DEF Lookup, Finds, redisKeys, q
  <2>3. actual.exp = 0 => q.phase = "absent"
    BY <2>1 DEF Exists
  <2>4. q.phase \in {"reserving", "absent"}
    BY <2>1
  <2> QED  BY <1>s, <2>2, <2>3, <2>4, SeededKept
<1>2. ASSUME NEW r \in Requests, ReadRow(r) PROVE Seeded'
  <2> DEFINE q == [req[r] EXCEPT !.phase = "seeding", !.seen = row]
  <2>1. q.phase = "seeding" /\ q.seen = row
    BY DEF Typed, Records
  <2> HIDE DEF q
  <2>2. Goes(r, q) /\ UNCHANGED <<now, actual, row, admin>>
    BY <1>2 DEF ReadRow, redisKeys, q
  <2>3. row.resetAt = Forever /\ (actual.exp = 0 => row.spend = 0)
    BY DEF Seeded
  <2> QED  BY <1>s, <2>1, <2>2, <2>3, SeededKept
<1>3. ASSUME NEW r \in Requests, Seed(r) PROVE Seeded'
  <2> DEFINE q == [req[r] EXCEPT !.phase = "reserving", !.ttl = 0]
  <2>1. q.phase = "reserving"
    BY DEF Typed, Records
  <2>2. SecondsUntilReset(req[r].seen.resetAt) = 0
    BY DEF SecondsUntilReset, Lifetime
  <2> HIDE DEF q
  <2>3. Goes(r, q) /\ UNCHANGED <<now, row, admin>>
    BY <1>3, <2>2 DEF Seed, Seeds, q
  <2>4. actual'.exp # 0
    <3>1. Forever # 0
      BY Parameters
    <3>2. actual' = IF Exists(actual) THEN actual ELSE [val |-> req[r].seen.spend, exp |-> Forever]
      BY <1>3, <2>2 DEF Seed, Seeds, Until
    <3>3. Exists(actual) => actual.exp # 0
      BY DEF Exists
    <3> QED  BY <3>1, <3>2, <3>3
  <2> QED  BY <1>s, <2>1, <2>3, <2>4, SeededKept
<1>4. ASSUME NEW r \in Requests, Goes(r, Idle), UNCHANGED <<now, actual, row, admin>> PROVE Seeded'
  <2>1. Idle.phase = "idle"
    BY DEF Idle
  <2> QED  BY <1>4, <1>s, <2>1, SeededKept
<1>5. ASSUME NEW r \in Requests, NEW amount \in 1..setting.cost, Reserve(r, amount) PROVE Seeded'
  <2> DEFINE q == [req[r] EXCEPT !.phase = "live", !.amount = amount, !.deadline = now + LeaseTtl]
  <2>1. q.phase = "live"
    BY DEF Typed, Records
  <2> HIDE DEF q
  <2>2. UNCHANGED <<now, actual, row, admin>> /\ (Goes(r, q) \/ Goes(r, Idle)) /\ req[r].phase = "reserving"
    BY <1>5 DEF Reserve, q
  <2>3. actual.exp # 0
    BY <2>2 DEF Seeded, Lifetime
  <2> QED  BY <1>4, <1>s, <2>1, <2>2, <2>3, SeededKept
<1>6. ASSUME NEW r \in Requests, NEW cost \in 0..req[r].amount, Settle(r, cost) PROVE Seeded'
  <2> DEFINE q == [req[r] EXCEPT !.phase = "settling", !.cost = cost,
                                 !.todo = {"redis"} \cup (IF cost > 0 THEN {"db"} ELSE {})]
  <2>1. q.phase = "settling"
    BY DEF Typed, Records
  <2> HIDE DEF q
  <2>2. UNCHANGED <<now, actual, row, admin>> /\ Goes(r, q) /\ req[r].phase = "live"
    BY <1>6 DEF Settle, redisKeys, q
  <2>3. actual.exp # 0
    BY <2>2 DEF Seeded, Lifetime
  <2> QED  BY <1>s, <2>1, <2>2, <2>3, SeededKept
<1>7. ASSUME NEW r \in Requests, NEW write,
             (SettleRedis(r) /\ write = "redis") \/ (AddSpend(r) /\ write = "db")
      PROVE Seeded'
  <2> DEFINE q == IF req[r].todo = {write} THEN Idle ELSE [req[r] EXCEPT !.todo = @ \ {write}]
  <2>1. req[r].phase = "settling" /\ Done(r, write)
    BY <1>7 DEF SettleRedis, AddSpend
  <2>2. q.phase \in {"idle", "settling"}
    BY <2>1 DEF Idle, Typed, Records
  <2>3. Goes(r, q)
    BY <2>1 DEF Done
  <2> HIDE DEF q
  <2>4. UNCHANGED <<now, admin>> /\ row'.resetAt = row.resetAt
    BY <1>7 DEF SettleRedis, AddSpend, Typed
  <2>5. actual.exp # 0
    BY <2>1 DEF Seeded, Lifetime
  <2>6. actual'.exp # 0
    BY <1>7, <1>n, <2>5 DEF SettleRedis, AddSpend, redisKeys, Exchanges, Exists
  <2> QED  BY <1>s, <2>2, <2>3, <2>4, <2>6, SeededKept
<1>8. ASSUME NEW r \in Requests, Crash(r) PROVE Seeded'
  <2> DEFINE q == [req[r] EXCEPT !.phase = "crashed"]
  <2>1. q.phase = "crashed"
    BY DEF Typed, Records
  <2> HIDE DEF q
  <2>2. Goes(r, q) /\ UNCHANGED <<now, actual, row, admin>>
    BY <1>8 DEF Crash, redisKeys, q
  <2> QED  BY <1>s, <2>1, <2>2, SeededKept
<1>9. CASE Tick
  <2>1. UNCHANGED <<row, req, admin>> /\ actual' = Expires(actual, GoneNumber) /\ Forever' = Forever
    BY <1>9 DEF Tick, Forever
  <2>2. actual'.exp = actual.exp /\ (actual.exp = 0 => actual'.val = 0)
    BY <1>n, <2>1, Parameters DEF Expires, GoneNumber, Seeded
  <2> QED  BY <2>1, <2>2 DEF Seeded, Lifetime
<1>10. CASE UNCHANGED vars
  BY <1>10 DEF vars, Seeded, Lifetime, Forever
<1>11. ASSUME NEW r \in Requests, Enforced(r) \/ Reuse(r) PROVE Seeded'
  BY <1>4, <1>11 DEF Enforced, Reuse, redisKeys
<1>12. \A r \in Requests : SettleRedis(r) \/ AddSpend(r) => Seeded'
  BY <1>7
<1> QED
  BY <1>s, <1>n, <1>1, <1>2, <1>3, <1>5, <1>6, <1>8, <1>9, <1>10, <1>11, <1>12 DEF Next
-----------------------------------------------------------------------------
(* Requests that end in time keep their leases. *)

\* No request in time is overdue.
LEMMA InTimeNotOverdue ==
    ASSUME Typed, InTime, Lifetime, NEW r \in Requests, Active(req[r])
    PROVE  /\ r \in leases.ids /\ r \notin Overdue
           /\ req[r].since \in Nat /\ req[r].deadline \in Nat
           /\ req[r].deadline >= req[r].since + LeaseTtl /\ req[r].deadline <= leases.exp
<1>1. req[r].phase \notin {"idle", "crashed"}
  BY DEF Active
<1>2. /\ r \in leases.ids /\ req[r].deadline >= req[r].since + LeaseTtl
      /\ now <= req[r].since + MaxDuration /\ req[r].deadline <= leases.exp
  BY <1>1 DEF InTime
<1>3. req[r].since \in Nat /\ req[r].deadline \in Nat
  BY DEF Typed, Records
<1> QED  BY <1>2, <1>3, Parameters DEF Overdue

LEMMA InTimeKept ==
    ASSUME Typed, InTime, Lifetime, NEW r \in Requests, NEW q, Goes(r, q), UNCHANGED <<setting, now>>,
           leases'.ids \subseteq leases.ids \cup {r},
           leases'.ids = {} \/ leases.exp <= leases'.exp,
           leases'.exp \in Nat,
           \A x \in Requests \ {r} : Active(req[x]) => x \in leases'.ids,
           r \in leases'.ids => q.deadline <= leases'.exp,
           q.phase \notin {"idle", "crashed"} => now <= q.since + MaxDuration,
           Active(q) => r \in leases'.ids /\ q.deadline >= q.since + LeaseTtl
    PROVE  InTime'
<1>1. req'[r] = q /\ \A x \in Requests \ {r} : req'[x] = req[x]
  BY Moved
<1>2. ASSUME NEW x \in leases'.ids PROVE req'[x].deadline <= leases'.exp
  <2>1. CASE x = r
    BY <1>1, <1>2, <2>1
  <2>2. CASE x # r
    <3>1. x \in leases.ids /\ leases.exp <= leases'.exp /\ leases.exp \in Nat
      BY <1>2, <2>2 DEF Typed
    <3>2. req'[x] = req[x] /\ req[x].deadline \in Nat /\ req[x].deadline <= leases.exp
      BY <1>1, <2>2, <3>1 DEF InTime, Typed, Records
    <3> QED  BY <3>1, <3>2
  <2> QED  BY <2>1, <2>2
<1>3. ASSUME NEW x \in Requests
      PROVE  /\ req'[x].phase \notin {"idle", "crashed"} => now <= req'[x].since + MaxDuration
             /\ Active(req'[x]) => x \in leases'.ids /\ req'[x].deadline >= req'[x].since + LeaseTtl
  <2>1. CASE x = r
    BY <1>1, <2>1
  <2>2. CASE x # r
    <3>1. req'[x] = req[x]
      BY <1>1, <2>2
    <3> QED  BY <2>2, <3>1 DEF InTime
  <2> QED  BY <2>1, <2>2
<1>4. ASSUME NEW x \in Requests PROVE Active(req[x])' <=> Active(req'[x])
  BY DEF Active
<1> QED  BY <1>2, <1>3, <1>4 DEF InTime

\* A record that goes on from a request in time without becoming active.
LEMMA InTimeOn ==
    ASSUME Typed, InTime, Lifetime, NEW r \in Requests, NEW q, Goes(r, q),
           UNCHANGED <<setting, now, leases>>,
           q.phase \in {"idle", "crashed"}
             \/ (req[r].phase \notin {"idle", "crashed"} /\ q.since = req[r].since),
           r \in leases.ids => q.deadline = req[r].deadline,
           Active(q) => Active(req[r]) /\ q.deadline = req[r].deadline /\ q.since = req[r].since
    PROVE  InTime'
<1>1. leases.exp \in Nat /\ leases'.exp = leases.exp /\ leases'.ids = leases.ids
  BY DEF Typed
<1>2. \A x \in Requests : Active(req[x]) => x \in leases'.ids
  BY <1>1, InTimeNotOverdue
<1>3. r \in leases'.ids => q.deadline <= leases'.exp
  BY <1>1 DEF InTime
<1>4. q.phase \notin {"idle", "crashed"} => now <= q.since + MaxDuration
  BY DEF InTime
<1>5. Active(q) => r \in leases'.ids /\ q.deadline >= q.since + LeaseTtl
  BY <1>1, InTimeNotOverdue
<1> QED  BY <1>1, <1>2, <1>3, <1>4, <1>5, InTimeKept

LEMMA StepKeepsTime == Typed /\ Leased /\ Seeded /\ InTime /\ [Next]_vars => InTime'
<1> SUFFICES ASSUME Typed, Leased, Seeded, InTime, [Next]_vars, Lifetime PROVE InTime'
  BY SettingStays DEF InTime, Lifetime
<1>s. setting' = setting /\ setting.requests \subseteq Requests
  BY SettingStays, Parameters
<1>n. /\ \A r \in Requests : req[r].ttl = 0 /\ ~ResetIfDue(r) /\ ~Zero(r)
      /\ ~AdminResetRow /\ ~AdminClear /\ ~RedisLost
  BY NeverDue
<1>e. leases.exp \in Nat /\ leases.ids \subseteq Requests /\ now \in Nat
  BY Parameters DEF Typed
<1>1. ASSUME NEW r \in Requests, Lookup(r) PROVE InTime'
  <2> DEFINE q == [Idle EXCEPT !.phase = IF Exists(actual) THEN "reserving" ELSE "absent",
                               !.since = now, !.ttl = Ttl(actual)]
  <2>1. q.phase \in {"reserving", "absent"} /\ q.since = now
    BY DEF Idle
  <2> HIDE DEF q
  <2>2. Goes(r, q) /\ UNCHANGED <<now, leases>> /\ req[r].phase = "idle"
    BY <1>1 DEF Lookup, Finds, redisKeys, q
  <2>3. r \notin leases.ids /\ ~Active(q)
    BY <2>1, <2>2, NoLease DEF Active
  <2>4. q.phase \notin {"idle", "crashed"} => now <= q.since + MaxDuration
    BY <2>1, Parameters
  <2>5. \A x \in Requests : Active(req[x]) => x \in leases'.ids
    BY <2>2, InTimeNotOverdue
  <2> QED  BY <1>s, <1>e, <2>2, <2>3, <2>4, <2>5, InTimeKept
<1>2. ASSUME NEW r \in Requests, ReadRow(r) \/ Seed(r) PROVE InTime'
  <2>1. req[r].phase \in {"absent", "seeding"} /\ UNCHANGED <<now, leases>>
    BY <1>2 DEF ReadRow, Seed, redisKeys
  <2>2. r \notin leases.ids
    BY <2>1, NoLease
  <2>3. CASE ReadRow(r)
    <3> DEFINE q == [req[r] EXCEPT !.phase = "seeding", !.seen = row]
    <3>1. q.phase = "seeding" /\ q.since = req[r].since
      BY DEF Typed, Records
    <3> HIDE DEF q
    <3>2. Goes(r, q)
      BY <2>3 DEF ReadRow, q
    <3> QED  BY <1>s, <2>1, <2>2, <3>1, <3>2, InTimeOn DEF Active
  <2>4. CASE Seed(r)
    <3> DEFINE q == [req[r] EXCEPT !.phase = "reserving", !.ttl = SecondsUntilReset(req[r].seen.resetAt)]
    <3>1. q.phase = "reserving" /\ q.since = req[r].since
      BY DEF Typed, Records
    <3> HIDE DEF q
    <3>2. Goes(r, q)
      BY <2>4 DEF Seed, Seeds, q
    <3> QED  BY <1>s, <2>1, <2>2, <3>1, <3>2, InTimeOn DEF Active
  <2> QED  BY <1>2, <2>3, <2>4
<1>3. ASSUME NEW r \in Requests, Enforced(r) \/ Reuse(r) PROVE InTime'
  <2>1. Goes(r, Idle) /\ UNCHANGED <<now, leases>> /\ Idle.phase = "idle"
    BY <1>3 DEF Enforced, Reuse, redisKeys, Idle
  <2>2. r \notin leases.ids
    BY <1>3, NoLease DEF Enforced, Reuse
  <2> QED  BY <1>s, <2>1, <2>2, InTimeOn DEF Active
<1>4. ASSUME NEW r \in Requests, NEW amount \in 1..setting.cost, Reserve(r, amount) PROVE InTime'
  <2> DEFINE kept == leases.ids \ Overdue
             ends == now + LeaseTtlFor(req[r].ttl)
  <2>1. ends = now + LeaseTtl /\ ends \in Nat /\ leases.exp <= ends
    BY <1>n, Parameters DEF LeaseTtlFor, Typed
  <2>2. req[r].phase = "reserving" /\ r \notin leases.ids /\ now' = now
    BY <1>4, NoLease DEF Reserve
  <2>3. \A x \in Requests : Active(req[x]) => x \in kept
    BY InTimeNotOverdue
  <2>4. CASE /\ leases' = [ids |-> kept \cup {r}, exp |-> ends]
             /\ Goes(r, [req[r] EXCEPT !.phase = "live", !.amount = amount, !.deadline = now + LeaseTtl])
    <3> DEFINE q == [req[r] EXCEPT !.phase = "live", !.amount = amount, !.deadline = now + LeaseTtl]
    <3>1. q.phase = "live" /\ q.deadline = now + LeaseTtl /\ q.since = req[r].since
      BY DEF Typed, Records
    <3> HIDE DEF q
    <3>2. Goes(r, q)
      BY <2>4 DEF q
    <3>3. now <= q.since + MaxDuration
      BY <2>2, <3>1 DEF InTime
    <3>4. q.deadline >= q.since + LeaseTtl
      BY <3>1, Parameters DEF Typed, Fits, Records
    <3>5. q.deadline <= ends
      BY <2>1, <3>1
    <3>6. leases'.ids = kept \cup {r} /\ leases'.exp = ends
      BY <2>4
    <3> HIDE DEF kept, ends
    <3>7. kept \subseteq leases.ids
      BY DEF kept
    <3> QED  BY <1>s, <2>1, <2>2, <2>3, <3>2, <3>3, <3>4, <3>5, <3>6, <3>7, InTimeKept
  <2>5. CASE /\ leases' = IF kept = {} THEN GoneLeases ELSE [leases EXCEPT !.ids = kept]
             /\ Goes(r, Idle)
    <3>1. leases'.ids = kept /\ (kept = {} \/ leases'.exp = leases.exp) /\ leases'.exp \in Nat
      BY <2>5 DEF GoneLeases, Typed
    <3>2. Idle.phase = "idle" /\ ~Active(Idle)
      BY DEF Idle, Active
    <3>3. kept \subseteq leases.ids /\ r \notin kept
      BY <2>2
    <3> HIDE DEF kept
    <3> QED  BY <1>s, <1>e, <2>2, <2>3, <2>5, <3>1, <3>2, <3>3, InTimeKept
  <2> QED  BY <1>4, <2>4, <2>5 DEF Reserve
<1>5. ASSUME NEW r \in Requests, NEW cost \in 0..req[r].amount, Settle(r, cost) PROVE InTime'
  <2> DEFINE q == [req[r] EXCEPT !.phase = "settling", !.cost = cost,
                                 !.todo = {"redis"} \cup (IF cost > 0 THEN {"db"} ELSE {})]
  <2>1. q.phase = "settling" /\ q.since = req[r].since /\ q.deadline = req[r].deadline
    BY DEF Typed, Records
  <2> HIDE DEF q
  <2>2. UNCHANGED <<now, leases>> /\ Goes(r, q) /\ req[r].phase = "live"
    BY <1>5 DEF Settle, redisKeys, q
  <2> QED  BY <1>s, <2>1, <2>2, InTimeOn DEF Active
<1>6. ASSUME NEW r \in Requests, NEW write,
             (SettleRedis(r) /\ write = "redis") \/ (AddSpend(r) /\ write = "db")
      PROVE InTime'
  <2> DEFINE q == IF req[r].todo = {write} THEN Idle ELSE [req[r] EXCEPT !.todo = @ \ {write}]
  <2>1. req[r].phase = "settling" /\ Done(r, write) /\ now' = now
    BY <1>6 DEF SettleRedis, AddSpend
  <2>2. /\ q.phase = "idle" \/ (q.phase = "settling" /\ q.since = req[r].since /\ q.deadline = req[r].deadline)
        /\ req[r].todo # {write} => q.deadline = req[r].deadline
        /\ Active(q) => Active(req[r]) /\ q.phase = "settling" /\ write # "redis"
    BY <2>1 DEF Idle, Typed, Records, Active
  <2>3. Goes(r, q)
    BY <2>1 DEF Done
  <2> HIDE DEF q
  <2>4. CASE leases' = leases /\ (r \in leases.ids => write = "db")
    <3>1. r \in leases.ids => q.deadline = req[r].deadline
      <4>1. r \in leases.ids => req[r].todo # {write}
        BY <2>1, <2>4 DEF Leased
      <4> QED  BY <2>2, <4>1
    <3> QED  BY <1>s, <2>1, <2>2, <2>3, <2>4, <3>1, InTimeOn
  <2>5. CASE r \in leases.ids /\ write = "redis" /\ Exchanges(r)
    <3>1. leases'.ids = leases.ids \ {r} /\ (leases'.ids = {} \/ leases'.exp = leases.exp) /\ leases'.exp \in Nat
      BY <2>5 DEF Exchanges, GoneLeases, Typed
    <3>2. \A x \in Requests \ {r} : Active(req[x]) => x \in leases'.ids
      BY <3>1, InTimeNotOverdue
    <3>3. ~Active(q)
      BY <2>2, <2>5
    <3>4. q.phase \notin {"idle", "crashed"} => now <= q.since + MaxDuration
      BY <2>1, <2>2 DEF InTime
    <3> QED  BY <1>s, <1>e, <2>1, <2>3, <3>1, <3>2, <3>3, <3>4, InTimeKept
  <2> QED  BY <1>6, <2>4, <2>5 DEF SettleRedis, AddSpend, redisKeys
<1>7. ASSUME NEW r \in Requests, Crash(r) PROVE InTime'
  <2> DEFINE q == [req[r] EXCEPT !.phase = "crashed"]
  <2>1. q.phase = "crashed" /\ q.deadline = req[r].deadline
    BY DEF Typed, Records
  <2> HIDE DEF q
  <2>2. Goes(r, q) /\ UNCHANGED <<now, leases>>
    BY <1>7 DEF Crash, redisKeys, q
  <2> QED  BY <1>s, <2>1, <2>2, InTimeOn DEF Active
<1>8. CASE Tick
  <2>1. /\ req' = req /\ now' = now + 1 /\ leases' = Expires(leases, GoneLeases)
        /\ \A r \in Requests : req[r].phase \notin {"idle", "crashed"} => now < req[r].since + MaxDuration
    BY <1>8 DEF Tick
  <2>2. ASSUME NEW r \in Requests, req[r].phase \notin {"idle", "crashed"}
        PROVE  now' <= req[r].since + MaxDuration
    BY <2>1, <2>2, <1>e, Parameters DEF Typed, Records
  <2>3. ASSUME NEW r \in Requests, Active(req[r]) PROVE leases' = leases
    <3>1. /\ req[r].since \in Nat /\ req[r].deadline \in Nat
          /\ req[r].deadline >= req[r].since + LeaseTtl /\ req[r].deadline <= leases.exp
      BY <2>3, InTimeNotOverdue
    <3>2. now' <= req[r].since + MaxDuration
      BY <2>2, <2>3 DEF Active
    <3>3. ~(leases.exp <= now + 1)
      BY <1>e, <2>1, <3>1, <3>2, Parameters
    <3> QED  BY <2>1, <3>3 DEF Expires
  <2>4. leases'.ids = {} \/ leases' = leases
    BY <2>1 DEF Expires, GoneLeases
  <2>5. \A r \in Requests : Active(req[r])' <=> Active(req[r])
    BY <2>1 DEF Active
  <2>6. \A x \in leases'.ids : req'[x].deadline <= leases'.exp
    BY <2>1, <2>4 DEF InTime
  <2>7. \A r \in Requests : Active(req[r]) => r \in leases'.ids /\ req'[r].deadline >= req'[r].since + LeaseTtl
    BY <2>1, <2>3 DEF InTime
  <2> QED  BY <2>1, <2>2, <2>5, <2>6, <2>7 DEF InTime
<1>9. CASE UNCHANGED vars
  BY <1>9 DEF vars, InTime, Active
<1>10. \A r \in Requests : SettleRedis(r) \/ AddSpend(r) => InTime'
  BY <1>6
<1> QED
  BY <1>s, <1>n, <1>1, <1>2, <1>3, <1>4, <1>5, <1>7, <1>8, <1>9, <1>10 DEF Next
-----------------------------------------------------------------------------
(* Every cent is in both ledgers or on its way. *)

\* What is owed before and after a step, to either ledger.
LEMMA BalanceSums ==
    ASSUME NEW spend \in Nat, NEW spent \in Nat, NEW value \in Nat, NEW worth \in Nat,
           NEW db \in Nat, NEW db2 \in Nat, NEW redis \in Nat, NEW redis2 \in Nat,
           NEW d \in Nat, NEW d2 \in Nat, NEW e \in Nat, NEW e2 \in Nat,
           spend + db = value + redis, db2 + d = db + d2, redis2 + e = redis + e2,
           (spent + d2) + (value + e) = (worth + e2) + (spend + d)
    PROVE  spent + db2 = worth + redis2
<1>1. (spent + d2) + value + e + (db2 + d) = (worth + e2) + spend + d + (db + d2)
  OBVIOUS
<1>2. spent + value + e + db2 = worth + e2 + (spend + db)
  BY <1>1
<1>3. spent + e + db2 = worth + (e2 + redis)
  BY <1>2
<1> QED  BY <1>3

LEMMA BalanceKept ==
    ASSUME Typed, Typed', Balanced, Lifetime, NEW r \in Requests, NEW q, Goes(r, q), setting' = setting,
           (row'.spend + Owes("db", q)) + (actual.val + Owes("redis", req[r]))
             = (actual'.val + Owes("redis", q)) + (row.spend + Owes("db", req[r])),
           actual'.val + reserved'.val <= setting.limit,
           q.phase # "settling" => q.todo = {}
    PROVE  Balanced'
<1>1. req'[r] = q /\ \A x \in Requests \ {r} : req'[x] = req[x]
  BY Moved
<1>2. Bounded(req, setting.cost) /\ setting.cost \in Nat
  BY RecordsBounded
<1>3. Bounded(req', setting.cost)
  <2>1. \A x \in Requests : Fits(req[x])'
    BY DEF Typed
  <2> QED  BY <1>2, <2>1 DEF Bounded, Fits, Records
<1>4. \A w : /\ OwedOf(w, req') + Owes(w, req[r]) = OwedOf(w, req) + Owes(w, q)
             /\ OwedOf(w, req') \in Nat /\ OwedOf(w, req) \in Nat
  BY <1>1, <1>2, <1>3, OwedChange
<1>5. \A w : Unwritten(w) = OwedOf(w, req) /\ Unwritten(w)' = OwedOf(w, req')
  BY DEF Unwritten, OwedOf, Owes
<1>6. /\ row.spend \in Nat /\ actual.val \in Nat /\ row'.spend \in Nat /\ actual'.val \in Nat
      /\ \A w : Owes(w, req[r]) \in Nat /\ Owes(w, q) \in Nat
  BY <1>1, <1>2, <1>3 DEF Typed, Owes, Bounded
<1>7. row.spend + OwedOf("db", req) = actual.val + OwedOf("redis", req)
  BY <1>5 DEF Balanced
<1>8. row'.spend + OwedOf("db", req') = actual'.val + OwedOf("redis", req')
  <2>1. /\ OwedOf("db", req') + Owes("db", req[r]) = OwedOf("db", req) + Owes("db", q)
        /\ OwedOf("db", req') \in Nat /\ OwedOf("db", req) \in Nat
        /\ Owes("db", req[r]) \in Nat /\ Owes("db", q) \in Nat
    BY <1>4, <1>6, Zenon
  <2>2. /\ OwedOf("redis", req') + Owes("redis", req[r]) = OwedOf("redis", req) + Owes("redis", q)
        /\ OwedOf("redis", req') \in Nat /\ OwedOf("redis", req) \in Nat
        /\ Owes("redis", req[r]) \in Nat /\ Owes("redis", q) \in Nat
    BY <1>4, <1>6, Zenon
  <2> QED  BY <1>6, <1>7, <2>1, <2>2, BalanceSums
<1>9. \A x \in Requests : req'[x].phase # "settling" => req'[x].todo = {}
  BY <1>1 DEF Balanced
<1> QED  BY <1>5, <1>8, <1>9 DEF Balanced

\* Nothing is owed by a record with nothing to do.
LEMMA NothingOwed == ASSUME NEW q, q.todo = {}, NEW w PROVE Owes(w, q) = 0
BY DEF Owes

\* A step between records that owe nothing, with both ledgers as they were.
LEMMA BalanceOn ==
    ASSUME Typed, Typed', Balanced, Lifetime, NEW r \in Requests, NEW q, Goes(r, q), setting' = setting,
           q.todo = {}, req[r].todo = {}, row'.spend = row.spend, actual'.val = actual.val,
           actual'.val + reserved'.val <= setting.limit
    PROVE  Balanced'
<1>1. \A w : Owes(w, q) = 0 /\ Owes(w, req[r]) = 0
  BY NothingOwed
<1>2. row.spend \in Nat /\ actual.val \in Nat
  BY DEF Typed
<1> QED  BY <1>1, <1>2, BalanceKept

LEMMA StepKeepsBalance ==
    "settling" \notin CrashPhases =>
      (LifetimeInv /\ Typed' /\ [Next]_vars => Balanced')
<1> SUFFICES ASSUME "settling" \notin CrashPhases, LifetimeInv, Typed', [Next]_vars, Lifetime
             PROVE  Balanced'
  BY SettingStays DEF Balanced, Lifetime
<1>i. Typed /\ Leased /\ Covered /\ Seeded /\ InTime /\ Balanced
  BY DEF LifetimeInv, Inv
<1>s. setting' = setting /\ setting.requests \subseteq Requests
  BY <1>i, SettingStays, Parameters
<1>n. /\ \A r \in Requests : req[r].ttl = 0 /\ ~ResetIfDue(r) /\ ~Zero(r)
      /\ ~AdminResetRow /\ ~AdminClear /\ ~RedisLost
      /\ actual.exp \in {0, Forever} /\ Forever > now + 1 /\ Forever \in Nat
  BY <1>i, NeverDue
<1>t. /\ row.spend \in Nat /\ actual.val \in Nat /\ reserved.val \in Nat
      /\ actual.val + reserved.val <= setting.limit /\ setting.limit \in Nat
  BY <1>i, Parameters DEF Typed, Balanced
<1>c. reserved.val >= Amounts(leases.ids)
  BY <1>i DEF Covered, Lifetime
<1>1. ASSUME NEW r \in Requests, Lookup(r) \/ ReadRow(r) \/ Seed(r) \/ Enforced(r) \/ Crash(r) \/ Reuse(r)
      PROVE Balanced'
  <2>1. req[r].phase # "settling"
    BY <1>1 DEF Lookup, ReadRow, Seed, Enforced, Crash, Reuse
  <2>2. req[r].todo = {} /\ req[r] \in Records
    BY <1>i, <2>1 DEF Balanced, Lifetime, Typed
  <2>3. \E q : Goes(r, q) /\ q.todo = {}
    <3>1. CASE Lookup(r)
      <4> DEFINE q == [Idle EXCEPT !.phase = IF Exists(actual) THEN "reserving" ELSE "absent",
                                   !.since = now, !.ttl = Ttl(actual)]
      <4>1. q.todo = {}
        BY DEF Idle
      <4> HIDE DEF q
      <4>2. Goes(r, q)
        BY <3>1 DEF Lookup, Finds, q
      <4> QED  BY <4>1, <4>2
    <3>2. CASE ReadRow(r)
      <4> DEFINE q == [req[r] EXCEPT !.phase = "seeding", !.seen = row]
      <4>1. q.todo = {}
        BY <2>2 DEF Records
      <4> HIDE DEF q
      <4>2. Goes(r, q)
        BY <3>2 DEF ReadRow, q
      <4> QED  BY <4>1, <4>2
    <3>3. CASE Seed(r)
      <4> DEFINE q == [req[r] EXCEPT !.phase = "reserving", !.ttl = SecondsUntilReset(req[r].seen.resetAt)]
      <4>1. q.todo = {}
        BY <2>2 DEF Records
      <4> HIDE DEF q
      <4>2. Goes(r, q)
        BY <3>3 DEF Seed, Seeds, q
      <4> QED  BY <4>1, <4>2
    <3>4. CASE Enforced(r) \/ Reuse(r)
      BY <3>4 DEF Enforced, Reuse, Idle
    <3>5. CASE Crash(r)
      <4> DEFINE q == [req[r] EXCEPT !.phase = "crashed"]
      <4>1. q.todo = {}
        BY <2>2 DEF Records
      <4> HIDE DEF q
      <4>2. Goes(r, q)
        BY <3>5 DEF Crash, q
      <4> QED  BY <4>1, <4>2
    <3> QED  BY <1>1, <3>1, <3>2, <3>3, <3>4, <3>5
  <2>4. row' = row /\ reserved' = reserved /\ actual'.val = actual.val
    <3>1. CASE Seed(r)
      <4>1. actual.exp = 0 => actual.val = 0 /\ req[r].seen.spend = 0
        BY <1>i, <3>1 DEF Seeded, Lifetime, Seed
      <4>2. actual'.val = IF Exists(actual) THEN actual.val ELSE req[r].seen.spend
        BY <3>1 DEF Seed, Seeds
      <4>3. ~Exists(actual) => actual.exp = 0
        BY <1>i DEF Exists, Typed
      <4> QED  BY <3>1, <4>1, <4>2, <4>3 DEF Seed
    <3>2. CASE ~Seed(r)
      BY <1>1, <3>2 DEF Lookup, ReadRow, Enforced, Crash, Reuse, redisKeys
    <3> QED  BY <3>1, <3>2
  <2> QED  BY <1>i, <1>s, <1>t, <2>2, <2>3, <2>4, BalanceOn
<1>2. ASSUME NEW r \in Requests, NEW amount \in 1..setting.cost, Reserve(r, amount) PROVE Balanced'
  <2> DEFINE held == Less(reserved.val, Amounts(Overdue))
  <2>1. req[r].todo = {} /\ req[r] \in Records /\ row' = row /\ actual' = actual
    BY <1>i, <1>2 DEF Reserve, Balanced, Lifetime, Typed
  <2>2. held \in Nat /\ held <= reserved.val
    <3>1. Overdue \in SUBSET leases.ids
      BY DEF Overdue
    <3>2. /\ Less(reserved.val, Amounts(Overdue)) + Amounts(Overdue) = reserved.val
          /\ Less(reserved.val, Amounts(Overdue)) \in Nat /\ Amounts(Overdue) \in Nat
      BY <1>i, <1>c, <3>1, ReturningCovers
    <3> HIDE DEF held
    <3>3. held = Less(reserved.val, Amounts(Overdue))
      BY DEF held
    <3> QED  BY <1>t, <3>2, <3>3
  <2>3. CASE /\ actual.val + held + amount <= setting.limit
             /\ reserved'.val = held + amount
             /\ Goes(r, [req[r] EXCEPT !.phase = "live", !.amount = amount, !.deadline = now + LeaseTtl])
    <3> DEFINE q == [req[r] EXCEPT !.phase = "live", !.amount = amount, !.deadline = now + LeaseTtl]
    <3>1. q.todo = {}
      BY <2>1 DEF Records
    <3> HIDE DEF q
    <3>2. Goes(r, q)
      BY <2>3 DEF q
    <3>3. amount \in Nat
      BY <1>i, Parameters
    <3> HIDE DEF held
    <3>4. actual'.val + reserved'.val <= setting.limit
      BY <1>t, <2>1, <2>2, <2>3, <3>3
    <3> QED  BY <1>i, <1>s, <2>1, <3>1, <3>2, <3>4, BalanceOn
  <2>4. CASE reserved'.val \in {reserved.val, 0, held} /\ Goes(r, Idle)
    <3>1. Idle.todo = {}
      BY DEF Idle
    <3> HIDE DEF held
    <3>2. actual'.val + reserved'.val <= setting.limit
      BY <1>t, <2>1, <2>2, <2>4
    <3> QED  BY <1>i, <1>s, <2>1, <2>4, <3>1, <3>2, BalanceOn
  <2>5. CASE /\ reserved' = [val |-> held + amount, exp |-> now + LeaseTtlFor(req[r].ttl)]
             /\ actual.val + held + amount <= setting.limit
             /\ Goes(r, [req[r] EXCEPT !.phase = "live", !.amount = amount, !.deadline = now + LeaseTtl])
    BY <2>3, <2>5
  <2>6. CASE /\ reserved' = IF Overdue = {} THEN reserved
                            ELSE IF held = 0 THEN GoneNumber
                            ELSE [val |-> held, exp |-> now + LeaseTtlFor(req[r].ttl)]
             /\ Goes(r, Idle)
    <3>1. reserved'.val \in {reserved.val, 0, held}
      BY <2>6 DEF GoneNumber
    <3> QED  BY <2>4, <2>6, <3>1
  <2> QED  BY <1>2, <2>5, <2>6 DEF Reserve
<1>3. ASSUME NEW r \in Requests, NEW cost \in 0..req[r].amount, Settle(r, cost) PROVE Balanced'
  <2> DEFINE q == [req[r] EXCEPT !.phase = "settling", !.cost = cost,
                                 !.todo = {"redis"} \cup (IF cost > 0 THEN {"db"} ELSE {})]
  <2>1. req[r].todo = {} /\ req[r] \in Records /\ req[r].phase = "live"
        /\ UNCHANGED <<row, actual, reserved>>
    BY <1>i, <1>3 DEF Settle, redisKeys, Balanced, Lifetime, Typed
  <2>2. cost \in Nat
    BY <2>1 DEF Records
  <2>3. q.phase = "settling" /\ q.cost = cost /\ q.todo = {"redis"} \cup (IF cost > 0 THEN {"db"} ELSE {})
    BY <2>1 DEF Records
  <2> HIDE DEF q
  <2>4. Goes(r, q)
    BY <1>3 DEF Settle, q
  <2>5. Owes("redis", q) = cost /\ Owes("db", q) = cost
    BY <2>2, <2>3 DEF Owes
  <2>6. Owes("redis", req[r]) = 0 /\ Owes("db", req[r]) = 0
    BY <2>1, NothingOwed
  <2> QED  BY <1>i, <1>s, <1>t, <2>1, <2>2, <2>3, <2>4, <2>5, <2>6, BalanceKept
<1>4. ASSUME NEW r \in Requests, NEW write \in {"redis", "db"}, req[r].phase = "settling",
             write \in req[r].todo, Done(r, write),
             write = "redis" => row' = row /\ actual'.val = actual.val + req[r].cost,
             write = "db" => row'.spend = row.spend + req[r].cost /\ actual' = actual,
             actual'.val + reserved'.val <= setting.limit
      PROVE Balanced'
  <2> DEFINE q == IF req[r].todo = {write} THEN Idle ELSE [req[r] EXCEPT !.todo = @ \ {write}]
  <2>1. req[r] \in Records /\ req[r].todo \subseteq {"redis", "db"} /\ req[r].cost \in Nat
    BY <1>i DEF Typed, Records
  <2>2. CASE req[r].todo = {write}
    <3>1. Goes(r, Idle) /\ Idle.todo = {}
      BY <1>4, <2>2 DEF Done, Idle
    <3>2. \A w : Owes(w, Idle) = 0
      BY <3>1, NothingOwed
    <3>3. \A w \in {"redis", "db"} : Owes(w, req[r]) = IF w = write THEN req[r].cost ELSE 0
      BY <2>2 DEF Owes
    <3>4. (row'.spend + Owes("db", Idle)) + (actual.val + Owes("redis", req[r]))
             = (actual'.val + Owes("redis", Idle)) + (row.spend + Owes("db", req[r]))
      BY <1>4, <1>t, <2>1, <3>2, <3>3
    <3> QED  BY <1>4, <1>i, <1>s, <3>1, <3>4, BalanceKept
  <2>3. CASE req[r].todo # {write}
    <3> DEFINE p == [req[r] EXCEPT !.todo = @ \ {write}]
    <3>1. p.todo = req[r].todo \ {write} /\ p.cost = req[r].cost /\ p.phase = "settling"
      BY <1>4, <2>1 DEF Records
    <3> HIDE DEF p
    <3>2. Goes(r, p)
      BY <1>4, <2>3 DEF Done, p
    <3>3. \A w \in {"redis", "db"} :
             /\ Owes(w, req[r]) = req[r].cost
             /\ Owes(w, p) = IF w = write THEN 0 ELSE req[r].cost
      BY <1>4, <2>1, <2>3, <3>1 DEF Owes
    <3>4. (row'.spend + Owes("db", p)) + (actual.val + Owes("redis", req[r]))
             = (actual'.val + Owes("redis", p)) + (row.spend + Owes("db", req[r]))
      BY <1>4, <1>t, <2>1, <3>3
    <3> QED  BY <1>4, <1>i, <1>s, <3>1, <3>2, <3>4, BalanceKept
  <2> QED  BY <2>2, <2>3
<1>5. ASSUME NEW r \in Requests, SettleRedis(r) PROVE Balanced'
  <2>1. req[r].phase = "settling" /\ "redis" \in req[r].todo /\ Done(r, "redis") /\ row' = row
    BY <1>5 DEF SettleRedis
  <2>2. r \in leases.ids
    BY <1>i, <2>1, InTimeNotOverdue DEF Active
  <2>3. Exchanges(r) /\ actual.exp # 0
    BY <1>5, <1>i, <2>1, <2>2 DEF SettleRedis, Seeded, Lifetime
  <2>4. req[r].cost \in Nat /\ req[r].amount \in Nat /\ req[r].cost <= req[r].amount
    BY <1>i DEF Typed, Fits, Records
  <2>5. actual'.val = actual.val + req[r].cost
    <3>1. req[r].cost = 0 => actual' = actual
      BY <2>3 DEF Exchanges
    <3>2. req[r].cost # 0 => actual'.val = actual.val + req[r].cost
      BY <2>3 DEF Exchanges
    <3> QED  BY <1>t, <3>1, <3>2
  <2>6. reserved'.val + req[r].amount = reserved.val /\ reserved'.val \in Nat
    <3>1. {r} \in SUBSET leases.ids
      BY <2>2
    <3>2. Amounts({r}) = req[r].amount
      BY <1>i, RecordsBounded, AmountsOfOne DEF Amounts, AmountsOf
    <3>3. /\ Less(reserved.val, Amounts({r})) + Amounts({r}) = reserved.val
          /\ Less(reserved.val, Amounts({r})) \in Nat
      BY <1>i, <1>c, <3>1, ReturningCovers
    <3>4. reserved'.val = Less(reserved.val, req[r].amount)
      BY <2>3 DEF Exchanges
    <3> QED  BY <3>2, <3>3, <3>4
  <2>7. actual'.val + reserved'.val <= setting.limit
    BY <1>t, <2>4, <2>5, <2>6
  <2> QED  BY <1>4, <2>1, <2>5, <2>7
<1>6. ASSUME NEW r \in Requests, AddSpend(r) PROVE Balanced'
  <2>1. /\ req[r].phase = "settling" /\ "db" \in req[r].todo /\ Done(r, "db")
        /\ actual' = actual /\ reserved' = reserved
    BY <1>6 DEF AddSpend, redisKeys
  <2>2. row'.spend = row.spend + req[r].cost
    BY <1>6, <1>i DEF AddSpend, Typed
  <2> QED  BY <1>4, <1>t, <2>1, <2>2
<1>7. CASE Tick
  <2>1. /\ req' = req /\ row' = row /\ actual' = Expires(actual, GoneNumber)
        /\ reserved' = Expires(reserved, GoneNumber)
    BY <1>7 DEF Tick
  <2>2. actual'.val = actual.val
    <3>1. actual.exp = 0 => actual.val = 0
      BY <1>i DEF Seeded, Lifetime
    <3>2. actual.exp <= now + 1 => actual.exp = 0
      BY <1>i, <1>n, Parameters
    <3> QED  BY <2>1, <3>1, <3>2 DEF Expires, GoneNumber
  <2>3. reserved'.val \in {reserved.val, 0}
    BY <2>1 DEF Expires, GoneNumber
  <2>4. actual'.val + reserved'.val <= setting.limit
    BY <1>t, <2>2, <2>3
  <2> QED  BY <1>i, <1>s, <2>1, <2>2, <2>4 DEF Balanced, Lifetime, Unwritten
<1>8. CASE UNCHANGED vars
  BY <1>8, <1>i DEF vars, Balanced, Lifetime, Unwritten
<1> QED
  BY <1>s, <1>n, <1>1, <1>2, <1>3, <1>5, <1>6, <1>7, <1>8 DEF Next
-----------------------------------------------------------------------------
(* Theorems. *)

LEMMA InitiallyInvariant == Init => LifetimeInv
<1> SUFFICES ASSUME Init PROVE LifetimeInv
  OBVIOUS
<1>1. setting \in Settings /\ now = 1 /\ now \in 1..MaxTime
  BY BudgetAssumption DEF Init, BudgetAssumption
<1>2. /\ setting.period \in Nat /\ setting.cost \in Nat /\ setting.limit \in Nat
      /\ LeaseTtl \in Nat /\ MaxDuration \in Nat /\ MaxTime \in Nat
  BY <1>1, BudgetAssumption DEF BudgetAssumption
<1>3. NextResetAt \in Nat /\ WithinPeriod(NextResetAt) /\ Forever \in Nat /\ (setting.period = 0 => NextResetAt = Forever)
  BY <1>1, <1>2 DEF NextResetAt, WithinPeriod, Forever
<1>4. Fits(Idle)
  <2>1. Idle \in Records
    BY DEF Idle, Records, Phases
  <2> QED  BY <1>1, <1>2, <2>1 DEF Idle, Fits, WithinPeriod
<1>5. Typed
  BY <1>1, <1>2, <1>3, <1>4 DEF Init, Typed, GoneNumber, GoneLeases, Fits
<1>6. /\ \A r \in Requests : req[r] = Idle
      /\ leases.ids = {} /\ leases.exp = 0 /\ reserved = GoneNumber /\ actual = GoneNumber
      /\ row = [spend |-> 0, resetAt |-> NextResetAt] /\ admin = "idle"
  BY DEF Init, GoneLeases
<1>7. Leased
  BY <1>6 DEF Leased, Idle
<1>8. Amounts({}) = 0
  BY AmountsOfNone DEF Amounts, AmountsOf
<1>9. Covered
  BY <1>6, <1>8 DEF Covered, GoneNumber
<1>10. Seeded
  BY <1>3, <1>6 DEF Seeded, Lifetime, Idle, GoneNumber
<1>11. InTime
  BY <1>6 DEF InTime, Idle, Active
<1>12. Balanced
  <2>1. ASSUME NEW write PROVE Unwritten(write) = 0
    <3>1. \A r \in Requests : [x \in Requests |-> IF write \in req[x].todo THEN req[x].cost ELSE 0][r] = 0
      BY <1>6 DEF Idle
    <3> HIDE DEF Idle
    <3> QED  BY <3>1, TotalZero DEF Unwritten
  <2> QED  BY <1>2, <1>6, <2>1 DEF Balanced, GoneNumber, Idle
<1> QED  BY <1>5, <1>7, <1>9, <1>10, <1>11, <1>12 DEF LifetimeInv, Inv

\* Whatever the settings, the crashes and the losses, every state has its type and
\* each lease belongs to a request that is served, settled or was lost with it.
THEOREM Invariance == Spec => []Inv
<1>1. Init => Inv
  BY InitiallyInvariant DEF LifetimeInv
<1>2. Inv /\ [Next]_vars => Inv'
  BY StepKeepsTypes, StepKeepsLeases, StepKeepsCovered DEF Inv
<1> QED  BY <1>1, <1>2, PTL DEF Spec

\* Whatever fails, no reservation is returned twice or for somebody else: the
\* reserved counter of a budget that never resets covers the leases (RESERVE_LUA,
\* SETTLE_LUA).
THEOREM LeasesCovered == Spec => []ReservedCoversLeases
<1>1. Inv => ReservedCoversLeases
  <2> SUFFICES ASSUME Inv PROVE ReservedCoversLeases
    OBVIOUS
  <2>1. Typed /\ (setting.period = 0 => reserved.val >= Amounts(leases.ids))
    BY DEF Inv, Covered
  <2>2. ASSUME NEW r \in Requests
        PROVE  /\ req[r].phase \in Phases \cup {"crashed"}
               /\ req[r].amount \in 0..setting.cost /\ req[r].cost \in 0..req[r].amount
               /\ req[r].todo \subseteq {"redis", "db"}
    BY <2>1, Parameters DEF Typed, Fits, Records
  <2>3. actual.val \in Nat /\ actual.exp \in {0} \cup ((now + 1)..Forever)
    BY <2>1, Parameters DEF Typed
  <2>4. reserved.val \in Nat /\ reserved.exp \in {0} \cup ((now + 1)..Forever)
    BY <2>1, Parameters DEF Typed
  <2>5. leases.ids \subseteq Requests /\ leases.exp \in 0..Forever
    BY <2>1, Parameters DEF Typed
  <2> QED  BY <2>1, <2>2, <2>3, <2>4, <2>5 DEF ReservedCoversLeases, TypeOK, Typed
<1> QED  BY <1>1, Invariance, PTL

\* Without a death between the two writes of a settlement.
THEOREM LifetimeInvariance == "settling" \notin CrashPhases => (Spec => []LifetimeInv)
<1> SUFFICES ASSUME "settling" \notin CrashPhases PROVE Spec => []LifetimeInv
  OBVIOUS
<1>1. LifetimeInv /\ [Next]_vars => LifetimeInv'
  <2> SUFFICES ASSUME LifetimeInv, [Next]_vars PROVE LifetimeInv'
    OBVIOUS
  <2>1. Inv' /\ Typed'
    BY StepKeepsTypes, StepKeepsLeases, StepKeepsCovered DEF LifetimeInv, Inv
  <2>2. Seeded' /\ InTime'
    BY StepKeepsSeeded, StepKeepsTime DEF LifetimeInv, Inv
  <2>3. Balanced'
    BY <2>1, StepKeepsBalance
  <2> QED  BY <2>1, <2>2, <2>3 DEF LifetimeInv
<1> QED  BY <1>1, InitiallyInvariant, PTL DEF Spec

\* Redis and Postgres agree on every cent both were told of, however requests
\* seed the counter and settle (budgetSpendFromRedisOrDb, settle).
THEOREM LedgersAlwaysAgree == "settling" \notin CrashPhases => (Spec => []LedgersAgree)
<1>1. LifetimeInv => LedgersAgree
  BY DEF LifetimeInv, Balanced, Lifetime, LedgersAgree
<1> QED  BY <1>1, LifetimeInvariance, PTL

\* The spend recorded for a budget that never resets never exceeds its limit: a
\* cent is reserved under the limit before it is spent (enforced by RESERVE_LUA).
THEOREM SpendStaysWithinLimit == "settling" \notin CrashPhases => (Spec => []HardCap)
<1>1. LifetimeInv => HardCap
  <2> SUFFICES ASSUME LifetimeInv, Lifetime PROVE row.spend <= setting.limit
    BY DEF HardCap, Lifetime
  <2>1. Typed /\ Covered /\ InTime /\ Balanced
    BY DEF LifetimeInv, Inv
  <2>2. Bounded(req, setting.cost) /\ setting.cost \in Nat
    BY <2>1, RecordsBounded
  <2>3. \A w : Unwritten(w) = OwedOf(w, req) /\ OwedOf(w, req) \in Nat
    <3>1. \A w : Unwritten(w) = OwedOf(w, req)
      BY DEF Unwritten, OwedOf, Owes
    <3>2. ASSUME NEW w PROVE OwedOf(w, req) \in Nat
      <4>1. [x \in Requests |-> Owes(w, req[x])] \in Tallies(setting.cost)
        BY <2>2 DEF Bounded, Tallies, Owes
      <4> QED  BY <2>2, <4>1, TotalNatural DEF OwedOf
    <3> QED  BY <3>1, <3>2
  <2>4. \A r \in Requests : "redis" \in req[r].todo => r \in leases.ids
    BY <2>1 DEF Balanced, InTime, Active
  <2>5. OwedOf("redis", req) <= Amounts(leases.ids) /\ Amounts(leases.ids) \in Nat
    BY <2>2, <2>4, OwedWithin, AmountsOfNatural DEF Amounts, AmountsOf
  <2>6. /\ row.spend + OwedOf("db", req) = actual.val + OwedOf("redis", req)
        /\ actual.val + reserved.val <= setting.limit /\ reserved.val >= Amounts(leases.ids)
    BY <2>1, <2>3 DEF Balanced, Covered, Lifetime
  <2>7. /\ row.spend \in Nat /\ actual.val \in Nat /\ reserved.val \in Nat /\ setting.limit \in Nat
        /\ OwedOf("db", req) \in Nat /\ OwedOf("redis", req) \in Nat
    BY <2>1, <2>3, Parameters DEF Typed
  <2>8. row.spend <= actual.val + OwedOf("redis", req)
    BY <2>6, <2>7
  <2>9. actual.val + OwedOf("redis", req) <= actual.val + reserved.val
    BY <2>5, <2>6, <2>7
  <2> QED  BY <2>6, <2>7, <2>8, <2>9
<1> QED  BY <1>1, LifetimeInvariance, PTL

\* Spend is wiped by an administrator, or by the one request that finds the window
\* of the row over and opens the next (resetVirtualKeySpendIfDue).
THEOREM SpendWipedOnce == Spec => SpendWipedOnlyWhenDue
<1>1. Typed /\ [Next]_vars => [row'.spend < row.spend =>
        admin' = "clearing" \/ (row.resetAt <= now /\ row'.resetAt > now)]_vars
  <2> SUFFICES ASSUME Typed, Next, row'.spend < row.spend
               PROVE  admin' = "clearing" \/ (row.resetAt <= now /\ row'.resetAt > now)
    OBVIOUS
  <2>1. row.spend \in Nat /\ ~(row.spend < row.spend)
    BY DEF Typed
  <2>2. ASSUME NEW r \in Requests, ResetIfDue(r), row' # row
        PROVE  row.resetAt <= now /\ row'.resetAt > now
    <3>1. row.resetAt <= now /\ row' = [spend |-> 0, resetAt |-> NextResetAt]
      BY <2>2 DEF ResetIfDue, IsDue
    <3>2. NextResetAt > now
      BY Parameters DEF NextResetAt
    <3> QED  BY <3>1, <3>2
  <2>3. ASSUME NEW r \in Requests, AddSpend(r) PROVE FALSE
    <3>1. row'.spend = row.spend + req[r].cost /\ req[r].cost \in Nat
      BY <2>3 DEF AddSpend, Typed, Records
    <3> QED  BY <2>1, <3>1
  <2>4. row' # row
    BY <2>1
  <2>5. setting.requests \subseteq Requests
    BY Parameters
  <2> QED
    BY <2>2, <2>3, <2>4, <2>5
    DEF Next, Lookup, ReadRow, Seed, Zero, Enforced, Reserve, Settle, SettleRedis, Crash, Reuse,
        AdminResetRow, AdminClear, RedisLost, Tick
<1>2. Inv => Typed
  BY DEF Inv
<1> QED  BY <1>1, <1>2, Invariance, PTL DEF Spec, SpendWipedOnlyWhenDue
=============================================================================
