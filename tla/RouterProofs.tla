---------------------------- MODULE RouterProofs ----------------------------
(***************************************************************************)
(* For any pools, fallback chains and limit of attempts: the attempts of a *)
(* logical request stay within one limit, each is settled once, a          *)
(* deployment that failed for good is not contacted again, the candidates  *)
(* of a pool are used evenly, fallbacks are tried in order where they fit, *)
(* and a request gives up only when every pool was hindered.               *)
(*                                                                         *)
(* SettledOnce is not inductive.  Inv adds the shape of the locals         *)
(* (Typed), how the limit is divided between the route() calls (Counts),   *)
(* what an attempt holds in each state (Holdings), and that a deployment   *)
(* is counted in req before it is charged in past (Charges).               *)
(***************************************************************************)
EXTENDS Router, FiniteSetTheorems, TLAPS

Capacities == {CapacityOf[d] : d \in Deployments}
Legs == [again : BOOLEAN, at : Nat \ {0}, start : 0..MaxAttempts]
Pools == [candidates : SUBSET Deployments, cap : 0..MaxAttempts, start : 0..MaxAttempts,
          per : Nat, barred : SUBSET Deployments, full : SUBSET Capacities,
          limited : SUBSET Deployments, reason : Reasons, causes : SUBSET FallbackReasons]
Locals == [attempts : 0..MaxAttempts, tried : [Deployments -> 0..MaxAttempts],
           exhausted : SUBSET Deployments, counted : SUBSET Deployments, failed : BOOLEAN,
           neutral : BOOLEAN, transient : BOOLEAN, reason : Reasons]
Histories == [charged : [Deployments -> Nat], spent : SUBSET Deployments,
              starved : SUBSET Nat, refused : SUBSET Deployments]

\* The locals of route() and of tryPublicModel, and what past remembers.
Typed ==
    /\ pc \in {"route", "enter", "loop", "admission", "begin", "upstream",
               "backoff", "ended", "round", "returned", "serving", "over"}
    /\ streaming \in BOOLEAN /\ usable \subseteq Deployments /\ returned \subseteq Deployments
    /\ late \in BOOLEAN /\ settled \in BOOLEAN
    /\ budget \in 0..MaxAttempts /\ earlier \in 0..MaxAttempts
    /\ line \in Seq(Models) /\ line # <<>> /\ leg \in Legs
    /\ pool \in Pools /\ pool.candidates \subseteq usable
    /\ req \in Locals
    /\ chosen \in [deployment : Deployments \cup {None}, halfOpen : SUBSET Sides]
    /\ InAttempt => chosen.deployment \in Deployments
    /\ held \in [quota : 0..1, lease : 0..1, probes : SUBSET Sides]
    /\ outcome \in Reasons \cup {"none", "served", "error", "neutral", "ineligible",
                                 "model_not_found"}
    /\ past \in Histories

\* One limit is divided between the route() calls of a logical request.
Counts ==
    /\ leg.at <= Len(line) + 1
    /\ pc \notin {"route", "enter", "round", "over"} => leg.at <= Len(line)
    /\ earlier + budget = MaxAttempts /\ req.attempts <= budget
    /\ pc = "admission" => req.attempts < budget
    /\ pc = "route" => req = Blank
    /\ \A d \in Deployments : req.tried[d] <= req.attempts

\* What is held in each state, and when finish() has run.
Holdings ==
    /\ pc = "admission" \/ ~InAttempt => held.quota = 0 /\ held.lease = 0
    /\ pc # "admission" /\ InAttempt => held.quota = 1 /\ held.lease = 1
    /\ "deployment" \in held.probes => InAttempt /\ "deployment" \in chosen.halfOpen
    /\ settled => pc = "over"
    /\ outcome = "served" => settled
    /\ pc # "over" => outcome = "none"

\* route() counts a deployment before it charges it.
Charges ==
    /\ pc = "returned" => streaming
    /\ pc = "admission" => chosen.deployment \notin req.exhausted
    /\ ~streaming =>
          /\ past.spent \subseteq req.exhausted
          /\ \A d \in Deployments :
                past.charged[d] <= 1 /\ (d \notin req.counted => past.charged[d] = 0)

Inv == Typed /\ Counts /\ Holdings /\ Charges

-----------------------------------------------------------------------------
\* What the assumption says of the limit and of the requested model.
LEMMA Parameters == MaxAttempts \in Nat \ {0} /\ Primary \in Models
BY RouterAssumption DEF RouterAssumption

\* Ending a pool changes its reason and what is remembered of refusals.
LEMMA EndingPool ==
    ASSUME Typed, NEW r \in Reasons, EndPool(r)
    PROVE  /\ pc' = "ended" /\ pool' \in Pools /\ pool'.candidates = pool.candidates
           /\ past' \in Histories /\ past'.charged = past.charged /\ past'.spent = past.spent
<1>1. pool \in Pools /\ past \in Histories
  BY DEF Typed
<1>2. pc' = "ended" /\ pool' \in Pools /\ pool'.candidates = pool.candidates
  BY <1>1 DEF EndPool, Pools
<1> DEFINE seen == {d \in past.refused : d \notin pool.candidates}
                   \cup {d \in pool.candidates : Refused(d)}
<1>3. seen \in SUBSET Deployments
  BY <1>1 DEF Pools, Histories
<1>4. past' = [past EXCEPT !.refused = seen]
  BY <1>1 DEF EndPool
<1> HIDE DEF seen
<1>5. past' \in Histories /\ past'.charged = past.charged /\ past'.spent = past.spent
  BY <1>1, <1>3, <1>4 DEF Histories
<1> QED  BY <1>2, <1>5

\* Giving up changes the reason among the locals of route(), and the outcome.
LEMMA GivingUp ==
    ASSUME Typed, NEW r \in Reasons, GiveUp(r)
    PROVE  /\ pc' = "over" /\ req' \in Locals
           /\ \A field \in {"attempts", "tried", "exhausted", "counted"} : req'[field] = req[field]
           /\ outcome' \in Reasons \cup {"neutral", "ineligible"}
<1>1. req \in Locals
  BY DEF Typed
<1>2. req' = [req EXCEPT !.reason = r]
  BY DEF GiveUp
<1>3. req' \in Locals /\ \A field \in {"attempts", "tried", "exhausted", "counted"} : req'[field] = req[field]
  BY <1>1, <1>2 DEF Locals
<1>4. pc' = "over" /\ outcome' \in Reasons \cup {"neutral", "ineligible"}
  BY DEF GiveUp
<1> QED  BY <1>3, <1>4

\* Wherever an attempt is not under way, giving up keeps the invariant.
LEMMA GaveUp ==
    ASSUME Inv, pc \in {"round", "enter"}, pc' = "over", req' \in Locals,
           \A field \in {"attempts", "tried", "exhausted", "counted"} : req'[field] = req[field],
           outcome' \in Reasons \cup {"neutral", "ineligible"},
           UNCHANGED <<streaming, usable, budget, earlier, returned, late, line, leg, pool, chosen,
                       held, settled, past>>
    PROVE  Inv'
<1>1. Typed'
  BY DEF Inv, Typed, InAttempt
<1>2. Counts'
  BY DEF Inv, Counts
<1>3. Holdings'
  BY DEF Inv, Holdings, InAttempt, Reasons
<1>4. Charges'
  BY DEF Inv, Charges
<1> QED  BY <1>1, <1>2, <1>3, <1>4 DEF Inv

\* A chain is a sequence of models.
LEMMA ChainsHaveModels ==
    ASSUME NEW reason, streaming \in BOOLEAN
    PROVE  <<Primary>> \o ChainFor(reason) \in Seq(Models)
<1>1. ChainFor(reason) \in Seq(Models)
  BY RouterAssumption DEF RouterAssumption, ChainFor, Chains
<1> QED  BY <1>1, Parameters

-----------------------------------------------------------------------------
(* The least natural number of a set is the one whose interval 1..n has no *)
(* strict subset among the others.                                         *)
LEMMA LeastNatural ==
    ASSUME NEW S \in SUBSET Nat, S # {}
    PROVE  Min(S) \in S /\ \A y \in S : Min(S) <= y
<1> DEFINE Below == {1..n : n \in S}
<1>1. \E X \in Below : \A Y \in Below : ~(<<Y, X>> \in StrictSubsetOrdering(Nat))
  <2>1. IsWellFoundedOn(StrictSubsetOrdering(Nat), FiniteSubsetsOf(Nat))
    BY FS_StrictSubsetOrderingWellFounded
  <2>2. \A n \in S : 1..n \in SUBSET Nat /\ IsFiniteSet(1..n)
    BY FS_Interval
  <2>3. Below \subseteq FiniteSubsetsOf(Nat) /\ Below # {}
    BY <2>2 DEF FiniteSubsetsOf
  <2> QED  BY <2>1, <2>3, WFMin
<1>2. PICK n \in S : \A m \in S : ~(<<1..m, 1..n>> \in StrictSubsetOrdering(Nat))
  BY <1>1
<1>3. ASSUME NEW m \in S PROVE n <= m
  <2>1. SUFFICES ASSUME m < n PROVE FALSE
    OBVIOUS
  <2>2. 1..m \subseteq 1..n /\ n \in 1..n /\ n \notin 1..m
    BY <2>1
  <2>3. 1..m # 1..n /\ 1..m \in SUBSET Nat /\ 1..n \in SUBSET Nat
    BY <2>2
  <2>4. <<1..m, 1..n>> \in StrictSubsetOrdering(Nat)
    BY <2>2, <2>3, Zenon DEF StrictSubsetOrdering
  <2> QED  BY <1>2, <2>4
<1> QED  BY <1>3 DEF Min

\* Max and Min of two numbers, as PoolLimit uses them.
LEMMA LargerOfTwo == \A m, n \in Int : Max({m, n}) = IF m >= n THEN m ELSE n
<1> SUFFICES ASSUME NEW m \in Int, NEW n \in Int PROVE Max({m, n}) = IF m >= n THEN m ELSE n
  OBVIOUS
<1> DEFINE larger == IF m >= n THEN m ELSE n
<1>1. larger \in {m, n} /\ \A y \in {m, n} : larger >= y
  OBVIOUS
<1>2. \A x \in {m, n} : (\A y \in {m, n} : x >= y) => x = larger
  OBVIOUS
<1> QED  BY <1>1, <1>2 DEF Max

LEMMA SmallerOfTwo == \A m, n \in Int : Min({m, n}) = IF m <= n THEN m ELSE n
<1> SUFFICES ASSUME NEW m \in Int, NEW n \in Int PROVE Min({m, n}) = IF m <= n THEN m ELSE n
  OBVIOUS
<1> DEFINE smaller == IF m <= n THEN m ELSE n
<1>1. smaller \in {m, n} /\ \A y \in {m, n} : smaller <= y
  OBVIOUS
<1>2. \A x \in {m, n} : (\A y \in {m, n} : x <= y) => x = smaller
  OBVIOUS
<1> QED  BY <1>1, <1>2 DEF Min

\* Every chain can be tried in full, with an attempt left for the primary.
ChainsFit == \A stream \in BOOLEAN : \A r \in DOMAIN ChainsOf[stream] : Len(ChainsOf[stream][r]) < MaxAttempts

\* There are three chains at most, so one of them is longest.
LEMMA LongestIsLongest ==
    ASSUME streaming \in BOOLEAN
    PROVE  /\ Longest \in Nat
           /\ \A r \in DOMAIN Chains : Len(Chains[r]) <= Longest
           /\ ChainsFit => Longest < MaxAttempts
<1> DEFINE length(r) == IF r \in DOMAIN Chains THEN Len(Chains[r]) ELSE 0
           a == length("general")
           b == length("context_window")
           c == length("content_policy")
           lengths == {0} \cup {Len(Chains[r]) : r \in DOMAIN Chains}
<1>1. DOMAIN Chains \subseteq FallbackReasons /\ \A r \in DOMAIN Chains : Len(Chains[r]) \in Nat
  BY RouterAssumption DEF RouterAssumption, Chains
<1>2. a \in Nat /\ b \in Nat /\ c \in Nat
  BY <1>1
<1>3. lengths = {0, a, b, c}
  BY <1>1 DEF FallbackReasons
<1>4. ChainsFit => a < MaxAttempts /\ b < MaxAttempts /\ c < MaxAttempts
  BY Parameters DEF ChainsFit, Chains
<1>5. \A r \in DOMAIN Chains : Len(Chains[r]) \in lengths
  OBVIOUS
<1> HIDE DEF a, b, c, lengths
<1>6. \E x \in {0, a, b, c} : \A y \in {0, a, b, c} : x >= y
  BY <1>2
<1>7. Max(lengths) \in lengths /\ \A y \in lengths : Max(lengths) >= y
  BY <1>3, <1>6 DEF Max
<1>8. Longest = Max(lengths)
  BY DEF Longest, lengths
<1>9. Longest \in Nat /\ (ChainsFit => Longest < MaxAttempts)
  BY <1>2, <1>3, <1>4, <1>7, <1>8, Parameters
<1>10. ASSUME NEW r \in DOMAIN Chains PROVE Len(Chains[r]) <= Longest
  <2> DEFINE n == Len(Chains[r])
  <2>1. n \in Nat /\ n \in lengths /\ Longest >= n
    BY <1>1, <1>5, <1>7, <1>8, <1>10
  <2> QED  BY <1>9, <2>1
<1> QED  BY <1>9, <1>10

\* What a pool may use is within what is left of the budget.
LEMMA CapBounded ==
    ASSUME Typed, req.attempts \in 0..MaxAttempts, budget \in 0..MaxAttempts, req.attempts <= budget
    PROVE  Max({0, Min({PoolLimit, budget - req.attempts})}) \in 0..MaxAttempts
<1>1. Longest \in Nat
  BY LongestIsLongest DEF Typed
<1>2. Max({0, budget - 1}) \in Int
  BY LargerOfTwo, Parameters
<1>3. Reserved \in Int
  <2> DEFINE kept == Max({0, budget - 1})
  <2>1. kept \in Int /\ Longest \in Int /\ Reserved = Min({Longest, kept})
    BY <1>1, <1>2 DEF Reserved
  <2> HIDE DEF kept
  <2> QED  BY <2>1, SmallerOfTwo
<1>4. PoolLimit \in Int
  <2>1. Len(line) \in Nat /\ leg.at \in Nat
    BY DEF Typed, Legs
  <2> QED  BY <1>3, <2>1, LargerOfTwo, Parameters DEF PoolLimit
<1> QED  BY <1>4, LargerOfTwo, SmallerOfTwo, Parameters

\* The least tries of some deployments is a number of tries.
LEMMA TriesNatural ==
    ASSUME req \in Locals, NEW candidates \in SUBSET Deployments
    PROVE  MostTries(candidates) \in Nat
<1> DEFINE tries == {req.tried[d] : d \in candidates \ req.exhausted}
<1>1. CASE candidates \ req.exhausted = {}
  BY <1>1 DEF MostTries
<1>2. CASE candidates \ req.exhausted # {}
  <2>1. tries \in SUBSET Nat /\ tries # {}
    BY <1>2, Parameters DEF Locals
  <2>2. Min(tries) \in Nat
    BY <2>1, LeastNatural
  <2> QED  BY <1>2, <2>2 DEF MostTries
<1> QED  BY <1>1, <1>2
-----------------------------------------------------------------------------
\* Every action keeps the invariant.
LEMMA StepKeepsInvariant == Inv /\ [Next]_vars => Inv'
<1> SUFFICES ASSUME Inv, [Next]_vars PROVE Inv'
  OBVIOUS
<1> USE Parameters DEF Inv, request, done
<1>1. ASSUME StartRoute PROVE Inv'
  <2>1. req' \in Locals /\ pool' \in Pools
    BY <1>1 DEF StartRoute, Blank, NoPool, Locals, Pools, Reasons
  <2>2. past' \in Histories /\ past'.charged = past.charged /\ past'.spent = past.spent
    <3>1. past \in Histories /\ past' = [past EXCEPT !.starved = {}, !.refused = {}]
      BY <1>1 DEF StartRoute, Typed
    <3> QED  BY <3>1 DEF Histories
  <2>3. line' = <<Primary>> /\ leg' \in Legs /\ leg'.at = 1
    BY <1>1 DEF StartRoute, Legs
  <2>4. pool'.candidates = {} /\ req' = Blank /\ req = Blank /\ req'.attempts = 0
    BY <1>1 DEF StartRoute, NoPool, Blank, Counts
  <2>5. Typed'
    BY <1>1, <2>1, <2>2, <2>3, <2>4 DEF StartRoute, Typed, InAttempt
  <2>6. Counts'
    BY <1>1, <2>3 DEF StartRoute, Typed, Counts, Blank
  <2>7. Holdings'
    BY <1>1 DEF StartRoute, Holdings, InAttempt
  <2>8. Charges'
    BY <1>1, <2>2, <2>4 DEF StartRoute, Charges
  <2> QED  BY <2>5, <2>6, <2>7, <2>8
<1>2. ASSUME ModelNotFound PROVE Inv'
  <2>1. Typed'
    BY <1>2 DEF ModelNotFound, End, Typed, InAttempt
  <2>2. Counts'
    BY <1>2 DEF ModelNotFound, End, Counts
  <2>3. Holdings'
    BY <1>2 DEF ModelNotFound, End, Holdings, InAttempt
  <2>4. Charges'
    BY <1>2 DEF ModelNotFound, End, Charges
  <2> QED  BY <2>1, <2>2, <2>3, <2>4
<1>3. ASSUME EnterPool PROVE Inv'
  <2> DEFINE cands == Candidates(line[leg.at])
             cap == Max({0, Min({PoolLimit, budget - req.attempts})})
  <2>1. cands \subseteq usable /\ cands \subseteq Deployments
    BY DEF Typed, Candidates, Fresh, Pool
  <2>2. req.attempts \in 0..MaxAttempts /\ budget \in 0..MaxAttempts /\ req.attempts <= budget
    BY DEF Typed, Counts, Locals
  <2>3. cap \in 0..MaxAttempts
    BY <2>2, CapBounded
  <2>4. MostTries(cands) \in Nat
    BY <2>1, TriesNatural DEF Typed
  <2>5. PICK barred \in SUBSET cands, full \in SUBSET {CapacityOf[d] : d \in cands} :
           pool' = [NoPool EXCEPT
                       !.candidates = cands, !.cap = cap, !.start = req.attempts,
                       !.per = MostTries(cands), !.barred = barred, !.full = full,
                       !.reason = IF cands = {} THEN "no_candidates" ELSE "exhausted"]
    BY <1>3 DEF EnterPool
  <2>6. pc = "enter" /\ pc' \in {"ended", "loop"} /\ leg.at <= Len(line)
        /\ (past' = past \/ past' = [past EXCEPT !.starved = @ \cup {leg.at}])
        /\ UNCHANGED <<request, late, line, leg, req, chosen, held, done>>
    BY <1>3 DEF EnterPool
  <2> HIDE DEF cands, cap
  <2>7. pool' \in Pools /\ pool'.candidates = cands
    <3>1. full \in SUBSET Capacities
      BY <2>1 DEF Capacities
    <3> QED  BY <2>1, <2>2, <2>3, <2>4, <2>5, <3>1 DEF NoPool, Pools, Reasons
  <2>8. past' \in Histories /\ past'.charged = past.charged /\ past'.spent = past.spent
    <3>1. past \in Histories /\ leg.at \in Nat
      BY DEF Typed, Legs
    <3> QED  BY <2>6, <3>1 DEF Histories
  <2>9. Typed'
    BY <2>1, <2>6, <2>7, <2>8 DEF Typed, InAttempt
  <2>10. Counts' /\ Holdings'
    BY <2>6 DEF Counts, Holdings, InAttempt
  <2>11. Charges'
    BY <2>6, <2>8 DEF Charges
  <2> QED  BY <2>9, <2>10, <2>11
<1>4. ASSUME LeavePool PROVE Inv'
  <2>1. PICK r \in Reasons : EndPool(r)
    BY <1>4 DEF LeavePool, Typed, Pools, Reasons
  <2>2. /\ pc' = "ended" /\ pool' \in Pools /\ pool'.candidates = pool.candidates
        /\ past' \in Histories /\ past'.charged = past.charged /\ past'.spent = past.spent
    BY <2>1, EndingPool
  <2>3. Typed'
    BY <1>4, <2>2 DEF LeavePool, Typed, InAttempt
  <2>4. Counts' /\ Holdings'
    BY <1>4, <2>2 DEF LeavePool, Counts, Holdings, InAttempt, Blank
  <2>5. Charges'
    BY <1>4, <2>2 DEF LeavePool, Charges
  <2> QED  BY <2>3, <2>4, <2>5
<1>5. ASSUME NEW d \in Deployments, Choose(d) PROVE Inv'
  <2>1. d \in pool.candidates /\ d \notin req.exhausted /\ req.attempts < budget
    BY <1>5 DEF Choose, LeastTried, Selectable, OutOfBudget, Typed, Locals
  <2>2. pool' \in Pools /\ pool'.candidates = pool.candidates
    <3>1. pool \in Pools /\ CapacityOf[d] \in Capacities
      BY DEF Typed, Capacities
    <3>2. \/ pool' = [pool EXCEPT !.barred = @ \cup {d}, !.reason = "cooldown"]
          \/ pool' = [pool EXCEPT !.full = @ \cup {CapacityOf[d]}, !.reason = "rate_limited"]
          \/ pool' = pool
      BY <1>5 DEF Choose
    <3>3. CASE pool' = [pool EXCEPT !.barred = @ \cup {d}, !.reason = "cooldown"]
      BY <3>1, <3>3 DEF Pools, Reasons
    <3>4. CASE pool' = [pool EXCEPT !.full = @ \cup {CapacityOf[d]}, !.reason = "rate_limited"]
      BY <3>1, <3>4 DEF Pools, Reasons
    <3> QED  BY <3>1, <3>2, <3>3, <3>4
  <2>3. \/ pc' = "loop" /\ UNCHANGED <<chosen, held>>
        \/ /\ pc' = "admission"
           /\ chosen' \in [deployment : Deployments, halfOpen : SUBSET Sides] /\ chosen'.deployment = d
           /\ held' \in [quota : 0..1, lease : 0..1, probes : SUBSET Sides]
           /\ held'.quota = held.quota /\ held'.lease = held.lease
           /\ held'.probes = held.probes \cup chosen'.halfOpen
    BY <1>5 DEF Choose, Typed
  <2>4. Typed'
    BY <1>5, <2>2, <2>3 DEF Choose, Typed, InAttempt
  <2>5. Counts'
    BY <1>5, <2>1, <2>3 DEF Choose, Counts
  <2>6. Holdings'
    BY <1>5, <2>3 DEF Choose, Holdings, InAttempt
  <2>7. Charges'
    BY <1>5, <2>1, <2>3 DEF Choose, Charges
  <2> QED  BY <2>4, <2>5, <2>6, <2>7
<1>6. ASSUME QuotaRefused PROVE Inv'
  <2>1. pool' \in Pools /\ pool'.candidates = pool.candidates
    BY <1>6 DEF QuotaRefused, SetAside, Typed, InAttempt, Pools, Reasons
  <2>2. /\ req' \in Locals
        /\ \A field \in {"attempts", "tried", "exhausted", "counted"} : req'[field] = req[field]
    BY <1>6 DEF QuotaRefused, Typed, Locals
  <2>3. held' = [quota |-> 0, lease |-> 0, probes |-> {}] /\ chosen' = NoAttempt
    <3>1. EndAttempt({"permit"}) /\ pc = "admission"
      BY <1>6 DEF QuotaRefused
    <3> QED  BY <3>1 DEF EndAttempt, Without, Holdings
  <2>4. Typed'
    BY <1>6, <2>1, <2>2, <2>3 DEF QuotaRefused, Typed, NoAttempt, InAttempt
  <2>5. Counts' /\ Holdings'
    BY <1>6, <2>2, <2>3 DEF QuotaRefused, Counts, Holdings, InAttempt
  <2>6. Charges'
    BY <1>6, <2>2 DEF QuotaRefused, Charges
  <2> QED  BY <2>4, <2>5, <2>6
<1>7. ASSUME AdmissionRefused PROVE Inv'
  <2>1. pool' \in Pools /\ pool'.candidates = pool.candidates
    BY <1>7 DEF AdmissionRefused, SetAside, Typed, InAttempt, Pools, Reasons
  <2>2. held' = [quota |-> 0, lease |-> 0, probes |-> {}] /\ chosen' = NoAttempt
    BY <1>7 DEF AdmissionRefused, HandedBackByRefusal, Without, Holdings
  <2>3. Typed'
    <3>1. /\ held' \in [quota : 0..1, lease : 0..1, probes : SUBSET Sides]
          /\ chosen' \in [deployment : Deployments \cup {None}, halfOpen : SUBSET Sides]
      BY <2>2 DEF NoAttempt
    <3> QED  BY <1>7, <2>1, <3>1 DEF AdmissionRefused, Typed, InAttempt
  <2>4. Counts' /\ Holdings'
    BY <1>7, <2>2 DEF AdmissionRefused, Counts, Holdings, InAttempt
  <2>5. Charges'
    BY <1>7 DEF AdmissionRefused, Charges
  <2> QED  BY <2>3, <2>4, <2>5
<1>8. ASSUME AdmissionFails PROVE Inv'
  <2>1. Typed'
    BY <1>8 DEF AdmissionFails, End, EndAttempt, Without, NoAttempt, Typed, InAttempt
  <2>2. Counts'
    BY <1>8 DEF AdmissionFails, End, Counts
  <2>3. Holdings'
    BY <1>8 DEF AdmissionFails, End, EndAttempt, Without, NoAttempt, Holdings, InAttempt
  <2>4. Charges'
    BY <1>8 DEF AdmissionFails, End, Charges
  <2> QED  BY <2>1, <2>2, <2>3, <2>4
<1>9. ASSUME Admitted PROVE Inv'
  <2>1. chosen.deployment \in Deployments /\ req \in Locals /\ req.attempts < budget /\ budget \in 0..MaxAttempts
    BY <1>9 DEF Admitted, Typed, Counts, InAttempt
  <2>2. req.tried[chosen.deployment] <= req.attempts
    BY <2>1 DEF Counts
  <2>3. /\ req'.attempts = req.attempts + 1 /\ req'.attempts \in 0..MaxAttempts
        /\ req'.tried = [req.tried EXCEPT ![chosen.deployment] = @ + 1]
        /\ req'.exhausted = req.exhausted /\ req'.counted = req.counted
    BY <1>9, <2>1 DEF Admitted, Counted, Locals
  <2>4. \A d \in Deployments : req'.tried[d] \in 0..MaxAttempts /\ req'.tried[d] <= req'.attempts
    BY <2>1, <2>2, <2>3 DEF Counts, Locals
  <2>5. req'.tried \in [Deployments -> 0..MaxAttempts]
    BY <2>1, <2>3, <2>4 DEF Locals
  <2>6. req' \in Locals
    BY <1>9, <2>1, <2>3, <2>5 DEF Admitted, Counted, Locals
  <2>7. /\ held' \in [quota : 0..1, lease : 0..1, probes : SUBSET Sides]
        /\ held'.quota = 1 /\ held'.lease = 1 /\ held'.probes = held.probes
    <3>1. held \in [quota : 0..1, lease : 0..1, probes : SUBSET Sides] /\ held.quota = 0 /\ held.lease = 0
      BY <1>9 DEF Admitted, Typed, Holdings
    <3>2. held' = [held EXCEPT !.quota = held.quota + 1, !.lease = held.lease + 1]
      BY <1>9 DEF Admitted
    <3>3. held.quota + 1 = 1 /\ held.lease + 1 = 1
      BY <3>1
    <3>4. held' = [held EXCEPT !.quota = 1, !.lease = 1]
      BY <3>2, <3>3
    <3>5. held.probes \in SUBSET Sides
      BY <3>1
    <3>6. held' = [quota |-> 1, lease |-> 1, probes |-> held.probes]
      BY <3>1, <3>4
    <3> QED  BY <3>5, <3>6
  <2>8. Typed'
    BY <1>9, <2>6, <2>7 DEF Admitted, Typed, InAttempt
  <2>9. Counts'
    BY <1>9, <2>1, <2>3, <2>4 DEF Admitted, Counts, Locals
  <2>10. Holdings'
    BY <1>9, <2>7 DEF Admitted, Holdings, InAttempt
  <2>11. Charges'
    BY <1>9, <2>3 DEF Admitted, Charges
  <2> QED  BY <2>8, <2>9, <2>10, <2>11
<1>10. ASSUME Begin PROVE Inv'
  <2>1. CASE pc' = "upstream" /\ UNCHANGED <<chosen, held, outcome>>
    BY <1>10, <2>1 DEF Begin, Typed, Counts, Holdings, Charges, InAttempt
  <2>2. CASE End("error") /\ EndAttempt({"quota"} \cup Cancelled)
    <3>1. held' = [quota |-> 0, lease |-> 0, probes |-> {}] /\ chosen' = NoAttempt
      BY <1>10, <2>2 DEF Begin, EndAttempt, Without, Cancelled, Holdings, InAttempt
    <3>2. /\ held' \in [quota : 0..1, lease : 0..1, probes : SUBSET Sides]
          /\ chosen' \in [deployment : Deployments \cup {None}, halfOpen : SUBSET Sides]
      BY <3>1 DEF NoAttempt
    <3> QED  BY <1>10, <2>2, <3>1, <3>2 DEF Begin, Typed, Counts, Holdings, Charges, InAttempt, End
  <2> QED  BY <1>10, <2>1, <2>2 DEF Begin
<1>11. ASSUME NEW f \in Faults, Fails(f) PROVE Inv'
  <2> DEFINE exhausted == IF f \in Retryable THEN req.exhausted ELSE req.exhausted \cup {chosen.deployment}
             charges == f = "transient" /\ FirstSignal
             history == IF charges THEN Charging ELSE past
  <2>1. chosen.deployment \in Deployments /\ req \in Locals /\ past \in Histories /\ pool \in Pools
    BY <1>11 DEF Fails, Typed, InAttempt
  <2>2. exhausted \in SUBSET Deployments /\ req.exhausted \subseteq exhausted
        /\ (f \notin Retryable => chosen.deployment \in exhausted)
    BY <2>1 DEF Locals
  <2>3. \E failed, neutral, transient \in BOOLEAN :
           req' = [req EXCEPT !.exhausted = exhausted,
                              !.counted = IF charges THEN req.counted \cup {chosen.deployment} ELSE req.counted,
                              !.failed = failed, !.neutral = neutral, !.transient = transient]
    <3> DEFINE failed == req.failed \/ f \in Penalised
               neutral == req.neutral \/ f \notin Penalised
               transient == f \in {"transient", "neutral"}
    <3>1. req' = [req EXCEPT !.exhausted = exhausted,
                             !.counted = IF charges THEN req.counted \cup {chosen.deployment} ELSE req.counted,
                             !.failed = failed, !.neutral = neutral, !.transient = transient]
      BY <1>11 DEF Fails
    <3>2. failed \in BOOLEAN /\ neutral \in BOOLEAN /\ transient \in BOOLEAN
      OBVIOUS
    <3> HIDE DEF failed, neutral, transient
    <3> QED  BY <3>1, <3>2, Zenon
  <2>4. past' = [history EXCEPT !.spent = IF f \in Retryable THEN @ ELSE @ \cup {chosen.deployment}]
    BY <1>11 DEF Fails
  <2>5. history \in Histories /\ history.spent = past.spent
        /\ \A d \in Deployments :
              history.charged[d] = IF d = chosen.deployment /\ charges /\ "deployment" \notin chosen.halfOpen
                                   THEN past.charged[d] + 1 ELSE past.charged[d]
    BY <2>1 DEF Charging, Histories
  <2>6. pool' \in Pools /\ pool'.candidates = pool.candidates
    <3>1. pool' = [pool EXCEPT !.causes = @ \cup {ReasonOf(f)}] /\ ReasonOf(f) \in FallbackReasons
      BY <1>11 DEF Fails, ReasonOf, FallbackReasons
    <3> QED  BY <2>1, <3>1 DEF Pools
  <2> HIDE DEF exhausted, charges, history
  <2>7. /\ req' \in Locals /\ req'.attempts = req.attempts /\ req'.tried = req.tried
        /\ req'.exhausted = exhausted
        /\ req'.counted = (IF charges THEN req.counted \cup {chosen.deployment} ELSE req.counted)
    <3> DEFINE counted == IF charges THEN req.counted \cup {chosen.deployment} ELSE req.counted
    <3>1. PICK failed, neutral, transient \in BOOLEAN :
             req' = [req EXCEPT !.exhausted = exhausted, !.counted = counted,
                                !.failed = failed, !.neutral = neutral, !.transient = transient]
      BY <2>3
    <3>2. counted \in SUBSET Deployments
      BY <2>1 DEF Locals
    <3> HIDE DEF counted
    <3>3. req' \in Locals /\ req'.attempts = req.attempts /\ req'.tried = req.tried
          /\ req'.exhausted = exhausted /\ req'.counted = counted
      BY <2>1, <2>2, <3>1, <3>2 DEF Locals
    <3> QED  BY <3>3 DEF counted
  <2>8. /\ past' \in Histories /\ past'.charged = history.charged
        /\ past'.spent = (IF f \in Retryable THEN past.spent ELSE past.spent \cup {chosen.deployment})
    BY <2>1, <2>4, <2>5 DEF Histories
  <2>9. pc' \in {"loop", "backoff"} /\ pc = "upstream" /\ EndAttempt(HandedBackBy(f))
        /\ UNCHANGED <<request, late, line, leg, done>>
    BY <1>11 DEF Fails
  <2>10. /\ held'.quota = 0 /\ held'.lease = 0 /\ "deployment" \notin held'.probes
         /\ held' \in [quota : 0..1, lease : 0..1, probes : SUBSET Sides] /\ chosen' = NoAttempt
    <3>1. held \in [quota : 0..1, lease : 0..1, probes : SUBSET Sides] /\ held.quota = 1 /\ held.lease = 1
          /\ ("deployment" \in held.probes => "deployment" \in chosen.halfOpen)
      BY <2>9 DEF Typed, Holdings, InAttempt
    <3>2. "quota" \in HandedBackBy(f) /\ "lease" \in HandedBackBy(f)
          /\ ("permit" \notin HandedBackBy(f) => "deployment" \notin chosen.halfOpen)
      BY DEF HandedBackBy, FirstSignal
    <3> QED  BY <2>9, <3>1, <3>2 DEF EndAttempt, Without
  <2>11. Typed'
    BY <2>6, <2>7, <2>8, <2>9, <2>10 DEF Typed, InAttempt, NoAttempt
  <2>12. Counts' /\ Holdings'
    BY <2>7, <2>9, <2>10 DEF Counts, Holdings, InAttempt
  <2>13. Charges'
    <3>1. charges => chosen.deployment \notin req.counted \/ "deployment" \in chosen.halfOpen
      BY DEF charges, FirstSignal
    <3> QED  BY <2>1, <2>2, <2>5, <2>7, <2>8, <2>9, <3>1 DEF Charges, Histories
  <2> QED  BY <2>11, <2>12, <2>13
<1>12. ASSUME NEW f \in Faults, FailsBeforeOutput(f) PROVE Inv'
  <2>1. chosen.deployment \in Deployments /\ past \in Histories /\ req \in Locals /\ streaming
        /\ earlier \in Nat /\ budget \in Nat /\ earlier + budget = MaxAttempts /\ req.attempts <= budget
    BY <1>12 DEF FailsBeforeOutput, Typed, InAttempt, Charges, Counts
  <2>2. past' \in Histories
    BY <1>12, <2>1 DEF FailsBeforeOutput, FinishedPast, Charging, Histories
  <2>3. req' = Blank /\ req' \in Locals /\ req'.attempts = 0 /\ \A d \in Deployments : req'.tried[d] = 0
    BY <1>12 DEF FailsBeforeOutput, Blank, Locals, Reasons
  <2>4. /\ earlier' \in 0..MaxAttempts /\ budget' \in 0..MaxAttempts /\ earlier' + budget' = MaxAttempts
    BY <1>12, <2>1 DEF FailsBeforeOutput, RemainingAttempts, Locals
  <2>5. held' = [quota |-> 0, lease |-> 0, probes |-> {}] /\ chosen' = NoAttempt
    <3>1. EndAttempt({"quota", "lease", "permit"}) /\ pc = "returned"
      BY <1>12 DEF FailsBeforeOutput
    <3>2. held.quota = 1 /\ held.lease = 1
      BY <3>1 DEF Holdings, InAttempt
    <3> QED  BY <3>1, <3>2 DEF EndAttempt, Without
  <2>6. /\ held' \in [quota : 0..1, lease : 0..1, probes : SUBSET Sides]
        /\ chosen' \in [deployment : Deployments \cup {None}, halfOpen : SUBSET Sides]
    BY <2>5 DEF NoAttempt
  <2>7. /\ pc = "returned" /\ returned' = returned \cup {chosen.deployment}
        /\ \/ pc' = "route" /\ outcome' = outcome
           \/ pc' = "over" /\ outcome' = "error"
        /\ UNCHANGED <<streaming, usable, late, line, leg, pool, settled>>
    <3>1. pc = "returned" /\ returned' = returned \cup {chosen.deployment}
          /\ UNCHANGED <<streaming, usable, late, line, leg, pool, settled>>
      BY <1>12 DEF FailsBeforeOutput
    <3>2. \/ pc' = "route" /\ outcome' = outcome
          \/ pc' = "over" /\ outcome' = "error"
      BY <1>12 DEF FailsBeforeOutput, End
    <3> QED  BY <3>1, <3>2
  <2>8. Typed'
    BY <2>1, <2>2, <2>3, <2>4, <2>6, <2>7 DEF Typed, InAttempt
  <2>9. Counts'
    <3>1. leg'.at <= Len(line') + 1
      BY <2>7 DEF Counts
    <3>2. \A d \in Deployments : req'.tried[d] <= req'.attempts
      BY <2>3
    <3>3. Blank' = Blank
      BY DEF Blank
    <3> QED  BY <2>3, <2>4, <2>7, <3>1, <3>2, <3>3 DEF Counts
  <2>10. Holdings'
    BY <2>5, <2>7 DEF Holdings, InAttempt
  <2>11. Charges'
    BY <2>1, <2>7 DEF Charges
  <2> QED  BY <2>8, <2>9, <2>10, <2>11
<1>13. ASSUME Backoff PROVE Inv'
  <2>1. CASE pc' = "loop" /\ UNCHANGED <<pool, past>>
    BY <1>13, <2>1 DEF Backoff, Typed, Counts, Holdings, Charges, InAttempt
  <2>2. CASE EndPool("attempt_budget")
    <3>1. /\ pc' = "ended" /\ pool' \in Pools /\ pool'.candidates = pool.candidates
          /\ past' \in Histories /\ past'.charged = past.charged /\ past'.spent = past.spent
      BY <2>2, EndingPool DEF Reasons
    <3>2. Typed'
      BY <1>13, <3>1 DEF Backoff, Typed, InAttempt
    <3>3. Counts' /\ Holdings'
      BY <1>13, <3>1 DEF Backoff, Counts, Holdings, InAttempt
    <3>4. Charges'
      BY <1>13, <3>1 DEF Backoff, Charges
    <3> QED  BY <3>2, <3>3, <3>4
  <2> QED  BY <1>13, <2>1, <2>2 DEF Backoff
<1>14. ASSUME Stops PROVE Inv'
  <2>1. Typed'
    BY <1>14 DEF Stops, End, EndAttempt, Without, NoAttempt, Cancelled, Typed, Holdings, InAttempt
  <2>2. Counts'
    BY <1>14 DEF Stops, End, Counts
  <2>3. Holdings'
    BY <1>14 DEF Stops, End, EndAttempt, Without, NoAttempt, Cancelled, Holdings, InAttempt
  <2>4. Charges'
    BY <1>14 DEF Stops, End, Charges
  <2> QED  BY <2>1, <2>2, <2>3, <2>4
<1>15. ASSUME NextLeg PROVE Inv'
  <2>1. line \in Seq(Models) /\ line # <<>> /\ leg \in Legs /\ leg.at <= Len(line) /\ Len(line) \in Nat
    BY <1>15 DEF NextLeg, Typed, Counts
  <2>2. <<Primary>> \o ChainFor(FallbackReason) \in Seq(Models)
    BY ChainsHaveModels DEF Typed
  <2>3. line' \in Seq(Models) /\ line' # <<>> /\ leg' = [leg EXCEPT !.at = @ + 1] /\ leg.at + 1 <= Len(line') + 1
        /\ pc' \in {"enter", "round"} /\ pc = "ended"
    <3>1. CASE leg.again \/ leg.at > 1
      <4>1. line' = line /\ leg' = [leg EXCEPT !.at = @ + 1] /\ pc = "ended" /\ pc' \in {"enter", "round"}
        BY <1>15, <3>1 DEF NextLeg
      <4> QED  BY <2>1, <4>1 DEF Legs
    <3>2. CASE ~(leg.again \/ leg.at > 1)
      <4>1. line' = <<Primary>> \o ChainFor(FallbackReason) /\ leg.at = 1
        BY <1>15, <2>1, <3>2 DEF NextLeg, Legs
      <4>2. line' \in Seq(Models) /\ line' # <<>> /\ Len(line') >= 1
        BY <2>2, <4>1
      <4>3. leg' = [leg EXCEPT !.at = @ + 1] /\ pc = "ended" /\ pc' \in {"enter", "round"}
        BY <1>15 DEF NextLeg
      <4> QED  BY <4>1, <4>2, <4>3
    <3> QED  BY <3>1, <3>2
  <2>4. leg' \in Legs /\ leg'.at <= Len(line') + 1
    BY <2>1, <2>3 DEF Legs
  <2>5. /\ req' \in Locals
        /\ \A field \in {"attempts", "tried", "exhausted", "counted"} : req'[field] = req[field]
    BY <1>15 DEF NextLeg, Typed, Locals, Pools
  <2>6. pool' \in Pools /\ pool'.candidates = {}
    BY <1>15 DEF NextLeg, NoPool, Pools, Reasons
  <2>7. UNCHANGED <<streaming, usable, budget, earlier, returned, late, chosen, held, settled, outcome, past>>
    BY <1>15 DEF NextLeg
  <2>8. Typed'
    BY <2>3, <2>4, <2>5, <2>6, <2>7 DEF Typed, InAttempt
  <2>9. Counts'
    BY <2>3, <2>4, <2>5, <2>7 DEF Counts
  <2>10. Holdings'
    BY <2>3, <2>7 DEF Holdings, InAttempt
  <2>11. Charges'
    BY <2>3, <2>5, <2>7 DEF Charges
  <2> QED  BY <2>8, <2>9, <2>10, <2>11
<1>16. ASSUME StartRound PROVE Inv'
  <2>1. CASE OutOfBudget /\ GiveUp(req.reason) /\ UNCHANGED leg
    <3>1. req.reason \in Reasons
      BY DEF Typed, Locals
    <3>2. /\ pc' = "over" /\ req' \in Locals
          /\ \A field \in {"attempts", "tried", "exhausted", "counted"} : req'[field] = req[field]
          /\ outcome' \in Reasons \cup {"neutral", "ineligible"}
      BY <2>1, <3>1, GivingUp
    <3>3. pc \in {"round", "enter"}
          /\ UNCHANGED <<streaming, usable, budget, earlier, returned, late, line, leg, pool, chosen,
                         held, settled, past>>
      BY <1>16, <2>1 DEF StartRound
    <3> QED  BY <3>2, <3>3, GaveUp
  <2>2. CASE req.transient /\ GiveUp("attempt_budget") /\ UNCHANGED leg
    <3>1. "attempt_budget" \in Reasons
      BY DEF Reasons
    <3>2. /\ pc' = "over" /\ req' \in Locals
          /\ \A field \in {"attempts", "tried", "exhausted", "counted"} : req'[field] = req[field]
          /\ outcome' \in Reasons \cup {"neutral", "ineligible"}
      BY <2>2, <3>1, GivingUp
    <3>3. pc \in {"round", "enter"}
          /\ UNCHANGED <<streaming, usable, budget, earlier, returned, late, line, leg, pool, chosen,
                         held, settled, past>>
      BY <1>16, <2>2 DEF StartRound
    <3> QED  BY <3>2, <3>3, GaveUp
  <2>3. CASE /\ leg' = [again |-> TRUE, at |-> 1, start |-> req.attempts]
             /\ pc' = "enter" /\ UNCHANGED <<req, outcome>>
    <3>1. leg' \in Legs /\ leg'.at = 1
      BY <2>3 DEF Typed, Legs, Locals
    <3>2. Typed'
      BY <1>16, <2>3, <3>1 DEF StartRound, Typed, InAttempt
    <3>3. Counts'
      BY <1>16, <2>3, <3>1 DEF StartRound, Typed, Counts
    <3>4. Holdings' /\ Charges'
      BY <1>16, <2>3 DEF StartRound, Holdings, Charges, InAttempt
    <3> QED  BY <3>2, <3>3, <3>4
  <2> QED  BY <1>16, <2>1, <2>2, <2>3 DEF StartRound
<1>17. ASSUME EndRound PROVE Inv'
  <2>1. CASE NoProgress /\ GiveUp(req.reason)
    <3>1. req.reason \in Reasons
      BY DEF Typed, Locals
    <3>2. /\ pc' = "over" /\ req' \in Locals
          /\ \A field \in {"attempts", "tried", "exhausted", "counted"} : req'[field] = req[field]
          /\ outcome' \in Reasons \cup {"neutral", "ineligible"}
      BY <2>1, <3>1, GivingUp
    <3>3. pc \in {"round", "enter"}
          /\ UNCHANGED <<streaming, usable, budget, earlier, returned, late, line, leg, pool, chosen,
                         held, settled, past>>
      BY <1>17, <2>1 DEF EndRound
    <3> QED  BY <3>2, <3>3, GaveUp
  <2>2. CASE pc' = "round" /\ UNCHANGED <<req, outcome>>
    BY <1>17, <2>2 DEF EndRound, Typed, Counts, Holdings, Charges, InAttempt
  <2> QED  BY <1>17, <2>1, <2>2 DEF EndRound
<1>18. ASSUME Returns PROVE Inv'
  <2>1. Typed'
    BY <1>18 DEF Returns, Typed, InAttempt
  <2>2. Counts'
    BY <1>18 DEF Returns, Counts
  <2>3. Holdings'
    BY <1>18 DEF Returns, Holdings, InAttempt
  <2>4. Charges'
    BY <1>18 DEF Returns, Charges
  <2> QED  BY <2>1, <2>2, <2>3, <2>4
<1>19. ASSUME Commit PROVE Inv'
  <2>1. Typed'
    BY <1>19 DEF Commit, Typed, InAttempt
  <2>2. Counts'
    BY <1>19 DEF Commit, Counts
  <2>3. Holdings'
    BY <1>19 DEF Commit, Holdings, InAttempt
  <2>4. Charges'
    BY <1>19 DEF Commit, Charges
  <2> QED  BY <2>1, <2>2, <2>3, <2>4
<1>20. ASSUME NEW f \in FinishFaults \cup {"success", "cancelled"}, Finish(f) PROVE Inv'
  <2>1. CASE AlreadyFinished
    BY <1>20, <2>1 DEF Finish, Typed, Counts, Holdings, Charges, InAttempt
  <2>2. CASE ~AlreadyFinished
    <3>1. pc = "serving"
      BY <1>20, <2>2 DEF Finish, AlreadyFinished, Holdings
    <3>2. /\ EndAttempt({"quota", "lease", "permit"}) /\ settled' = TRUE /\ past' = FinishedPast(f)
          /\ pc' = "over" /\ outcome' = "served" /\ UNCHANGED <<request, late, line, leg, pool, req>>
      BY <1>20, <2>2 DEF Finish, End
    <3>3. past \in Histories /\ chosen.deployment \in Deployments
      BY <3>1 DEF Typed, InAttempt
    <3>4. past' \in Histories /\ (~streaming => past' = past)
      BY <1>20, <3>2, <3>3 DEF FinishedPast, FinishFaults, Charging, Histories
    <3>5. held' = [quota |-> 0, lease |-> 0, probes |-> {}] /\ chosen' = NoAttempt
      BY <3>1, <3>2 DEF EndAttempt, Without, Holdings, InAttempt
    <3>6. /\ held' \in [quota : 0..1, lease : 0..1, probes : SUBSET Sides]
          /\ chosen' \in [deployment : Deployments \cup {None}, halfOpen : SUBSET Sides]
      BY <3>5 DEF NoAttempt
    <3>7. Typed'
      BY <3>2, <3>4, <3>6 DEF Typed, InAttempt
    <3>8. Counts' /\ Holdings'
      BY <3>2, <3>5 DEF Counts, Holdings, InAttempt
    <3>9. Charges'
      BY <3>2, <3>4 DEF Charges
    <3> QED  BY <3>7, <3>8, <3>9
  <2> QED  BY <2>1, <2>2
<1>21. ASSUME Deadline PROVE Inv'
  <2>1. Typed'
    BY <1>21 DEF Deadline, Typed, InAttempt
  <2>2. Counts'
    BY <1>21 DEF Deadline, Counts
  <2>3. Holdings'
    BY <1>21 DEF Deadline, Holdings, InAttempt
  <2>4. Charges'
    BY <1>21 DEF Deadline, Charges
  <2> QED  BY <2>1, <2>2, <2>3, <2>4
<1>22. CASE UNCHANGED vars
  BY <1>22 DEF vars, Typed, Counts, Holdings, Charges, InAttempt
<1> QED
  BY <1>1, <1>2, <1>3, <1>4, <1>5, <1>6, <1>7, <1>8, <1>9, <1>10, <1>11, <1>12,
     <1>13, <1>14, <1>15, <1>16, <1>17, <1>18, <1>19, <1>20, <1>21, <1>22
  DEF Next, Advance
-----------------------------------------------------------------------------
\* Every request starts within the invariant.
LEMMA InitiallyInvariant == Init => Inv
<1> SUFFICES ASSUME Init PROVE Inv
  OBVIOUS
<1> USE Parameters
<1>1. req \in Locals /\ pool \in Pools
  BY DEF Init, Blank, NoPool, Locals, Pools, Reasons
<1>2. usable \subseteq Deployments
  BY RouterAssumption DEF RouterAssumption, Init
<1>3. past \in Histories /\ leg \in Legs
  BY DEF Init, Histories, Legs
<1>4. Typed
  <2>1. chosen \in [deployment : Deployments \cup {None}, halfOpen : SUBSET Sides]
    BY DEF Init, NoAttempt
  <2>2. held \in [quota : 0..1, lease : 0..1, probes : SUBSET Sides]
    BY DEF Init, Nothing
  <2>3. line \in Seq(Models) /\ line # <<>>
    BY DEF Init
  <2>4. pc = "route" /\ ~InAttempt
    BY DEF Init, InAttempt
  <2>5. pool.candidates \subseteq usable /\ returned \subseteq Deployments
    BY DEF Init, NoPool
  <2>6. budget \in 0..MaxAttempts /\ earlier \in 0..MaxAttempts
    BY DEF Init
  <2>7. streaming \in BOOLEAN
    BY DEF Init
  <2>8. outcome = "none" /\ late \in BOOLEAN /\ settled \in BOOLEAN
    BY DEF Init
  <2> QED
    BY <1>1, <1>2, <1>3, <2>1, <2>2, <2>3, <2>4, <2>5, <2>6, <2>7, <2>8 DEF Typed
<1>5. Counts
  BY DEF Init, Counts, Blank
<1>6. Holdings
  BY DEF Init, Holdings, Nothing, InAttempt
<1>7. Charges
  BY DEF Init, Charges
<1> QED  BY <1>4, <1>5, <1>6, <1>7 DEF Inv

\* The invariant holds of every request, whatever its pools and chains.
THEOREM Invariance == Spec => []Inv
<1>1. Init => Inv
  BY InitiallyInvariant
<1>2. Inv /\ [Next]_vars => Inv'
  BY StepKeepsInvariant
<1> QED  BY <1>1, <1>2, PTL DEF Spec

\* Every attempt of a logical request is within one limit and settled once, and a
\* deployment is charged one failure of a request that is not a stream.
THEOREM AttemptsSettledOnce == Spec => []SettledOnce
<1>1. Inv => SettledOnce
  <2> SUFFICES ASSUME Inv PROVE SettledOnce
    OBVIOUS
  <2>1. TypeOK
    BY Parameters DEF Inv, Typed, Counts, TypeOK, Legs, Pools, Locals
  <2>2. earlier + req.attempts <= MaxAttempts
    BY Parameters DEF Inv, Typed, Counts, Locals
  <2>3. HandedBack
    BY DEF Inv, Typed, Holdings, HandedBack
  <2>4. ChargedOnce
    BY DEF Inv, Charges, ChargedOnce
  <2> QED  BY <2>1, <2>2, <2>3, <2>4 DEF SettledOnce
<1> QED  BY <1>1, Invariance, PTL

\* A deployment that failed for good is not contacted again in a request that is
\* not a stream.
THEOREM SpentStaysSpent == Spec => SpentNotRepeated
<1> DEFINE Kept == ~streaming => \A d \in past.spent : req'.tried[d] <= req.tried[d]
<1>1. Inv /\ [Next]_vars => [Kept]_vars
  <2> SUFFICES ASSUME Inv, Next, ~streaming, NEW d \in past.spent
               PROVE  req'.tried[d] <= req.tried[d]
    OBVIOUS
  <2>1. d \in Deployments /\ d \in req.exhausted /\ req \in Locals /\ req.tried[d] \in Int
    BY Parameters DEF Inv, Typed, Charges, Histories, Locals
  <2>2. pc # "returned" /\ (pc = "route" => req = Blank)
        /\ (pc = "admission" => chosen.deployment # d)
    BY <2>1 DEF Inv, Charges, Counts
  <2>3. CASE Admitted
    BY <2>1, <2>2, <2>3 DEF Admitted, Counted, Locals
  <2>4. CASE ~Admitted
    <3>1. req'.tried = req.tried
      <4>1. CASE StartRoute
        BY <2>2, <4>1 DEF StartRoute
      <4>2. CASE QuotaRefused
        BY <2>1, <4>2 DEF QuotaRefused, Locals
      <4>3. ASSUME NEW f \in Faults, Fails(f) PROVE req'.tried = req.tried
        BY <2>1, <4>3 DEF Fails, Locals
      <4>4. CASE NextLeg
        BY <2>1, <4>4 DEF NextLeg, Locals
      <4>5. CASE StartRound \/ EndRound
        BY <2>1, <4>5 DEF StartRound, EndRound, GiveUp, Locals
      <4>6. CASE req' = req
        BY <4>6
      <4> QED
        BY <2>2, <2>4, <4>1, <4>2, <4>3, <4>4, <4>5, <4>6
        DEF Next, Advance, ModelNotFound, EnterPool, LeavePool, Choose, AdmissionRefused,
            AdmissionFails, Begin, FailsBeforeOutput, Backoff, Stops, Returns, Commit, Finish, Deadline
    <3> QED  BY <2>1, <3>1
  <2> QED  BY <2>3, <2>4
<1> QED  BY <1>1, Invariance, PTL DEF Spec, SpentNotRepeated
-----------------------------------------------------------------------------
(* EvenUse is about the current pool, but a pool may be entered again: the *)
(* same is kept of every pool, and the tries a pool allows never exceed    *)
(* those of a candidate it may still use by more than one.                 *)
Evenly(candidates) ==
    \A d, e \in candidates : e \notin req.exhausted => req.tried[d] <= req.tried[e] + 1

InPool == pc \in {"loop", "admission", "begin", "upstream", "backoff", "ended"}

Evenness ==
    /\ \A m \in Models : Evenly(Candidates(m))
    /\ InPool =>
          /\ pool.candidates = Candidates(line[leg.at])
          /\ \A e \in pool.candidates : e \notin req.exhausted => pool.per <= req.tried[e] + 1
    /\ pc = "admission" =>
          chosen.deployment \in pool.candidates /\ req.tried[chosen.deployment] < pool.per
    /\ pc \in {"enter", "round"} => pool.candidates = {}
    /\ EvenUse

\* The candidates of a pool are deployments of its model.
LEMMA CandidatesOfPool ==
    ASSUME Typed, NEW m \in Models
    PROVE  Candidates(m) \subseteq PoolOf[m] /\ Candidates(m) \subseteq Deployments
BY RouterAssumption DEF RouterAssumption, Typed, Candidates, Fresh, Pool

\* A step that tries no deployment and changes no pool keeps the evenness.
LEMMA EvennessKept ==
    ASSUME Inv, Evenness, UNCHANGED <<usable, returned>>, req' \in Locals,
           req'.tried = req.tried, req.exhausted \subseteq req'.exhausted,
           \/ /\ pool'.candidates = pool.candidates /\ pool'.per = pool.per
              /\ InPool' => UNCHANGED <<line, leg>>
              /\ InPool' => InPool
              /\ pc \in {"route", "enter"} => pc' \in {"route", "enter"} \/ pool.candidates = {}
              /\ pc' \in {"enter", "round"} => pool.candidates = {}
           \/ pool'.candidates = {} /\ ~InPool',
           pc' = "admission" =>
              /\ chosen'.deployment \in pool'.candidates
              /\ req'.tried[chosen'.deployment] < pool'.per
    PROVE  Evenness'
<1>1. ASSUME NEW m PROVE Candidates(m)' = Candidates(m)
  BY DEF Candidates, Fresh, Pool
<1>2. \A m \in Models : Evenly(Candidates(m))'
  <2> SUFFICES ASSUME NEW m \in Models PROVE Evenly(Candidates(m))'
    OBVIOUS
  <2> QED  BY <1>1 DEF Evenness, Evenly
<1>3. InPool' => /\ pool'.candidates = Candidates(line[leg.at])'
                 /\ \A e \in pool'.candidates : e \notin req'.exhausted => pool'.per <= req'.tried[e] + 1
  BY <1>1 DEF Evenness
<1>4. pc' \in {"enter", "round"} => pool'.candidates = {}
  BY DEF Evenness
<1>5. EvenUse'
  BY DEF Evenness, EvenUse
<1> QED  BY <1>2, <1>3, <1>4, <1>5 DEF Evenness

\* With no tries made yet, all pools are even.
LEMMA EvenAtStart ==
    ASSUME Typed', req' = Blank, pc' \in {"route", "enter", "over"},
           pc' = "enter" => pool'.candidates = {}
    PROVE  Evenness'
<1>1. \A d \in Deployments : req'.tried[d] = 0
  BY DEF Blank
<1>2. \A m \in Models : Candidates(m)' \subseteq Deployments
  BY RouterAssumption DEF RouterAssumption, Typed, Candidates, Fresh, Pool
<1>3. pool'.candidates \subseteq Deployments
  BY DEF Typed
<1> QED  BY <1>1, <1>2, <1>3 DEF Evenness, Evenly, InPool, EvenUse

\* A deployment is used once more only where no usable candidate is behind it.
LEMMA AdmittedInTurn == Inv /\ Evenness /\ Admitted => Evenness'
<1> SUFFICES ASSUME Inv, Evenness, Admitted PROVE Evenness'
  OBVIOUS
<1> DEFINE d == chosen.deployment
           m == line[leg.at]
<1>1. /\ pc = "admission" /\ pc' = "begin"
      /\ req.tried \in [Deployments -> 0..MaxAttempts] /\ pool.per \in Nat /\ m \in Models
  BY Parameters DEF Admitted, Inv, Typed, Counts, Locals, Pools, Legs
<1>2. /\ d \in Deployments /\ d \in Candidates(m) /\ req.tried[d] < pool.per /\ pool.candidates = Candidates(m)
      /\ \A e \in Candidates(m) : e \notin req.exhausted => pool.per <= req.tried[e] + 1
  BY <1>1 DEF Evenness, InPool, Inv, Typed, InAttempt
<1>3. /\ req'.tried = [req.tried EXCEPT ![d] = @ + 1] /\ req'.exhausted = req.exhausted
      /\ UNCHANGED <<usable, returned, line, leg, pool>>
  BY DEF Admitted, Counted, request, Inv, Typed, Locals
<1>4. ASSUME NEW n PROVE Candidates(n)' = Candidates(n)
  BY <1>3 DEF Candidates, Fresh, Pool
<1> HIDE DEF d, m
<1>5. \A e \in Deployments : req'.tried[e] = IF e = d THEN req.tried[d] + 1 ELSE req.tried[e]
  BY <1>1, <1>2, <1>3
<1>6. ASSUME NEW n \in Models PROVE Evenly(Candidates(n))'
  <2>1. Candidates(n) \subseteq PoolOf[n] /\ Candidates(n) \subseteq Deployments
        /\ Candidates(m) \subseteq PoolOf[m]
    BY <1>1, CandidatesOfPool DEF Inv
  <2>2. n = m \/ d \notin Candidates(n)
    BY <1>1, <1>2, <2>1, RouterAssumption DEF RouterAssumption
  <2>3. ASSUME NEW x \in Candidates(n), NEW e \in Candidates(n), e \notin req.exhausted
        PROVE  req'.tried[x] <= req'.tried[e] + 1
    <3>1. req.tried[x] <= req.tried[e] + 1
      BY <2>3 DEF Evenness, Evenly
    <3>2. req.tried[x] \in Nat /\ req.tried[e] \in Nat /\ req.tried[d] \in Nat /\ pool.per \in Nat
      BY <1>1, <1>2, <2>1
    <3>3. x = d => pool.per <= req.tried[e] + 1
      BY <1>2, <2>2, <2>3
    <3> QED  BY <1>2, <1>5, <2>1, <3>1, <3>2, <3>3
  <2> QED  BY <1>3, <1>4, <2>3 DEF Evenly
<1>7. pool'.candidates = Candidates(line[leg.at])' /\ Evenly(pool.candidates)'
  BY <1>1, <1>2, <1>3, <1>4, <1>6 DEF m, Evenly
<1>8. \A e \in pool'.candidates : e \notin req'.exhausted => pool'.per <= req'.tried[e] + 1
  <2> SUFFICES ASSUME NEW e \in pool.candidates, e \notin req.exhausted
               PROVE  pool.per <= req'.tried[e] + 1
    BY <1>3
  <2>1. e \in Deployments /\ pool.per <= req.tried[e] + 1
    BY <1>1, <1>2, CandidatesOfPool DEF Inv
  <2> QED  BY <1>1, <1>2, <1>5, <2>1
<1> QED  BY <1>1, <1>4, <1>6, <1>7, <1>8 DEF Evenness, EvenUse, Evenly

\* Entering a pool allows one try more than its least tried usable candidate.
LEMMA EnteredInTurn == Inv /\ Evenness /\ EnterPool => Evenness'
<1> SUFFICES ASSUME Inv, Evenness, EnterPool PROVE Evenness'
  OBVIOUS
<1> DEFINE cands == Candidates(line[leg.at])
<1>1. /\ line[leg.at] \in Models /\ pc = "enter" /\ pc' \in {"ended", "loop"}
      /\ pool'.candidates = cands /\ pool'.per = MostTries(cands)
      /\ UNCHANGED <<usable, returned, line, leg, req>>
  BY Parameters DEF EnterPool, NoPool, request, Inv, Typed, Legs
<1>2. cands \subseteq Deployments /\ req \in Locals
  BY <1>1, CandidatesOfPool DEF Inv, Typed
<1>3. ASSUME NEW m PROVE Candidates(m)' = Candidates(m)
  BY <1>1 DEF Candidates, Fresh, Pool
<1>4. ASSUME NEW e \in cands, e \notin req.exhausted PROVE MostTries(cands) <= req.tried[e] + 1
  <2> DEFINE tries == {req.tried[d] : d \in cands \ req.exhausted}
  <2>1. tries \in SUBSET Nat /\ req.tried[e] \in tries
    BY <1>2, <1>4, Parameters DEF Locals
  <2>2. Min(tries) \in Nat /\ Min(tries) <= req.tried[e]
    BY <2>1, LeastNatural
  <2> DEFINE least == Min(tries)
  <2>3. MostTries(cands) = Min(tries) + 1
    BY <1>4 DEF MostTries
  <2>4. req.tried[e] \in Nat /\ least \in Nat /\ least <= req.tried[e] /\ MostTries(cands) = least + 1
    BY <2>1, <2>2, <2>3
  <2> HIDE DEF least, tries, cands
  <2> QED  BY <2>4
<1>5. Evenly(cands)
  BY <1>1 DEF Evenness
<1>6. Evenly(pool.candidates)' /\ \A m \in Models : Evenly(Candidates(m))'
  BY <1>1, <1>3, <1>5 DEF Evenness, Evenly
<1>7. /\ pool'.candidates = Candidates(line[leg.at])'
      /\ \A e \in pool'.candidates : e \notin req'.exhausted => pool'.per <= req'.tried[e] + 1
  BY <1>1, <1>3, <1>4
<1>8. EvenUse'
  BY <1>6 DEF Evenly, EvenUse
<1> QED  BY <1>1, <1>6, <1>7, <1>8 DEF Evenness

\* Every action keeps the evenness.
LEMMA StepKeepsEvenness == Inv /\ Evenness /\ [Next]_vars => Evenness'
<1> SUFFICES ASSUME Inv, Evenness, [Next]_vars PROVE Evenness'
  OBVIOUS
<1> USE DEF request, done
<1>1. Inv'
  BY StepKeepsInvariant
<1>2. req \in Locals /\ pool \in Pools /\ req' \in Locals /\ Typed'
  BY <1>1 DEF Inv, Typed
<1>3. CASE Admitted
  BY <1>3, AdmittedInTurn
<1>4. CASE EnterPool
  BY <1>4, EnteredInTurn
<1>5. CASE StartRoute
  BY <1>2, <1>5, EvenAtStart DEF StartRoute, NoPool
<1>6. CASE ModelNotFound
  <2>1. req' = Blank
    BY <1>6 DEF ModelNotFound, Inv, Counts, Blank
  <2>2. pc' = "over"
    BY <1>6 DEF ModelNotFound, End
  <2> QED  BY <1>2, <2>1, <2>2, EvenAtStart
<1>7. ASSUME NEW f \in Faults, FailsBeforeOutput(f) PROVE Evenness'
  <2>1. req' = Blank /\ pc' \in {"route", "over"}
    BY <1>7 DEF FailsBeforeOutput, End, Blank
  <2> QED  BY <1>2, <2>1, EvenAtStart
<1>8. CASE LeavePool \/ Backoff
  <2>1. /\ UNCHANGED <<usable, returned, line, leg, req>>
        /\ pc \in {"loop", "backoff"} /\ pc' \in {"loop", "ended"}
        /\ pool'.candidates = pool.candidates /\ pool'.per = pool.per
    BY <1>2, <1>8 DEF LeavePool, Backoff, EndPool, Pools
  <2> QED  BY <1>2, <2>1, EvennessKept DEF InPool
<1>9. ASSUME NEW d \in Deployments, Choose(d) PROVE Evenness'
  <2>1. d \in pool.candidates /\ req.tried[d] < pool.per
    BY <1>9 DEF Choose, LeastTried, Selectable
  <2>2. /\ UNCHANGED <<usable, returned, line, leg, req>>
        /\ pool'.candidates = pool.candidates /\ pool'.per = pool.per
    BY <1>2, <1>9 DEF Choose, Pools
  <2>3. pc = "loop" /\ (pc' = "loop" \/ (pc' = "admission" /\ chosen'.deployment = d))
    BY <1>9 DEF Choose
  <2> QED  BY <1>2, <2>1, <2>2, <2>3, EvennessKept DEF InPool
<1>10. CASE QuotaRefused \/ AdmissionRefused
  <2>1. /\ UNCHANGED <<usable, returned, line, leg>> /\ pc = "admission" /\ pc' = "loop"
        /\ pool'.candidates = pool.candidates /\ pool'.per = pool.per
        /\ req'.tried = req.tried /\ req'.exhausted = req.exhausted
    BY <1>2, <1>10 DEF QuotaRefused, AdmissionRefused, SetAside, Pools, Locals
  <2> QED  BY <1>2, <2>1, EvennessKept DEF InPool
<1>11. ASSUME NEW f \in Faults, Fails(f) PROVE Evenness'
  <2>1. /\ UNCHANGED <<usable, returned, line, leg>> /\ pc = "upstream" /\ pc' \in {"loop", "backoff"}
        /\ pool'.candidates = pool.candidates /\ pool'.per = pool.per
    BY <1>2, <1>11 DEF Fails, Pools
  <2>2. req'.tried = req.tried /\ req.exhausted \subseteq req'.exhausted
    BY <1>2, <1>11 DEF Fails, Locals
  <2> QED  BY <1>2, <2>1, <2>2, EvennessKept DEF InPool
<1>12. CASE NextLeg
  <2>1. pool'.candidates = {} /\ pc' \in {"enter", "round"}
    BY <1>12 DEF NextLeg, NoPool
  <2>2. UNCHANGED <<usable, returned>> /\ req'.tried = req.tried /\ req'.exhausted = req.exhausted
    BY <1>2, <1>12 DEF NextLeg, Locals
  <2> QED  BY <1>2, <2>1, <2>2, EvennessKept DEF InPool
<1>13. CASE StartRound \/ EndRound
  <2>1. /\ UNCHANGED <<usable, returned, line, pool>> /\ pc \in {"enter", "round"}
        /\ pc' \in {"enter", "round", "over"}
        /\ req'.tried = req.tried /\ req'.exhausted = req.exhausted
    BY <1>2, <1>13 DEF StartRound, EndRound, GiveUp, Locals
  <2> QED  BY <1>2, <2>1, EvennessKept DEF InPool, Evenness
<1>14. CASE AdmissionFails \/ Begin \/ Stops \/ Returns \/ Commit
  <2>1. /\ UNCHANGED <<usable, returned, line, leg, pool, req>>
        /\ pc \in {"admission", "begin", "upstream", "returned"}
        /\ pc' \in {"over", "upstream", "returned", "serving"}
        /\ pc' = "upstream" => pc = "begin"
    BY <1>14 DEF AdmissionFails, Begin, Stops, Returns, Commit, End
  <2> QED  BY <1>2, <2>1, EvennessKept DEF InPool
<1>15. ASSUME NEW f \in FinishFaults \cup {"success", "cancelled"}, Finish(f) PROVE Evenness'
  <2>1. pc \in {"serving", "over"} /\ (pc' = pc \/ pc' = "over")
        /\ UNCHANGED <<usable, returned, line, leg, pool, req>>
    BY <1>15 DEF Finish, End, Inv, Holdings
  <2> QED  BY <1>2, <2>1, EvennessKept DEF InPool
<1>16. CASE Deadline \/ UNCHANGED vars
  <2>1. UNCHANGED <<pc, usable, returned, line, leg, pool, req, chosen>>
    BY <1>16 DEF Deadline, vars
  <2> QED  BY <1>2, <2>1, EvennessKept DEF InPool, Evenness
<1> QED
  BY <1>3, <1>4, <1>5, <1>6, <1>7, <1>8, <1>9, <1>10, <1>11, <1>12, <1>13, <1>14, <1>15, <1>16
  DEF Next, Advance

\* With no tries made yet, every request starts even.
LEMMA InitiallyEven == Init => Evenness
<1> SUFFICES ASSUME Init PROVE Evenness
  OBVIOUS
<1>1. Inv
  BY InitiallyInvariant
<1>2. \A d \in Deployments : req.tried[d] = 0
  BY DEF Init, Blank
<1>3. pc = "route" /\ \A m \in Models : Candidates(m) \subseteq Deployments
  BY <1>1, CandidatesOfPool DEF Init, Inv
<1> QED  BY <1>2, <1>3 DEF Evenness, Evenly, EvenUse, InPool

\* Deployments of a pool are used evenly by every request, over all its rounds.
THEOREM CandidatesUsedEvenly == Spec => []EvenUse
<1>1. Init => Inv /\ Evenness
  BY InitiallyInvariant, InitiallyEven
<1>2. Inv /\ Evenness /\ [Next]_vars => (Inv /\ Evenness)'
  BY StepKeepsInvariant, StepKeepsEvenness
<1>3. Inv /\ Evenness => EvenUse
  BY DEF Evenness
<1> QED  BY <1>1, <1>2, <1>3, PTL DEF Spec
-----------------------------------------------------------------------------
(* GivesUpOnlyHindered looks back on a whole retry round.  Rounds says that *)
(* while a round has made no attempt, every pool it has left was hindered:  *)
(* a pool that tries nobody leaves its least tried candidate only because   *)
(* that one was refused, and per still admits it, since no try has been     *)
(* made in between.                                                         *)
Hindered(m) == Candidates(m) \subseteq req.exhausted \/ Candidates(m) \cap past.refused # {}

Underway == InPool \/ pc \in {"enter", "round"}

\* A retry round with attempts and time left that has not made an attempt yet.
Idle == leg.again /\ req.attempts = leg.start /\ ~OutOfBudget

Rounds ==
    /\ pc \notin {"route", "over"} => leg.start <= req.attempts
    /\ InPool => leg.start <= pool.start /\ pool.start <= req.attempts
    /\ pc \in {"begin", "upstream", "backoff"} => pool.start < req.attempts
    /\ InPool /\ pc # "ended" /\ req.attempts = pool.start => pool.per = MostTries(pool.candidates)
    /\ InPool /\ pc # "ended" /\ leg.again => pool.cap > 0
    /\ Underway /\ Idle =>
          /\ \A i \in 1..Len(line) : i < leg.at => Hindered(line[i])
          /\ pc = "ended" => Hindered(line[leg.at])
    /\ GivesUpOnlyHindered

\* The counters that Rounds compares are numbers.
LEMMA CountersNatural ==
    ASSUME Typed
    PROVE  /\ req.attempts \in Nat /\ leg.start \in Nat /\ leg.at \in Nat \ {0}
           /\ pool.start \in Nat /\ pool.cap \in Nat /\ budget \in Nat /\ Len(line) \in Nat
           /\ \A i \in 1..Len(line) : line[i] \in Models
BY Parameters DEF Typed, Locals, Legs, Pools

\* Who is least tried does not change without a try.
LEMMA MostTriesKept ==
    ASSUME req'.tried = req.tried, req'.exhausted = req.exhausted, pool'.candidates = pool.candidates
    PROVE  MostTries(pool.candidates)' = MostTries(pool.candidates)
BY DEF MostTries

\* A candidate that could be tried once more is there unless all are exhausted.
LEMMA SomeoneToTry ==
    ASSUME req \in Locals, NEW candidates \in SUBSET Deployments, ~(candidates \subseteq req.exhausted)
    PROVE  \E d \in candidates : d \notin req.exhausted /\ req.tried[d] < MostTries(candidates)
<1> DEFINE tries == {req.tried[d] : d \in candidates \ req.exhausted}
<1>1. tries \in SUBSET Nat /\ tries # {}
  BY Parameters DEF Locals
<1>2. Min(tries) \in tries /\ Min(tries) \in Nat
  BY <1>1, LeastNatural
<1>3. MostTries(candidates) = Min(tries) + 1
  BY DEF MostTries
<1>4. PICK d \in candidates \ req.exhausted : req.tried[d] = Min(tries)
  BY <1>2
<1> HIDE DEF tries
<1>5. req.tried[d] < MostTries(candidates)
  BY <1>2, <1>3, <1>4
<1> QED  BY <1>4, <1>5

\* A step inside a pool, or from one to the next, that makes no attempt and
\* remembers no refusal keeps the rounds.
LEMMA RoundsKept ==
    ASSUME Inv, Rounds, Typed', UNCHANGED <<usable, returned, line, leg, budget, late, past>>,
           req'.attempts = req.attempts, req'.tried = req.tried, req'.exhausted = req.exhausted,
           pc' \notin {"route", "over"}, pc \notin {"route", "over"},
           Underway' => Underway,
           pc' # "ended",
           InPool' => InPool /\ pc # "ended" /\ pool'.start = pool.start /\ pool'.cap = pool.cap
                      /\ pool'.per = pool.per /\ pool'.candidates = pool.candidates,
           pc' \in {"begin", "upstream", "backoff"} => pc \in {"begin", "upstream", "backoff"}
    PROVE  Rounds'
<1>1. ASSUME NEW m PROVE Candidates(m)' = Candidates(m)
  BY DEF Candidates, Fresh, Pool
<1>2. ASSUME NEW m PROVE Hindered(m)' = Hindered(m)
  BY <1>1 DEF Hindered
<1>3. Idle' = Idle
  BY DEF Idle, OutOfBudget
<1>4. InPool' => MostTries(pool.candidates)' = MostTries(pool.candidates)
  BY MostTriesKept
<1>5. Underway' /\ Idle' => /\ \A i \in 1..Len(line') : i < leg'.at => Hindered(line[i])'
                            /\ pc' = "ended" => Hindered(line[leg.at])'
  BY <1>2, <1>3 DEF Rounds
<1>6. GivesUpOnlyHindered'
  BY DEF GivesUpOnlyHindered, StoppedEarly
<1>7. pc' \in {"begin", "upstream", "backoff"} => InPool'
  BY DEF InPool
<1> QED  BY <1>4, <1>5, <1>6, <1>7 DEF Rounds

\* A request that ends in another way than by giving up keeps the rounds.
LEMMA RoundsOver ==
    ASSUME pc' \in {"route", "over"}, outcome' \notin Reasons \cup {"neutral", "ineligible"}
    PROVE  Rounds'
BY DEF Rounds, GivesUpOnlyHindered, StoppedEarly, InPool, Underway

\* Entering a pool tries nobody; a retry round allows it one attempt.
LEMMA EnteredInRound == Inv /\ Rounds /\ EnterPool => Rounds'
<1> SUFFICES ASSUME Inv, Rounds, EnterPool PROVE Rounds'
  OBVIOUS
<1> USE DEF request
<1> DEFINE cands == Candidates(line[leg.at])
           cap == Max({0, Min({PoolLimit, budget - req.attempts})})
<1>1. Typed
  BY DEF Inv
<1>2. /\ pc = "enter" /\ pc' = IF cands = {} THEN "ended" ELSE "loop"
      /\ pool'.candidates = cands /\ pool'.per = MostTries(cands) /\ pool'.start = req.attempts
      /\ pool'.cap = cap
      /\ leg.again => ~OutOfBudget
      /\ UNCHANGED <<usable, returned, line, leg, req, budget, late>>
      /\ past'.refused = past.refused
  BY <1>1 DEF EnterPool, NoPool, Typed, Histories
<1>3. leg.again => cap = 1
  <2> SUFFICES ASSUME leg.again PROVE cap = 1
    OBVIOUS
  <2>1. PoolLimit = 1 /\ budget - req.attempts >= 1 /\ budget - req.attempts \in Int
    BY <1>1, <1>2, CountersNatural DEF PoolLimit, OutOfBudget
  <2>2. Min({PoolLimit, budget - req.attempts}) = 1
    BY <2>1, SmallerOfTwo
  <2> QED  BY <2>2, LargerOfTwo
<1>4. ASSUME NEW m PROVE Hindered(m)' = Hindered(m) /\ Candidates(m)' = Candidates(m)
  BY <1>2 DEF Hindered, Candidates, Fresh, Pool
<1>5. MostTries(pool.candidates)' = MostTries(cands)
  BY <1>2 DEF MostTries
<1> HIDE DEF cands, cap
<1>6. Idle' = Idle /\ Underway
  BY <1>2 DEF Idle, OutOfBudget, Underway
<1>7. cands = {} => Hindered(line[leg.at])
  BY DEF cands, Hindered
<1>8. Underway' /\ Idle' => /\ \A i \in 1..Len(line') : i < leg'.at => Hindered(line[i])'
                            /\ pc' = "ended" => Hindered(line[leg.at])'
  BY <1>2, <1>4, <1>6, <1>7 DEF Rounds
<1>9. GivesUpOnlyHindered'
  BY <1>2 DEF GivesUpOnlyHindered, StoppedEarly
<1>10. leg.start \in Nat /\ req.attempts \in Nat /\ leg.start <= req.attempts
  BY <1>1, <1>2, CountersNatural DEF Rounds
<1>11. pc' \notin {"begin", "upstream", "backoff"}
  BY <1>2
<1> QED  BY <1>2, <1>3, <1>5, <1>8, <1>9, <1>10, <1>11 DEF Rounds

\* Who leaves a pool without an attempt has been refused somebody, or everybody
\* is exhausted; the pools of other models keep what hindered them.
LEMMA LeftHindered ==
    ASSUME Inv, Evenness, Rounds, Idle, pc = "loop", LeastTried = {}, NEW r, EndPool(r),
           UNCHANGED <<usable, returned, line, leg, req>>
    PROVE  Hindered(line[leg.at])' /\ \A i \in 1..Len(line) : i < leg.at => Hindered(line[i])'
<1>1. Typed /\ req \in Locals /\ pool.candidates \subseteq Deployments /\ past \in Histories
  BY DEF Inv, Typed, Pools
<1>2. pool.candidates = Candidates(line[leg.at]) /\ line[leg.at] \in Models /\ leg.at \in 1..Len(line)
  BY <1>1, CountersNatural DEF Evenness, InPool, Inv, Counts
<1>3. past'.refused = {d \in past.refused : d \notin pool.candidates}
                      \cup {d \in pool.candidates : Refused(d)}
  BY <1>1 DEF EndPool, Histories
<1>4. ASSUME NEW m PROVE Candidates(m)' = Candidates(m)
  BY DEF Candidates, Fresh, Pool
<1>5. pool.per = MostTries(pool.candidates)
  BY <1>1, CountersNatural DEF Rounds, Idle, InPool
<1>6. Selectable = {}
  <2> SUFFICES ASSUME Selectable # {} PROVE FALSE
    OBVIOUS
  <2> DEFINE tries == {req.tried[d] : d \in Selectable}
  <2>1. Selectable \subseteq Deployments
    BY <1>1 DEF Selectable
  <2>2. tries \in SUBSET Nat /\ tries # {}
    BY <1>1, <2>1, Parameters DEF Locals
  <2>3. PICK d \in Selectable : req.tried[d] = Min(tries) /\ \A y \in tries : Min(tries) <= y
    BY <2>2, LeastNatural
  <2>4. d \in LeastTried
    BY <2>3 DEF LeastTried
  <2> QED  BY <2>4
<1>7. Hindered(line[leg.at])'
  <2>1. CASE pool.candidates \subseteq req.exhausted
    BY <1>2, <1>4, <2>1 DEF Hindered
  <2>2. CASE ~(pool.candidates \subseteq req.exhausted)
    <3>1. PICK d \in pool.candidates : d \notin req.exhausted /\ req.tried[d] < pool.per
      BY <1>1, <1>5, <2>2, SomeoneToTry
    <3>2. Refused(d)
      BY <1>6, <3>1 DEF Selectable
    <3> QED  BY <1>2, <1>3, <1>4, <3>1, <3>2 DEF Hindered
  <2> QED  BY <2>1, <2>2
<1>8. ASSUME NEW i \in 1..Len(line), i < leg.at PROVE Hindered(line[i])'
  <2>1. Hindered(line[i]) /\ line[i] \in Models
    BY <1>1, <1>8, CountersNatural DEF Rounds, Underway, InPool
  <2>2. CASE line[i] = line[leg.at]
    BY <1>7, <2>2
  <2>3. CASE line[i] # line[leg.at]
    <3>1. Candidates(line[i]) \cap pool.candidates = {}
      BY <1>1, <1>2, <2>1, <2>3, CandidatesOfPool, RouterAssumption DEF RouterAssumption
    <3> QED  BY <1>3, <1>4, <2>1, <3>1 DEF Hindered
  <2> QED  BY <2>2, <2>3
<1> QED  BY <1>7, <1>8

\* Every action keeps the rounds.
LEMMA StepKeepsRounds == Inv /\ Evenness /\ Rounds /\ [Next]_vars => Rounds'
<1> SUFFICES ASSUME Inv, Evenness, Rounds, [Next]_vars PROVE Rounds'
  OBVIOUS
<1> USE DEF request, done
<1>1. Typed /\ Typed' /\ req \in Locals /\ pool \in Pools /\ past \in Histories
  BY StepKeepsInvariant DEF Inv, Typed
<1>2. /\ req.attempts \in Nat /\ leg.start \in Nat /\ leg.at \in Nat \ {0}
      /\ pool.start \in Nat /\ pool.cap \in Nat /\ budget \in Nat /\ Len(line) \in Nat
  BY <1>1, CountersNatural
<1>3. CASE StartRoute
  <2>1. pc' = "enter" /\ leg'.again = FALSE /\ leg'.start = 0 /\ req'.attempts = 0
    BY <1>3 DEF StartRoute, Blank
  <2> QED  BY <2>1 DEF Rounds, InPool, Idle, GivesUpOnlyHindered, StoppedEarly
<1>4. CASE ModelNotFound
  BY <1>4, RoundsOver DEF ModelNotFound, End, Reasons
<1>5. CASE EnterPool
  BY <1>5, EnteredInRound
<1>6. CASE LeavePool
  <2>1. pc = "loop" /\ pc' = "ended" /\ UNCHANGED <<usable, returned, line, leg, req, budget, late>>
        /\ pool'.start = pool.start /\ pool'.cap = pool.cap
    BY <1>1, <1>6 DEF LeavePool, EndPool, Pools
  <2>2. Idle' = Idle
    BY <2>1 DEF Idle, OutOfBudget
  <2>3. ASSUME Idle PROVE Hindered(line[leg.at])' /\ \A i \in 1..Len(line) : i < leg.at => Hindered(line[i])'
    <3>1. ~OutOfBudget /\ ~PoolUsedUp
      BY <1>2, <2>1, <2>3 DEF Idle, Rounds, InPool, PoolUsedUp
    <3>2. LeastTried = {} /\ \E r : EndPool(r)
      BY <1>6, <3>1 DEF LeavePool
    <3> QED  BY <2>1, <2>3, <3>2, LeftHindered
  <2>4. GivesUpOnlyHindered'
    BY <2>1 DEF GivesUpOnlyHindered, StoppedEarly
  <2>5. leg.start <= pool.start /\ pool.start <= req.attempts /\ leg.start <= req.attempts
    BY <2>1 DEF Rounds, InPool
  <2> QED  BY <2>1, <2>2, <2>3, <2>4, <2>5 DEF Rounds, InPool, Underway
<1>7. ASSUME NEW d \in Deployments, Choose(d) PROVE Rounds'
  <2>1. pc = "loop" /\ pc' \in {"loop", "admission"} /\ UNCHANGED <<usable, returned, line, leg, req, budget, late, past>>
    BY <1>7 DEF Choose
  <2>2. /\ pool'.start = pool.start /\ pool'.cap = pool.cap
        /\ pool'.per = pool.per /\ pool'.candidates = pool.candidates
    BY <1>1, <1>7 DEF Choose, Pools
  <2> QED  BY <1>1, <2>1, <2>2, RoundsKept DEF InPool, Underway
<1>8. CASE QuotaRefused \/ AdmissionRefused
  <2>1. pc = "admission" /\ pc' = "loop" /\ UNCHANGED <<usable, returned, line, leg, budget, late, past>>
    BY <1>8 DEF QuotaRefused, AdmissionRefused
  <2>2. /\ pool'.start = pool.start /\ pool'.cap = pool.cap
        /\ pool'.per = pool.per /\ pool'.candidates = pool.candidates
        /\ req'.attempts = req.attempts /\ req'.tried = req.tried /\ req'.exhausted = req.exhausted
    BY <1>1, <1>8 DEF QuotaRefused, AdmissionRefused, SetAside, Pools, Locals
  <2> QED  BY <1>1, <2>1, <2>2, RoundsKept DEF InPool, Underway
<1>9. CASE AdmissionFails \/ Stops
  BY <1>9, RoundsOver DEF AdmissionFails, Stops, End, Reasons
<1>10. CASE Admitted
  <2>1. pc = "admission" /\ pc' = "begin" /\ UNCHANGED <<leg, pool>> /\ req'.attempts = req.attempts + 1
    BY <1>1, <1>10 DEF Admitted, Counted, Locals
  <2>2. leg.start <= pool.start /\ pool.start <= req.attempts /\ (leg.again => pool.cap > 0)
    BY <2>1 DEF Rounds, InPool
  <2>3. req'.attempts # leg'.start /\ leg'.start <= req'.attempts /\ pool'.start < req'.attempts
    BY <1>2, <2>1, <2>2
  <2>4. ~Idle'
    BY <2>3 DEF Idle
  <2>5. GivesUpOnlyHindered'
    BY <2>1 DEF GivesUpOnlyHindered, StoppedEarly
  <2>6. pool'.start <= req'.attempts /\ req'.attempts # pool'.start
    BY <1>2, <2>1, <2>2
  <2> QED  BY <2>1, <2>2, <2>3, <2>4, <2>5, <2>6 DEF Rounds
<1>11. CASE Begin
  <2>1. CASE pc' = "upstream"
    <3>1. pc = "begin" /\ UNCHANGED <<usable, returned, line, leg, pool, req, budget, late, past>>
      BY <1>11 DEF Begin
    <3> QED  BY <1>1, <2>1, <3>1, RoundsKept DEF InPool, Underway
  <2>2. CASE End("error")
    BY <2>2, RoundsOver DEF End, Reasons
  <2> QED  BY <1>11, <2>1, <2>2 DEF Begin
<1>12. ASSUME NEW f \in Faults, Fails(f) PROVE Rounds'
  <2>1. pc = "upstream" /\ pc' \in {"loop", "backoff"} /\ UNCHANGED <<leg>>
        /\ pool'.start = pool.start /\ pool'.cap = pool.cap /\ req'.attempts = req.attempts
    BY <1>1, <1>12 DEF Fails, Pools, Locals
  <2>2. /\ leg.start <= pool.start /\ pool.start < req.attempts /\ (leg.again => pool.cap > 0)
    BY <2>1 DEF Rounds, InPool
  <2>3. ~Idle' /\ req'.attempts # pool'.start /\ pool'.start <= req'.attempts /\ leg'.start <= req'.attempts
    BY <1>2, <2>1, <2>2 DEF Idle
  <2>4. GivesUpOnlyHindered'
    BY <2>1 DEF GivesUpOnlyHindered, StoppedEarly
  <2> QED  BY <2>1, <2>2, <2>3, <2>4 DEF Rounds
<1>13. CASE Backoff
  <2>1. pc = "backoff" /\ pc' \in {"loop", "ended"} /\ UNCHANGED <<leg, req>>
        /\ pool'.start = pool.start /\ pool'.cap = pool.cap
    BY <1>1, <1>13 DEF Backoff, EndPool, Pools
  <2>2. /\ leg.start <= pool.start /\ pool.start < req.attempts /\ (leg.again => pool.cap > 0)
    BY <2>1 DEF Rounds, InPool
  <2>3. ~Idle' /\ req'.attempts # pool'.start /\ pool'.start <= req'.attempts /\ leg'.start <= req'.attempts
    BY <1>2, <2>1, <2>2 DEF Idle
  <2>4. GivesUpOnlyHindered'
    BY <2>1 DEF GivesUpOnlyHindered, StoppedEarly
  <2> QED  BY <2>1, <2>2, <2>3, <2>4 DEF Rounds
<1>14. CASE NextLeg
  <2>1. /\ pc = "ended" /\ pc' \in {"enter", "round"} /\ UNCHANGED <<usable, returned, budget, late, past>>
        /\ req'.attempts = req.attempts /\ req'.exhausted = req.exhausted
        /\ leg' = [leg EXCEPT !.at = @ + 1] /\ (leg.again => line' = line)
    BY <1>1, <1>14 DEF NextLeg, Locals
  <2>2. leg'.at = leg.at + 1 /\ leg'.again = leg.again /\ leg'.start = leg.start
    BY <1>1, <2>1 DEF Typed, Legs
  <2>3. ASSUME NEW m PROVE Hindered(m)' = Hindered(m)
    BY <2>1 DEF Hindered, Candidates, Fresh, Pool
  <2>4. ASSUME Idle', NEW i \in 1..Len(line'), i < leg'.at PROVE Hindered(line[i])'
    <3>1. Idle /\ line' = line /\ Underway
      BY <2>1, <2>2, <2>4 DEF Idle, OutOfBudget, Underway, InPool
    <3>2. i < leg.at \/ i = leg.at
      BY <1>2, <2>2, <2>4
    <3> QED  BY <2>1, <2>3, <2>4, <3>1, <3>2 DEF Rounds
  <2>5. GivesUpOnlyHindered'
    BY <2>1 DEF GivesUpOnlyHindered, StoppedEarly
  <2>6. leg'.start <= req'.attempts
    BY <2>1, <2>2 DEF Rounds
  <2> QED  BY <2>1, <2>4, <2>5, <2>6 DEF Rounds, InPool
<1>15. CASE StartRound
  <2>1. CASE pc' = "enter"
    <3>1. leg'.at = 1 /\ leg'.start = req.attempts /\ req' = req /\ pc' = "enter"
      BY <1>15, <2>1 DEF StartRound, GiveUp
    <3>2. \A i \in 1..Len(line') : ~(i < leg'.at)
      BY <1>1, <3>1, CountersNatural DEF Typed
    <3>3. req'.attempts \in Nat /\ leg'.start <= req'.attempts
      BY <1>2, <3>1
    <3> QED  BY <3>1, <3>2, <3>3 DEF Rounds, InPool, GivesUpOnlyHindered, StoppedEarly
  <2>2. CASE pc' # "enter"
    <3>1. pc' = "over" /\ ~StoppedEarly'
      <4>1. CASE OutOfBudget /\ GiveUp(req.reason)
        <5>1. pc' = "over" /\ req'.attempts = req.attempts /\ UNCHANGED <<budget, late>>
          BY <1>1, <1>15, <4>1 DEF GiveUp, StartRound, Locals
        <5> QED  BY <1>2, <4>1, <5>1 DEF OutOfBudget, StoppedEarly
      <4>2. CASE GiveUp("attempt_budget")
        <5>1. pc' = "over" /\ req'.reason = "attempt_budget"
          BY <1>1, <4>2 DEF GiveUp, Locals
        <5> QED  BY <5>1 DEF StoppedEarly
      <4> QED  BY <1>15, <2>2, <4>1, <4>2 DEF StartRound
    <3> QED  BY <3>1 DEF Rounds, InPool, Underway, GivesUpOnlyHindered
  <2> QED  BY <2>1, <2>2
<1>16. CASE EndRound
  <2>1. pc = "enter" /\ leg.again /\ (leg.at > Len(line) \/ OutOfBudget)
        /\ UNCHANGED <<usable, returned, budget, late, line, leg, past>>
    BY <1>16 DEF EndRound
  <2>2. ASSUME NEW m PROVE req'.exhausted = req.exhausted => Hindered(m)' = Hindered(m) /\ Candidates(m)' = Candidates(m)
    BY <2>1 DEF Hindered, Candidates, Fresh, Pool
  <2>3. CASE NoProgress /\ GiveUp(req.reason)
    <3>1. pc' = "over" /\ req'.attempts = req.attempts /\ req'.exhausted = req.exhausted
      BY <1>1, <2>3 DEF GiveUp, Locals
    <3>2. ASSUME StoppedEarly', NEW i \in 1..Len(line') PROVE Hindered(line[i])'
      <4>1. Idle /\ Underway
        BY <1>2, <2>1, <2>3, <3>1, <3>2 DEF Idle, OutOfBudget, StoppedEarly, NoProgress, Underway
      <4>2. i < leg.at
        BY <1>2, <2>1, <3>2, <4>1 DEF Idle
      <4> QED  BY <2>1, <2>2, <3>1, <3>2, <4>1, <4>2 DEF Rounds
    <3>3. GivesUpOnlyHindered'
      BY <3>2 DEF GivesUpOnlyHindered, Hindered
    <3> QED  BY <3>1, <3>3 DEF Rounds, InPool, Underway
  <2>4. CASE pc' = "round" /\ UNCHANGED <<req, outcome>>
    <3>1. Idle' = Idle
      BY <2>1, <2>4 DEF Idle, OutOfBudget
    <3>2. GivesUpOnlyHindered'
      BY <2>4 DEF GivesUpOnlyHindered, StoppedEarly
    <3> QED  BY <2>1, <2>2, <2>4, <3>1, <3>2 DEF Rounds, InPool, Underway
  <2> QED  BY <1>16, <2>3, <2>4 DEF EndRound
<1>17. CASE Returns \/ Commit
  <2>1. pc \in {"upstream", "returned"} /\ pc' \in {"returned", "serving"} /\ UNCHANGED <<leg, req>>
    BY <1>17 DEF Returns, Commit
  <2>2. leg'.start <= req'.attempts
    BY <2>1 DEF Rounds
  <2> QED  BY <2>1, <2>2 DEF Rounds, InPool, Underway, GivesUpOnlyHindered, StoppedEarly
<1>18. ASSUME NEW f \in FinishFaults \cup {"success", "cancelled"}, Finish(f) PROVE Rounds'
  <2>1. CASE AlreadyFinished
    <3>1. pc = "over" /\ outcome = "served" /\ UNCHANGED <<pc, outcome>>
      BY <1>18, <2>1 DEF Finish, AlreadyFinished, Inv, Holdings
    <3> QED  BY <3>1, RoundsOver DEF Reasons
  <2>2. CASE ~AlreadyFinished
    BY <1>18, <2>2, RoundsOver DEF Finish, End, Reasons
  <2> QED  BY <2>1, <2>2
<1>19. ASSUME NEW f \in Faults, FailsBeforeOutput(f) PROVE Rounds'
  <2>1. pc' \in {"route", "over"} /\ (outcome' = "error" \/ (outcome' = outcome /\ outcome = "none"))
    BY <1>19 DEF FailsBeforeOutput, End, Inv, Holdings
  <2> QED  BY <2>1, RoundsOver DEF Reasons
<1>20. CASE Deadline
  <2>1. pc # "over" /\ late' = TRUE /\ UNCHANGED <<pc, leg, pool, req>>
    BY <1>20 DEF Deadline
  <2>2. ~Idle'
    BY <2>1 DEF Idle, OutOfBudget
  <2>3. MostTries(pool.candidates)' = MostTries(pool.candidates) /\ InPool' = InPool
    BY <2>1, MostTriesKept DEF InPool
  <2> QED  BY <2>1, <2>2, <2>3 DEF Rounds, GivesUpOnlyHindered, StoppedEarly
<1>21. CASE UNCHANGED vars
  <2>1. UNCHANGED <<pc, streaming, usable, late, budget, returned, line, leg, pool, req, outcome, past>>
    BY <1>21 DEF vars
  <2>2. ASSUME NEW m PROVE Hindered(m)' = Hindered(m) /\ Candidates(m)' = Candidates(m)
    BY <2>1 DEF Hindered, Candidates, Fresh, Pool
  <2>3. MostTries(pool.candidates)' = MostTries(pool.candidates) /\ InPool' = InPool /\ Idle' = Idle /\ Underway' = Underway
    BY <2>1, MostTriesKept DEF InPool, Idle, OutOfBudget, Underway
  <2>4. GivesUpOnlyHindered' = GivesUpOnlyHindered
    BY <2>1, <2>2 DEF GivesUpOnlyHindered, StoppedEarly
  <2> QED  BY <2>1, <2>2, <2>3, <2>4 DEF Rounds
<1> QED
  BY <1>3, <1>4, <1>5, <1>6, <1>7, <1>8, <1>9, <1>10, <1>11, <1>12, <1>13, <1>14, <1>15, <1>16,
     <1>17, <1>18, <1>19, <1>20, <1>21
  DEF Next, Advance

\* A request that gives up with attempts and time left was hindered in every pool
\* of its chain (the retry rounds of index.ts:1205-1235).
THEOREM OnlyHinderedGivesUp == Spec => []GivesUpOnlyHindered
<1>1. Init => Inv /\ Evenness /\ Rounds
  <2> SUFFICES ASSUME Init PROVE Inv /\ Evenness /\ Rounds
    OBVIOUS
  <2>1. Inv /\ Evenness
    BY InitiallyInvariant, InitiallyEven
  <2>2. pc = "route"
    BY DEF Init
  <2> QED  BY <2>1, <2>2 DEF Rounds, InPool, Underway, GivesUpOnlyHindered, StoppedEarly
<1>2. Inv /\ Evenness /\ Rounds /\ [Next]_vars => (Inv /\ Evenness /\ Rounds)'
  BY StepKeepsInvariant, StepKeepsEvenness, StepKeepsRounds
<1>3. Rounds => GivesUpOnlyHindered
  BY DEF Rounds
<1> QED  BY <1>1, <1>2, <1>3, PTL DEF Spec
-----------------------------------------------------------------------------
(* Where every chain is shorter than the limit, the reserve of the primary  *)
(* pool leaves an attempt for each of its models.  Reserve says that it is  *)
(* still there when a pool is entered, and what a pool may use of it, for   *)
(* as long as no stream has failed: the first route() has the whole limit.  *)
\* Attempts that the pool in hand leaves to those after it.
LeftToOthers == IF leg.at = 1 THEN Longest ELSE Len(line) - leg.at

Reserve ==
    earlier = 0 =>
        /\ past.starved = {}
        /\ pc \in {"enter", "round"} /\ ~leg.again /\ leg.at = 1 => req.attempts = 0
        /\ pc = "enter" /\ ~leg.again /\ leg.at > 1 => budget - req.attempts > Len(line) - leg.at
        /\ InPool /\ ~leg.again =>
              /\ req.attempts <= pool.start + pool.cap
              /\ pc = "admission" => req.attempts < pool.start + pool.cap
              /\ pool.start + pool.cap + LeftToOthers <= budget

\* The pool that is entered may make an attempt, and leaves what it must.
LEMMA EnteredWithReserve ==
    ASSUME Inv, Reserve, ChainsFit, earlier = 0, pc = "enter", leg.at <= Len(line),
           leg.again => ~OutOfBudget
    PROVE  LET cap == Max({0, Min({PoolLimit, budget - req.attempts})})
           IN  cap > 0 /\ (~leg.again => req.attempts + cap + LeftToOthers <= budget)
<1> DEFINE left == budget - req.attempts
           room == Len(line) - leg.at
           cap == Max({0, Min({PoolLimit, left})})
<1>1. Typed
  BY DEF Inv
<1>2. budget = MaxAttempts /\ MaxAttempts \in Nat \ {0}
  BY <1>1, Parameters DEF Inv, Counts, Typed
<1>3. req.attempts \in Nat /\ leg.at \in Nat \ {0} /\ Len(line) \in Nat /\ left \in Int /\ room \in Nat
  BY <1>1, <1>2, CountersNatural
<1>4. Longest \in Nat /\ Longest < MaxAttempts
  BY <1>1, LongestIsLongest DEF Typed
<1>5. CASE leg.again
  <2>1. left >= 1 /\ PoolLimit = 1
    BY <1>2, <1>3, <1>5 DEF OutOfBudget, PoolLimit
  <2>2. Min({PoolLimit, left}) = 1
    BY <1>3, <2>1, SmallerOfTwo
  <2>3. cap = 1
    BY <2>2, LargerOfTwo
  <2> QED  BY <1>5, <2>3
<1>6. CASE ~leg.again /\ leg.at = 1
  <2>1. req.attempts = 0
    BY <1>6 DEF Reserve
  <2>2. Max({0, budget - 1}) = budget - 1
    BY <1>2, LargerOfTwo
  <2>3. Reserved = Longest
    <3> DEFINE most == budget - 1
    <3>1. most \in Int /\ Longest \in Int /\ Longest <= most
      BY <1>2, <1>4
    <3>2. Reserved = Min({Longest, most})
      BY <2>2 DEF Reserved
    <3> HIDE DEF most
    <3> QED  BY <3>1, <3>2, SmallerOfTwo
  <2> DEFINE most == budget - Longest
  <2>4. most \in Int /\ most >= 1 /\ most <= left
    BY <1>2, <1>3, <1>4, <2>1
  <2>5. PoolLimit = Max({1, most})
    BY <1>6, <2>3 DEF PoolLimit
  <2> HIDE DEF most
  <2>6. PoolLimit = most
    BY <2>4, <2>5, LargerOfTwo
  <2>7. Min({PoolLimit, left}) = most
    BY <1>3, <2>4, <2>6, SmallerOfTwo
  <2>8. cap = most
    <3>1. Max({0, most}) = most
      BY <2>4, LargerOfTwo
    <3> QED  BY <2>7, <3>1
  <2> QED  BY <1>2, <1>4, <1>6, <2>1, <2>4, <2>8 DEF most, LeftToOthers
<1>7. CASE ~leg.again /\ leg.at # 1
  <2> DEFINE most == left - room
  <2>1. most \in Int /\ most >= 1 /\ most <= left
    BY <1>2, <1>3, <1>7 DEF Reserve
  <2>2. PoolLimit = Max({0, most})
    <3>1. PoolLimit = Max({0, budget - req.attempts - (Len(line) - leg.at)})
      BY <1>7 DEF PoolLimit
    <3> QED  BY <3>1
  <2> HIDE DEF most
  <2>3. PoolLimit = most
    BY <2>1, <2>2, LargerOfTwo
  <2>4. Min({PoolLimit, left}) = most
    BY <1>3, <2>1, <2>3, SmallerOfTwo
  <2>5. cap = most
    <3>1. Max({0, most}) = most
      BY <2>1, LargerOfTwo
    <3> QED  BY <2>4, <3>1
  <2>6. req.attempts + most + LeftToOthers = budget
    BY <1>2, <1>3, <1>7 DEF LeftToOthers, most
  <2> QED  BY <1>2, <2>1, <2>5, <2>6
<1> QED  BY <1>5, <1>6, <1>7

\* Every action keeps the reserve.
LEMMA StepKeepsReserve == Inv /\ Reserve /\ ChainsFit /\ [Next]_vars => Reserve'
<1> SUFFICES ASSUME Inv, Reserve, ChainsFit, [Next]_vars PROVE Reserve'
  OBVIOUS
<1> USE DEF request, done
<1>1. Typed /\ Typed' /\ req \in Locals /\ pool \in Pools /\ past \in Histories
  BY StepKeepsInvariant DEF Inv, Typed
<1>2. /\ req.attempts \in Nat /\ leg.at \in Nat \ {0} /\ earlier \in Nat
      /\ pool.start \in Nat /\ pool.cap \in Nat /\ budget \in Nat /\ Len(line) \in Nat
  BY <1>1, CountersNatural, Parameters DEF Typed
<1>3. Longest \in Nat /\ Longest' = Longest /\ streaming \in BOOLEAN
  <2>1. streaming' = streaming
    BY DEF Next, Advance, StartRoute, ModelNotFound, EnterPool, LeavePool, Choose, QuotaRefused,
           AdmissionRefused, AdmissionFails, Admitted, Begin, Fails, FailsBeforeOutput, Backoff, Stops,
           NextLeg, StartRound, EndRound, Returns, Commit, Finish, Deadline, vars
  <2> QED  BY <1>1, <2>1, LongestIsLongest DEF Longest, Chains, Typed
<1>4. CASE StartRoute
  <2>1. pc' = "enter" /\ leg'.again = FALSE /\ leg'.at = 1 /\ req'.attempts = 0 /\ past'.starved = {}
    BY <1>1, <1>4 DEF StartRoute, Blank, Histories
  <2> QED  BY <2>1 DEF Reserve, InPool
<1>5. CASE EnterPool
  <2> DEFINE cap == Max({0, Min({PoolLimit, budget - req.attempts})})
  <2>1. /\ pc = "enter" /\ leg.at <= Len(line) /\ (leg.again => ~OutOfBudget)
        /\ pc' \in {"ended", "loop"} /\ pool'.start = req.attempts /\ pool'.cap = cap
        /\ UNCHANGED <<earlier, budget, line, leg, req>>
    BY <1>5 DEF EnterPool, NoPool
  <2>2. earlier = 0 => cap > 0 /\ (~leg.again => req.attempts + cap + LeftToOthers <= budget)
    BY <2>1, EnteredWithReserve
  <2>3. cap > 0 => past' = past
    BY <1>5 DEF EnterPool
  <2>4. LeftToOthers' = LeftToOthers
    BY <1>3, <2>1 DEF LeftToOthers
  <2>5. cap \in Nat
    <3>1. pool'.cap \in Nat
      BY <1>1, Parameters DEF Typed, Pools
    <3> QED  BY <2>1, <3>1
  <2> HIDE DEF cap
  <2>6. earlier = 0 => cap > 0 /\ req.attempts <= req.attempts + cap
    BY <1>2, <2>2, <2>5
  <2> QED  BY <2>1, <2>2, <2>3, <2>4, <2>6 DEF Reserve, InPool
<1>6. CASE LeavePool \/ Backoff
  <2>1. /\ pc \in {"loop", "backoff"} /\ pc' \in {"loop", "ended"} /\ UNCHANGED <<earlier, budget, line, leg, req>>
        /\ pool'.start = pool.start /\ pool'.cap = pool.cap /\ past'.starved = past.starved
    BY <1>1, <1>6 DEF LeavePool, Backoff, EndPool, Pools, Histories
  <2> QED  BY <1>3, <2>1 DEF Reserve, InPool, LeftToOthers
<1>7. ASSUME NEW d \in Deployments, Choose(d) PROVE Reserve'
  <2>1. /\ pc = "loop" /\ pc' \in {"loop", "admission"} /\ UNCHANGED <<earlier, budget, line, leg, req, past>>
        /\ pool'.start = pool.start /\ pool'.cap = pool.cap /\ ~PoolUsedUp
    BY <1>1, <1>7 DEF Choose, Pools
  <2>2. req.attempts < pool.start + pool.cap
    BY <1>2, <2>1 DEF PoolUsedUp
  <2> QED  BY <1>3, <2>1, <2>2 DEF Reserve, InPool, LeftToOthers
<1>8. CASE QuotaRefused \/ AdmissionRefused
  <2>1. /\ pc = "admission" /\ pc' = "loop" /\ UNCHANGED <<earlier, budget, line, leg, past>>
        /\ pool'.start = pool.start /\ pool'.cap = pool.cap /\ req'.attempts = req.attempts
    BY <1>1, <1>8 DEF QuotaRefused, AdmissionRefused, SetAside, Pools, Locals
  <2> QED  BY <1>3, <2>1 DEF Reserve, InPool, LeftToOthers
<1>9. CASE Admitted
  <2>1. /\ pc = "admission" /\ pc' = "begin" /\ UNCHANGED <<earlier, budget, line, leg, past, pool>>
        /\ req'.attempts = req.attempts + 1
    BY <1>1, <1>9 DEF Admitted, Counted, Locals
  <2>2. earlier = 0 /\ ~leg.again => req.attempts + 1 <= pool.start + pool.cap
    BY <1>2, <2>1 DEF Reserve, InPool
  <2> QED  BY <1>3, <2>1, <2>2 DEF Reserve, InPool, LeftToOthers
<1>10. ASSUME NEW f \in Faults, Fails(f) PROVE Reserve'
  <2>1. /\ pc = "upstream" /\ pc' \in {"loop", "backoff"} /\ UNCHANGED <<earlier, budget, line, leg>>
        /\ pool'.start = pool.start /\ pool'.cap = pool.cap /\ req'.attempts = req.attempts
    BY <1>1, <1>10 DEF Fails, Pools, Locals
  <2>2. past'.starved = past.starved
    BY <1>1, <1>10 DEF Fails, Charging, Histories
  <2> QED  BY <1>3, <2>1, <2>2 DEF Reserve, InPool, LeftToOthers
<1>11. CASE NextLeg
  <2>1. /\ pc = "ended" /\ pc' \in {"enter", "round"} /\ UNCHANGED <<earlier, budget, past>>
        /\ req'.attempts = req.attempts /\ leg' = [leg EXCEPT !.at = @ + 1]
    BY <1>1, <1>11 DEF NextLeg, Locals
  <2>2. leg'.at = leg.at + 1 /\ leg'.again = leg.again /\ leg'.at # 1
    BY <1>1, <1>2, <2>1 DEF Typed, Legs
  <2>3. ASSUME earlier = 0, ~leg.again PROVE budget - req.attempts > Len(line') - leg'.at
    <3>1. req.attempts <= pool.start + pool.cap /\ pool.start + pool.cap + LeftToOthers <= budget
      BY <2>1, <2>3 DEF Reserve, InPool
    <3>2. CASE leg.at = 1
      <4>1. line' = <<Primary>> \o ChainFor(FallbackReason)
        BY <1>11, <2>3, <3>2 DEF NextLeg
      <4>2. ChainFor(FallbackReason) \in Seq(Models) /\ Len(ChainFor(FallbackReason)) <= Longest
        <5>1. Len(ChainFor(FallbackReason)) <= Longest
          <6>1. CASE FallbackReason \in DOMAIN Chains
            BY <1>3, <6>1, LongestIsLongest DEF ChainFor
          <6>2. CASE FallbackReason \notin DOMAIN Chains
            BY <1>3, <6>2 DEF ChainFor
          <6> QED  BY <6>1, <6>2
        <5>2. ChainFor(FallbackReason) \in Seq(Models)
          BY <1>3, RouterAssumption DEF RouterAssumption, ChainFor, Chains
        <5> QED  BY <5>1, <5>2
      <4>3. Len(line') = 1 + Len(ChainFor(FallbackReason)) /\ Len(ChainFor(FallbackReason)) \in Nat
        BY <4>1, <4>2
      <4>4. LeftToOthers = Longest
        BY <3>2 DEF LeftToOthers
      <4> QED  BY <1>2, <1>3, <2>2, <3>1, <3>2, <4>2, <4>3, <4>4
    <3>3. CASE leg.at # 1
      <4>1. line' = line /\ LeftToOthers = Len(line) - leg.at
        BY <1>2, <1>11, <3>3 DEF NextLeg, LeftToOthers
      <4> QED  BY <1>2, <2>2, <3>1, <4>1
    <3> QED  BY <3>2, <3>3
  <2> QED  BY <2>1, <2>2, <2>3 DEF Reserve, InPool
<1>12. CASE StartRound \/ EndRound
  <2>1. UNCHANGED <<earlier, past>> /\ (pc' = "over" \/ (pc' \in {"enter", "round"} /\ leg'.again))
    BY <1>12 DEF StartRound, EndRound, GiveUp
  <2> QED  BY <2>1 DEF Reserve, InPool
<1>13. CASE ModelNotFound \/ AdmissionFails \/ Stops \/ Returns \/ Commit
  <2>1. UNCHANGED <<earlier, past>> /\ pc' \in {"over", "returned", "serving"}
    BY <1>13 DEF ModelNotFound, AdmissionFails, Stops, Returns, Commit, End
  <2> QED  BY <2>1 DEF Reserve, InPool
<1>14. CASE Begin
  <2>1. pc = "begin" /\ pc' \in {"upstream", "over"} /\ UNCHANGED <<earlier, budget, line, leg, past, pool, req>>
    BY <1>14 DEF Begin, End
  <2> QED  BY <1>3, <2>1 DEF Reserve, InPool, LeftToOthers
<1>15. ASSUME NEW f \in FinishFaults \cup {"success", "cancelled"}, Finish(f) PROVE Reserve'
  <2>1. pc' \in {pc, "over"} /\ pc \in {"serving", "over"} /\ UNCHANGED earlier
    BY <1>15 DEF Finish, End, Inv, Holdings
  <2>2. past'.starved = past.starved
    BY <1>1, <1>15 DEF Finish, FinishedPast, Charging, Histories
  <2> QED  BY <2>1, <2>2 DEF Reserve, InPool
<1>16. ASSUME NEW f \in Faults, FailsBeforeOutput(f) PROVE Reserve'
  <2>1. pc' \in {"route", "over"} /\ earlier' = earlier + req.attempts
    BY <1>16 DEF FailsBeforeOutput, End
  <2>2. past'.starved = past.starved
    BY <1>1, <1>16 DEF FailsBeforeOutput, FinishedPast, Charging, Histories
  <2>3. earlier' = 0 => earlier = 0
    BY <1>2, <2>1
  <2> QED  BY <2>1, <2>2, <2>3 DEF Reserve, InPool
<1>17. CASE Deadline \/ UNCHANGED vars
  <2>1. UNCHANGED <<pc, earlier, budget, line, leg, past, pool, req>>
    BY <1>17 DEF Deadline, vars
  <2> QED  BY <1>3, <2>1 DEF Reserve, InPool, LeftToOthers
<1> QED
  BY <1>4, <1>5, <1>6, <1>7, <1>8, <1>9, <1>10, <1>11, <1>12, <1>13, <1>14, <1>15, <1>16, <1>17
  DEF Next, Advance

\* Where every chain is shorter than the limit of attempts, deployments are chosen
\* evenly within a pool, pools in the order of the chain, and giving up is the last
\* choice. With a longer chain the code passes models over (router/index.ts:1199).
THEOREM RequestsChooseInTurn == ChainsFit => (Spec => []ChosenInTurn)
<1> SUFFICES ASSUME ChainsFit PROVE Spec => []ChosenInTurn
  OBVIOUS
<1>1. Init => Inv /\ Reserve
  <2> SUFFICES ASSUME Init PROVE Inv /\ Reserve
    OBVIOUS
  <2>1. pc = "route" /\ past.starved = {}
    BY DEF Init
  <2> QED  BY <2>1, InitiallyInvariant DEF Reserve, InPool
<1>2. Inv /\ Reserve /\ [Next]_vars => (Inv /\ Reserve)'
  BY StepKeepsInvariant, StepKeepsReserve
<1>3. Reserve => FallbacksInOrder
  BY DEF Reserve, FallbacksInOrder
<1>4. EvenUse /\ FallbacksInOrder /\ GivesUpOnlyHindered => ChosenInTurn
  BY DEF ChosenInTurn
<1> QED  BY <1>1, <1>2, <1>3, <1>4, CandidatesUsedEvenly, OnlyHinderedGivesUp, PTL DEF Spec
=============================================================================
