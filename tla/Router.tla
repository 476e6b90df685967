------------------------------- MODULE Router -------------------------------
(***************************************************************************)
(* One logical request through route() of router/index.ts, and through     *)
(* routeChat() of endpoints/runtime/parameterPolicy.ts, which re-enters    *)
(* route() when a stream fails before its first semantic frame.            *)
(*                                                                         *)
(* The other requests are the environment: what the circuits, the          *)
(* deployment admission and the quota of the key answer is a choice, and   *)
(* the modules CircuitBreaker, AttemptAdmission and KeyBudget say how they *)
(* answer.  pickDeployment may pick any candidate it is given.  The        *)
(* pre-output deadline may pass at any moment.                             *)
(***************************************************************************)
EXTENDS Integers, FiniteSets, Sequences, FiniteSetsExt

CONSTANTS
    Models,       \* public models
    Deployments,  \* deployment rows
    PoolOf,       \* the deployments of a public model
    CapacityOf,   \* the capacity subject (failure domain) of a deployment
    Primary,      \* the model the client asked for
    ChainsOf,     \* its fallback chain for each configured failure reason,
                  \* by whether the request is a stream
    MaxAttempts,  \* executionPolicy.maxAttempts
    Faults,       \* the failures upstream may answer with
    None,         \* no deployment
    Serving       \* the deployments fit for a request, by whether it is a stream

FallbackReasons == {"general", "context_window", "content_policy"}

(***************************************************************************)
(* Failures, by what the router makes of them.  A gateway error carries a  *)
(* failureKind, deploymentHealth, retryable and class: "transient" is      *)
(* penalised and "neutral" transient without penalty; "request" and the    *)
(* two content classes share failureKind "request".                        *)
(***************************************************************************)
AllFaults == {"transient", "neutral", "throttle", "configuration", "request",
              "context_window", "content_policy", "gateway"}
Retryable == {"transient", "neutral", "throttle"}
Penalised == {"transient", "configuration"}
ReasonOf(f) == IF f \in {"context_window", "content_policy"} THEN f ELSE "general"

ASSUME RouterAssumption ==
    /\ PoolOf \in [Models -> SUBSET Deployments]
    /\ \A m, n \in Models : m # n => PoolOf[m] \cap PoolOf[n] = {}
    /\ IsFiniteSet(Deployments)
    /\ DOMAIN CapacityOf = Deployments
    /\ Primary \in Models
    /\ \A stream \in BOOLEAN :
          /\ DOMAIN ChainsOf[stream] \subseteq FallbackReasons
          /\ \A r \in DOMAIN ChainsOf[stream] : ChainsOf[stream][r] \in Seq(Models \ {Primary})
    /\ MaxAttempts \in Nat \ {0}
    /\ Faults \subseteq AllFaults
    /\ Serving \in [BOOLEAN -> SUBSET Deployments]

VARIABLES
    pc,        \* where the request is
    streaming, \* whether the request is a stream
    usable,    \* deployments enabled for the operation and compatible with it
    late,      \* whether the pre-output deadline has passed
    budget,    \* attemptLimit of the current route() call
    earlier,   \* attempts of the earlier route() calls (failedAttempts)
    returned,  \* deployments whose returned stream failed (previouslyFailed)
    line,      \* the primary and, once chosen, its fallback models
    leg,       \* position in line, and whether this is a retry round
    pool,      \* locals of tryPublicModel
    req,       \* locals of route()
    chosen,    \* deployment of the current attempt, its half-open subjects
    held,      \* quota leases, attempt leases and probes not handed back
    settled,   \* whether finish() has run
    outcome,   \* how the request ended
    past       \* auxiliary: what happened over the whole logical request

vars == <<pc, streaming, usable, late, budget, earlier, returned, line, leg, pool, req,
          chosen, held, settled, outcome, past>>
request == <<streaming, usable, budget, earlier, returned>>
done == <<settled, outcome>>
-----------------------------------------------------------------------------
Chains == ChainsOf[streaming]

\* One reason shared by all failures of a pool selects its own chain.
FallbackReasonFor(causes) ==
    IF Cardinality(causes) = 1 THEN CHOOSE r \in causes : TRUE ELSE "general"

ChainFor(reason) == IF reason \in DOMAIN Chains THEN Chains[reason] ELSE <<>>

NoAttempt == [deployment |-> None, halfOpen |-> {}]
Nothing == [quota |-> 0, lease |-> 0, probes |-> {}]
Sides == {"deployment", "capacity"}

\* Handing back some of "quota", "lease" and "permit".
Without(things) ==
    [quota |-> IF "quota" \in things THEN held.quota - 1 ELSE held.quota,
     lease |-> IF "lease" \in things THEN held.lease - 1 ELSE held.lease,
     probes |-> IF "permit" \in things THEN {} ELSE held.probes]

EndAttempt(things) ==
    /\ held' = Without(things)
    /\ chosen' = NoAttempt
-----------------------------------------------------------------------------
Blank == [attempts |-> 0, tried |-> [d \in Deployments |-> 0], exhausted |-> {},
          counted |-> {}, failed |-> FALSE, neutral |-> FALSE,
          transient |-> FALSE, reason |-> "exhausted"]

NoPool == [candidates |-> {}, cap |-> 0, start |-> 0, per |-> 0, barred |-> {},
           full |-> {}, limited |-> {}, reason |-> "exhausted", causes |-> {}]

Init ==
    /\ pc = "route"
    /\ streaming \in BOOLEAN
    /\ usable \in SUBSET Serving[streaming]
    /\ late = FALSE
    /\ budget = MaxAttempts
    /\ earlier = 0
    /\ returned = {}
    /\ line = <<Primary>>
    /\ leg = [again |-> FALSE, at |-> 1, start |-> 0]
    /\ pool = NoPool
    /\ req = Blank
    /\ chosen = NoAttempt
    /\ held = Nothing
    /\ settled = FALSE
    /\ outcome = "none"
    /\ past = [charged |-> [d \in Deployments |-> 0], spent |-> {},
               starved |-> {}, refused |-> {}]

Pool(m) == PoolOf[m] \cap usable
Fresh(m) == Pool(m) \ returned
Candidates(m) == IF Fresh(m) # {} THEN Fresh(m) ELSE Pool(m)

OutOfBudget == req.attempts >= budget \/ late

End(o) ==
    /\ pc' = "over"
    /\ outcome' = o

\* route() starts over with fresh locals; only previouslyFailed survives.
StartRoute ==
    /\ pc = "route"
    /\ PoolOf[Primary] # {}
    /\ pc' = "enter"
    /\ line' = <<Primary>>
    /\ leg' = [again |-> FALSE, at |-> 1, start |-> 0]
    /\ pool' = NoPool
    /\ req' = Blank
    /\ past' = [past EXCEPT !.starved = {}, !.refused = {}]
    /\ UNCHANGED <<request, late, chosen, held, done>>

ModelNotFound ==
    /\ pc = "route"
    /\ Pool(Primary) = {}
    /\ End("model_not_found")
    /\ UNCHANGED <<request, late, line, leg, pool, req, chosen, held, settled, past>>
-----------------------------------------------------------------------------
(* tryPublicModel: entering the pool of the next model in line. *)

Longest == Max({0} \cup {Len(Chains[r]) : r \in DOMAIN Chains})

\* Mutated form: nothing is kept for the fallbacks.
ReservedNone == 0

\* Attempts the primary pool must leave for the longest chain it may need.
Reserved == Min({Longest, Max({0, budget - 1})})

PoolLimit ==
    IF leg.again THEN 1
    ELSE IF leg.at = 1 THEN Max({1, budget - Reserved})
    ELSE Max({0, budget - req.attempts - (Len(line) - leg.at)})

\* Mutated form: every deployment may use up the budget of the request.
MostTriesUnbounded(candidates) == budget

\* A deployment is used once more than the least used candidate.
MostTries(candidates) ==
    LET reusable == candidates \ req.exhausted
    IN  IF reusable = {} THEN 0 ELSE Min({req.tried[d] : d \in reusable}) + 1

\* Circuits seen open in the snapshot bar their deployment or capacity.
EnterPool ==
    /\ pc = "enter"
    /\ leg.at <= Len(line)
    /\ leg.again => ~OutOfBudget
    /\ LET cands == Candidates(line[leg.at])
           cap == Max({0, Min({PoolLimit, budget - req.attempts})})
       IN  /\ \E barred \in SUBSET cands, full \in SUBSET {CapacityOf[d] : d \in cands} :
                 pool' = [NoPool EXCEPT
                             !.candidates = cands, !.cap = cap, !.start = req.attempts,
                             !.per = MostTries(cands), !.barred = barred, !.full = full,
                             !.reason = IF cands = {} THEN "no_candidates" ELSE "exhausted"]
           /\ pc' = IF cands = {} THEN "ended" ELSE "loop"
           /\ past' = IF cands # {} /\ cap = 0 /\ ~OutOfBudget
                      THEN [past EXCEPT !.starved = @ \cup {leg.at}]
                      ELSE past
    /\ UNCHANGED <<request, late, line, leg, req, chosen, held, done>>
-----------------------------------------------------------------------------
(* The selection loop of tryPublicModel. *)

PoolUsedUp == req.attempts - pool.start >= pool.cap

Refused(d) == d \in pool.barred \/ d \in pool.limited \/ CapacityOf[d] \in pool.full

\* Mutated form: deployments exhausted by this request are selected again.
SelectableIgnoringErrors ==
    {d \in pool.candidates : req.tried[d] < pool.per /\ ~Refused(d)}

Selectable ==
    {d \in pool.candidates :
        d \notin req.exhausted /\ req.tried[d] < pool.per /\ ~Refused(d)}

LeastTried ==
    {d \in Selectable : \A e \in Selectable : req.tried[d] <= req.tried[e]}

EndPool(reason) ==
    /\ pc' = "ended"
    /\ pool' = [pool EXCEPT !.reason = reason]
    /\ past' = [past EXCEPT !.refused =
                   {d \in @ : d \notin pool.candidates}
                   \cup {d \in pool.candidates : Refused(d)}]

LeavePool ==
    /\ pc = "loop"
    /\ \/ /\ OutOfBudget
          /\ EndPool("attempt_budget")
       \/ /\ ~OutOfBudget /\ PoolUsedUp
          /\ EndPool(pool.reason)
       \/ /\ ~OutOfBudget /\ ~PoolUsedUp /\ LeastTried = {}
          /\ EndPool(IF pool.limited \cup pool.full # {} THEN "rate_limited"
                     ELSE IF pool.barred # {} THEN "cooldown"
                     ELSE pool.reason)
    /\ UNCHANGED <<request, late, line, leg, req, chosen, held, done>>

\* acquireCircuitPermit refuses, or grants a permit that owns some probes.
Choose(d) ==
    /\ pc = "loop"
    /\ ~OutOfBudget /\ ~PoolUsedUp
    /\ d \in LeastTried
    /\ \/ /\ pool' = [pool EXCEPT !.barred = @ \cup {d}, !.reason = "cooldown"]
          /\ UNCHANGED <<pc, chosen, held>>
       \/ /\ pool' = [pool EXCEPT !.full = @ \cup {CapacityOf[d]},
                                  !.reason = "rate_limited"]
          /\ UNCHANGED <<pc, chosen, held>>
       \/ /\ \E halfOpen \in SUBSET Sides :
                /\ chosen' = [deployment |-> d, halfOpen |-> halfOpen]
                /\ held' = [held EXCEPT !.probes = @ \cup halfOpen]
          /\ pc' = "admission"
          /\ UNCHANGED pool
    /\ UNCHANGED <<request, late, line, leg, req, done, past>>
-----------------------------------------------------------------------------
(* Admission: the quota of the key, then the limits of the deployment. *)

\* Mutated form: the deployment that was refused may be picked again.
SetAsideNothing(d) == [pool EXCEPT !.reason = "rate_limited"]

SetAside(d) ==
    [pool EXCEPT !.limited = @ \cup {d}, !.reason = "rate_limited"]

\* usageQuota.reserve throws budget_exceeded or rate_limit_exceeded.
QuotaRefused ==
    /\ pc = "admission"
    /\ pc' = "loop"
    /\ pool' = SetAside(chosen.deployment)
    /\ req' = [req EXCEPT !.neutral = TRUE]
    /\ EndAttempt({"permit"})
    /\ UNCHANGED <<request, late, line, leg, done, past>>

HandedBackByRefusal == {"quota", "permit"}

\* The quota is reserved, then onAttemptStart refuses the deployment.
AdmissionRefused ==
    /\ pc = "admission"
    /\ pc' = "loop"
    /\ pool' = SetAside(chosen.deployment)
    /\ held' = [Without(HandedBackByRefusal) EXCEPT !.quota = @ + 1]
    /\ chosen' = NoAttempt
    /\ UNCHANGED <<request, late, line, leg, req, done, past>>

\* Redis fails in either call; only what was granted is handed back.
AdmissionFails ==
    /\ pc = "admission"
    /\ End("error")
    /\ EndAttempt({"permit"})
    /\ UNCHANGED <<request, late, line, leg, pool, req, settled, past>>

Counted(d) == [req EXCEPT !.tried[d] = @ + 1, !.attempts = @ + 1]

Admitted ==
    /\ pc = "admission"
    /\ req' = Counted(chosen.deployment)
    /\ held' = [held EXCEPT !.quota = @ + 1, !.lease = @ + 1]
    /\ pc' = "begin"
    /\ UNCHANGED <<request, late, line, leg, pool, chosen, done, past>>

Cancelled == {"lease", "permit"}

\* The attempt is persisted before upstream is contacted, or not attempted.
Begin ==
    /\ pc = "begin"
    /\ \/ /\ pc' = "upstream"
          /\ UNCHANGED <<chosen, held, outcome>>
       \/ /\ End("error")
          /\ EndAttempt({"quota"} \cup Cancelled)
    /\ UNCHANGED <<request, late, line, leg, pool, req, settled, past>>
-----------------------------------------------------------------------------
(* The catch path of an attempt: execute() threw. *)

\* A deployment is charged once per route() call, unless it was being probed.
FirstSignal ==
    \/ chosen.deployment \notin req.counted
    \/ "deployment" \in chosen.halfOpen

\* recordTransientFailure settles both subjects, but on the first signal only.
HandedBackBy(f) ==
    {"quota", "lease"} \cup IF f = "transient" /\ ~FirstSignal THEN {} ELSE {"permit"}

Charging == [past EXCEPT !.charged[chosen.deployment] =
                 IF "deployment" \in chosen.halfOpen THEN @ ELSE @ + 1]

HasAttemptsLeft(exhausted) ==
    \E d \in pool.candidates : d \notin exhausted /\ req.tried[d] < pool.per

Fails(f) ==
    /\ pc = "upstream"
    /\ LET d == chosen.deployment
           exhausted == IF f \in Retryable THEN req.exhausted ELSE req.exhausted \cup {d}
           charges == f = "transient" /\ FirstSignal
           history == IF charges THEN Charging ELSE past
       IN  /\ req' = [req EXCEPT
                         !.exhausted = exhausted,
                         !.counted = IF charges THEN @ \cup {d} ELSE @,
                         !.failed = @ \/ f \in Penalised,
                         !.neutral = @ \/ f \notin Penalised,
                         !.transient = f \in {"transient", "neutral"}]
           /\ past' = [history EXCEPT !.spent = IF f \in Retryable THEN @ ELSE @ \cup {d}]
           /\ pc' = IF /\ f \in {"transient", "neutral"}
                       /\ HasAttemptsLeft(exhausted)
                       /\ req.attempts < budget
                       /\ ~PoolUsedUp
                    THEN "backoff" ELSE "loop"
    /\ pool' = [pool EXCEPT !.causes = @ \cup {ReasonOf(f)}]
    /\ EndAttempt(HandedBackBy(f))
    /\ UNCHANGED <<request, late, line, leg, done>>

\* The delay fits before the deadline, or the pool is given up.
Backoff ==
    /\ pc = "backoff"
    /\ \/ pc' = "loop" /\ UNCHANGED <<pool, past>>
       \/ EndPool("attempt_budget")
    /\ UNCHANGED <<request, late, line, leg, req, chosen, held, done>>

\* The client left, or the failure is scoped to the request.
Stops ==
    /\ pc = "upstream"
    /\ End("error")
    /\ EndAttempt({"quota"} \cup Cancelled)
    /\ UNCHANGED <<request, late, line, leg, pool, req, settled, past>>
-----------------------------------------------------------------------------
(* From one pool to the next: fallbacks, then retry rounds. *)

FallbackReason ==
    IF pool.reason = "exhausted" THEN FallbackReasonFor(pool.causes) ELSE "general"

NextLeg ==
    /\ pc = "ended"
    /\ LET models == IF leg.again \/ leg.at > 1 THEN line
                     ELSE <<Primary>> \o ChainFor(FallbackReason)
           more == leg.at < Len(models)
       IN  /\ line' = models
           /\ pc' = IF leg.again \/ more THEN "enter" ELSE "round"
           /\ leg' = [leg EXCEPT !.at = @ + 1]
    /\ req' = [req EXCEPT !.reason = pool.reason]
    /\ pool' = NoPool
    /\ UNCHANGED <<request, late, chosen, held, done, past>>

\* Neutral candidate errors outrank the routing error when nobody was penalised.
GiveUp(reason) ==
    /\ pc' = "over"
    /\ req' = [req EXCEPT !.reason = reason]
    /\ IF ~req.failed /\ req.neutral THEN outcome' = "neutral"
       ELSE \/ outcome' = reason
            \/ req.attempts = 0 /\ usable # Deployments /\ outcome' = "ineligible"

StartRound ==
    /\ pc = "round"
    /\ \/ /\ OutOfBudget
          /\ GiveUp(req.reason)
          /\ UNCHANGED leg
       \/ /\ ~OutOfBudget /\ req.transient
          /\ GiveUp("attempt_budget")
          /\ UNCHANGED leg
       \/ /\ ~OutOfBudget
          /\ leg' = [again |-> TRUE, at |-> 1, start |-> req.attempts]
          /\ pc' = "enter"
          /\ UNCHANGED <<req, outcome>>
    /\ UNCHANGED <<request, late, line, pool, chosen, held, settled, past>>

\* Mutated form: there is one retry round only.
NoProgressAlways == TRUE

NoProgress == req.attempts = leg.start

EndRound ==
    /\ pc = "enter" /\ leg.again
    /\ leg.at > Len(line) \/ OutOfBudget
    /\ IF NoProgress THEN GiveUp(req.reason)
       ELSE pc' = "round" /\ UNCHANGED <<req, outcome>>
    /\ UNCHANGED <<request, late, line, leg, pool, chosen, held, settled, past>>
-----------------------------------------------------------------------------
(* execute() returned: finish() settles the attempt, once. *)

Returns ==
    /\ pc = "upstream"
    /\ pc' = IF streaming THEN "returned" ELSE "serving"
    /\ UNCHANGED <<request, late, line, leg, pool, req, chosen, held, done, past>>

\* routeChat: the first semantic frame, or the terminal, commits the stream.
Commit ==
    /\ pc = "returned"
    /\ pc' = "serving"
    /\ UNCHANGED <<request, late, line, leg, pool, req, chosen, held, done, past>>

\* finish() does not consult countedTransientDeployments.
FinishedPast(f) == IF f = "transient" THEN Charging ELSE past

FinishFaults == IF streaming THEN Faults ELSE {"gateway"}

\* Mutated form: finish() does not remember that it has run.
FinishesTwice == FALSE

AlreadyFinished == settled

\* Endpoints may call finish() again, from a finally or an error handler.
Finish(f) ==
    /\ pc = "serving" \/ outcome = "served"
    /\ IF AlreadyFinished
       THEN UNCHANGED <<pc, chosen, held, settled, outcome, past>>
       ELSE /\ EndAttempt({"quota", "lease", "permit"})
            /\ settled' = TRUE
            /\ past' = FinishedPast(f)
            /\ End("served")
    /\ UNCHANGED <<request, late, line, leg, pool, req>>

RemainingAttempts(used) == MaxAttempts - used

\* The stream failed before any output: settle it, then give up or route again.
FailsBeforeOutput(f) ==
    /\ pc = "returned"
    /\ EndAttempt({"quota", "lease", "permit"})
    /\ past' = FinishedPast(f)
    /\ earlier' = earlier + req.attempts
    /\ returned' = returned \cup {chosen.deployment}
    /\ budget' = RemainingAttempts(earlier + req.attempts)
    /\ req' = Blank
    /\ IF f \in Retryable /\ budget' > 0 /\ ~late
       THEN pc' = "route" /\ UNCHANGED outcome
       ELSE End("error")
    /\ UNCHANGED <<streaming, usable, late, line, leg, pool, settled>>
-----------------------------------------------------------------------------
\* The pre-output deadline passes.
Deadline ==
    /\ ~late /\ pc # "over"
    /\ late' = TRUE
    /\ UNCHANGED <<pc, request, line, leg, pool, req, chosen, held, done, past>>

Advance ==
    \/ StartRoute \/ ModelNotFound \/ EnterPool \/ LeavePool
    \/ \E d \in Deployments : Choose(d)
    \/ QuotaRefused \/ AdmissionRefused \/ AdmissionFails \/ Admitted \/ Begin
    \/ \E f \in Faults : Fails(f) \/ FailsBeforeOutput(f)
    \/ Backoff \/ Stops \/ NextLeg \/ StartRound \/ EndRound
    \/ Returns \/ Commit
    \/ \E f \in FinishFaults \cup {"success", "cancelled"} : Finish(f)

Next == Advance \/ Deadline

Spec == Init /\ [][Next]_vars

\* Every call is answered, if only by the total timeout of its attempt, and
\* the endpoint finishes what it was given.
FairSpec == Spec /\ WF_vars(Advance)
-----------------------------------------------------------------------------
Reasons == {"no_candidates", "cooldown", "rate_limited", "attempt_budget", "exhausted"}

(* The variables of a request: the locals of route() and what it holds     *)
(* (index.ts:318-326, 374-392).                                            *)
TypeOK ==
    /\ pc \in {"route", "enter", "loop", "admission", "begin", "upstream",
               "backoff", "ended", "round", "returned", "serving", "over"}
    /\ streaming \in BOOLEAN
    /\ usable \subseteq Deployments /\ returned \subseteq Deployments
    /\ late \in BOOLEAN /\ settled \in BOOLEAN
    /\ budget \in 0..MaxAttempts /\ earlier \in 0..MaxAttempts
    /\ line \in Seq(Models)
    /\ leg \in [again : BOOLEAN, at : 1..(Len(line) + 1), start : 0..MaxAttempts]
    /\ pool.candidates \subseteq usable /\ pool.reason \in Reasons
    /\ pool.cap \in 0..MaxAttempts /\ pool.start \in 0..MaxAttempts
    /\ req.attempts \in 0..MaxAttempts /\ req.reason \in Reasons
    /\ req.tried \in [Deployments -> 0..MaxAttempts]
    /\ held.quota \in Nat /\ held.lease \in Nat /\ held.probes \subseteq Sides
    /\ outcome \in Reasons \cup {"none", "served", "error", "neutral", "ineligible",
                                 "model_not_found"}

InAttempt == pc \in {"admission", "begin", "upstream", "returned", "serving"}

(* Whatever way an attempt ends (refused, failed, cancelled, finished once *)
(* or twice), its quota and attempt leases are handed back exactly once,   *)
(* and no recovery probe of its deployment is left behind.                 *)
HandedBack ==
    /\ held.quota \in {0, 1} /\ held.lease \in {0, 1}
    /\ ~InAttempt => held.quota = 0 /\ held.lease = 0 /\ "deployment" \notin held.probes

(* No probe at all is left behind: circuit.ts:416 promises that ownership  *)
(* is released when an attempt produced no health signal.                  *)
ProbesHandedBack == ~InAttempt => held.probes = {}

(* At most one failure per logical request and deployment counts toward    *)
(* the circuit (routing.mdx:127). Streams are charged again when they fail *)
(* after their first frame: finish() does not consult what was counted.    *)
ChargedOnce == ~streaming => \A d \in Deployments : past.charged[d] <= 1

(* One limit for the primary, all fallbacks, all retry rounds and all the  *)
(* route() calls of a logical request (fallbacks.mdx: "One request-wide    *)
(* limit applies"), and each attempt of it is settled once.                *)
SettledOnce ==
    /\ TypeOK
    /\ earlier + req.attempts <= MaxAttempts
    /\ HandedBack /\ ChargedOnce

(* A non-retryable failure exhausts its deployment for the request: no     *)
(* retry round contacts it again (index.ts:1101-1103). A stream that fails  *)
(* before its first frame is routed anew and may contact it.               *)
SpentNotRepeated ==
    [][~streaming => \A d \in past.spent : req'.tried[d] <= req.tried[d]]_vars

(* The candidates of one pool are used evenly: none is used a second time  *)
(* more than a sibling that could still be used (routing.mdx:114, "first   *)
(* pass across eligible deployments before reusing one").                  *)
EvenUse ==
    pc \notin {"route", "enter"} =>
    \A d, e \in pool.candidates :
        e \notin req.exhausted => req.tried[d] <= req.tried[e] + 1

(* Fallback models are tried in order: none is contacted while an earlier  *)
(* one of the chain was passed over for want of attempts, if the limit of  *)
(* attempts has not been used up by an earlier stream of the request.      *)
FallbacksInOrder ==
    earlier = 0 => \A i, j \in 1..Len(line) :
        i < j /\ (\E d \in Pool(line[j]) : req.tried[d] > 0) => i \notin past.starved

StoppedEarly ==
    /\ pc = "over" /\ outcome \in Reasons \cup {"neutral", "ineligible"}
    /\ req.attempts < budget /\ ~late /\ req.reason # "attempt_budget"

(* A request that gives up with attempts left was hindered in every pool:  *)
(* its candidates were exhausted, or one of them was refused.              *)
GivesUpOnlyHindered ==
    StoppedEarly =>
        \A i \in 1..Len(line) :
            \/ Candidates(line[i]) \subseteq req.exhausted
            \/ Candidates(line[i]) \cap past.refused # {}

(* Deployments are chosen evenly within a pool, pools in the order of the  *)
(* chain, and giving up is the last choice.                                *)
ChosenInTurn == EvenUse /\ FallbacksInOrder /\ GivesUpOnlyHindered

(* Deployments are reused in rounds until the request-wide policy is       *)
(* exhausted (index.ts:1205-1207): with attempts and time left, only       *)
(* exhausted and refused deployments remain.                               *)
RetriesExhaustPolicy ==
    StoppedEarly =>
        \A i \in 1..Len(line) : Candidates(line[i]) \subseteq req.exhausted \cup past.refused

(* The selection loop, the chain and the retry rounds end: every request   *)
(* is answered.                                                            *)
Terminates == <>(pc = "over")
=============================================================================
