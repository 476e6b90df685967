-------------------------- MODULE CircuitBreaker --------------------------
(***************************************************************************)
(* The circuit breakers of router/circuit.ts.  Every deployment and every  *)
(* shared-capacity domain is a subject with five Redis keys; each Lua      *)
(* script is one atomic action, and everything an attempt awaits between   *)
(* two scripts may interleave with every other attempt of every replica.   *)
(*                                                                         *)
(* Abstractions.  The cooldown and cause keys are written together with    *)
(* the same expiry and are one variable that names the attempt whose       *)
(* failure is the cause.  A TTL is an expiry action that may fire at any   *)
(* time the lifetimes allow: history outlives every cooldown it was        *)
(* written with (circuit.ts takes max(24h, 4 * maxCooldownMs)), and the    *)
(* probe alive with it unless MayLapse; the other keys are unordered.  A   *)
(* token is a fresh UUID: it is reused only when no probe remembers it.    *)
(***************************************************************************)
EXTENDS Naturals

CONSTANTS
    Deployments,   \* deployment rows of the routed public models
    CapacityOf,    \* the capacity subject (failure domain) of a deployment
    Tokens,        \* tokens of concurrent attempts
    None,          \* absence of a key or of a permit
    AllowedFails,  \* settings.allowedFails
    MaxOpen,       \* open count at which the exponential cooldown is capped
    MayDisable,    \* whether some replica may see cooldownSeconds = 0
    MayLapse       \* whether 24h of history may end under a live probe

Capacities == {CapacityOf[d] : d \in Deployments}
Subjects == Deployments \cup Capacities

ASSUME CircuitAssumption ==
    /\ CapacityOf \in [Deployments -> Capacities]
    /\ Deployments \cap Capacities = {}
    /\ None \notin Tokens \cup Deployments
    /\ AllowedFails \in Nat
    /\ MaxOpen \in Nat \ {0}
    /\ MayDisable \in BOOLEAN
    /\ MayLapse \in BOOLEAN

VARIABLES
    cooldown,  \* cooldown and cause keys: the attempt that opened the subject
    failures,  \* transient failures in the current window (0: no key)
    history,   \* open count, saturated at MaxOpen (0: no key)
    probe,     \* token owning the half-open probe
    permit,    \* permit held by an attempt
    calls,     \* Redis calls an attempt has issued and not yet seen applied
    crashed    \* auxiliary: tokens whose attempt ended without its calls

subjectVars == <<cooldown, failures, history, probe>>
circuitVars == <<cooldown, failures, history, probe, permit, calls, crashed>>

(***************************************************************************)
(* A permit records its deployment, the subjects it holds in half-open     *)
(* mode (the others are in closed mode), and whether the settings snapshot *)
(* of its request had circuits enabled.                                    *)
(***************************************************************************)
Permits == [deployment : Deployments, halfOpen : SUBSET Subjects, enabled : BOOLEAN]
NoPermit == [deployment |-> None, halfOpen |-> {}, enabled |-> FALSE]
Calls == [op : {"close", "release"}, subject : Subjects]

SubjectsOf(d) == {d, CapacityOf[d]}
Running(t) == permit[t] # NoPermit /\ calls[t] = {}
Fresh(t) == permit[t] = NoPermit /\ \A s \in Subjects : probe[s] # t

CircuitInit ==
    /\ cooldown = [s \in Subjects |-> None]
    /\ failures = [s \in Subjects |-> 0]
    /\ history = [s \in Subjects |-> 0]
    /\ probe = [s \in Subjects |-> None]
    /\ permit = [t \in Tokens |-> NoPermit]
    /\ calls = [t \in Tokens |-> {}]
    /\ crashed = {}
-----------------------------------------------------------------------------
(* acquireCircuitPermit: one script over both subjects. *)

\* Mutated form: a circuit with a history admits nobody, not even a probe.
AdmitsClosedOnly(s) == cooldown[s] = None /\ history[s] = 0

\* The gate of one subject: neither cooling down nor probed by someone else.
Admits(s) == cooldown[s] = None /\ (history[s] = 0 \/ probe[s] = None)

Acquire(t, d) ==
    /\ Fresh(t)
    /\ \A s \in SubjectsOf(d) : Admits(s)
    /\ LET owned == {s \in SubjectsOf(d) : history[s] > 0} IN
       /\ probe' = [s \in Subjects |-> IF s \in owned THEN t ELSE probe[s]]
       /\ permit' = [permit EXCEPT ![t] =
                        [deployment |-> d, halfOpen |-> owned, enabled |-> TRUE]]
    /\ crashed' = crashed \ {t}
    /\ UNCHANGED <<cooldown, failures, history, calls>>

\* Mutated form: the refusing script forgets the deployment probe it has set.
AcquireRefusedKeepsProbe(t, d) ==
    /\ Fresh(t)
    /\ Admits(d) /\ history[d] > 0 /\ ~Admits(CapacityOf[d])
    /\ probe' = [probe EXCEPT ![d] = t]
    /\ UNCHANGED <<cooldown, failures, history, permit, calls, crashed>>

\* A refusal by the capacity gate gives back the deployment probe that the
\* same script had just set, so a refused attempt leaves nothing behind.
AcquireRefused(t, d) ==
    /\ Fresh(t)
    /\ \E s \in SubjectsOf(d) : ~Admits(s)
    /\ UNCHANGED circuitVars

\* With circuits disabled the acquire deletes the keys of both subjects.
AcquireDisabled(t, d) ==
    /\ MayDisable
    /\ Fresh(t)
    /\ cooldown' = [s \in Subjects |-> IF s \in SubjectsOf(d) THEN None ELSE cooldown[s]]
    /\ failures' = [s \in Subjects |-> IF s \in SubjectsOf(d) THEN 0 ELSE failures[s]]
    /\ history' = [s \in Subjects |-> IF s \in SubjectsOf(d) THEN 0 ELSE history[s]]
    /\ probe' = [s \in Subjects |-> IF s \in SubjectsOf(d) THEN None ELSE probe[s]]
    /\ permit' = [permit EXCEPT ![t] =
                     [deployment |-> d, halfOpen |-> {}, enabled |-> FALSE]]
    /\ crashed' = crashed \ {t}
    /\ UNCHANGED calls
-----------------------------------------------------------------------------
(* RECORD_FAILURE_SCRIPT.  A permit in half-open mode overrides the mode.  *)

HalfOpen(t, s) == s \in permit[t].halfOpen

\* Mutated forms: a script that forgets both early returns; one that forgets
\* that a known history is decided by its probe.
OpensAgain(t, s, mode) ==
    /\ permit[t].enabled
    /\ IF HalfOpen(t, s)
       THEN probe[s] = t
       ELSE mode = "threshold" => failures[s] >= AllowedFails

OpensByLateFailure(t, s, mode) ==
    /\ permit[t].enabled
    /\ cooldown[s] = None
    /\ IF HalfOpen(t, s)
       THEN probe[s] = t
       ELSE mode = "threshold" => failures[s] >= AllowedFails

Opens(t, s, mode) ==
    /\ permit[t].enabled
    /\ cooldown[s] = None
    /\ IF HalfOpen(t, s)
       THEN probe[s] = t
       ELSE history[s] = 0 /\ (mode = "threshold" => failures[s] >= AllowedFails)

Counts(t, s, mode) ==
    /\ permit[t].enabled
    /\ cooldown[s] = None /\ history[s] = 0
    /\ ~HalfOpen(t, s) /\ mode = "threshold"
    /\ failures[s] < AllowedFails

NextOpenCount(t, s) ==
    IF HalfOpen(t, s) /\ history[s] < MaxOpen THEN history[s] + 1
    ELSE IF HalfOpen(t, s) THEN MaxOpen ELSE 1

RecordFailure(t, s, mode) ==
    \/ /\ Opens(t, s, mode)
       /\ cooldown' = [cooldown EXCEPT ![s] = t]
       /\ history' = [history EXCEPT ![s] = NextOpenCount(t, s)]
       /\ failures' = [failures EXCEPT ![s] = 0]
       /\ probe' = [probe EXCEPT ![s] = IF HalfOpen(t, s) THEN None ELSE @]
    \/ /\ Counts(t, s, mode)
       /\ failures' = [failures EXCEPT ![s] = @ + 1]
       /\ UNCHANGED <<cooldown, history, probe>>
    \/ /\ ~Opens(t, s, mode) /\ ~Counts(t, s, mode)
       /\ UNCHANGED subjectVars

Issue(t, cs) ==
    /\ calls' = [calls EXCEPT ![t] = cs]
    /\ permit' = IF cs = {} THEN [permit EXCEPT ![t] = NoPermit] ELSE permit
    /\ UNCHANGED crashed

\* recordTransientFailure: count against the deployment, then close capacity.
TransientFailure(t) ==
    /\ Running(t)
    /\ RecordFailure(t, permit[t].deployment, "threshold")
    /\ Issue(t, {[op |-> "close", subject |-> CapacityOf[permit[t].deployment]]})

\* recordConfigurationFailure: quarantine the deployment at once.
ConfigurationFailure(t) ==
    /\ Running(t)
    /\ RecordFailure(t, permit[t].deployment, "immediate")
    /\ Issue(t, {[op |-> "close", subject |-> CapacityOf[permit[t].deployment]]})

\* recordThrottleFailure: open shared capacity, then close the deployment.
ThrottleFailure(t) ==
    /\ Running(t)
    /\ RecordFailure(t, CapacityOf[permit[t].deployment], "immediate")
    /\ Issue(t, {[op |-> "close", subject |-> permit[t].deployment]})

\* closeCircuits: two calls in flight at once, applied in either order.
CloseCircuits(t) ==
    /\ Running(t)
    /\ Issue(t, {[op |-> "close", subject |-> s] : s \in SubjectsOf(permit[t].deployment)})
    /\ UNCHANGED subjectVars

\* releaseCircuitPermit: only half-open subjects are touched.
ReleasePermit(t) ==
    /\ Running(t)
    /\ Issue(t, {[op |-> "release", subject |-> s] : s \in permit[t].halfOpen})
    /\ UNCHANGED subjectVars
-----------------------------------------------------------------------------
(* The pending calls of an attempt. *)

Finish(t, c) ==
    /\ c \in calls[t]
    /\ calls' = [calls EXCEPT ![t] = @ \ {c}]
    /\ permit' = IF calls[t] = {c} THEN [permit EXCEPT ![t] = NoPermit] ELSE permit
    /\ UNCHANGED crashed

\* Mutated form: CLOSE_SCRIPT without its ownership test.
CloseSubjectUnowned(t, s) ==
    /\ Finish(t, [op |-> "close", subject |-> s])
    /\ failures' = [failures EXCEPT ![s] = 0]
    /\ IF HalfOpen(t, s)
       THEN /\ cooldown' = [cooldown EXCEPT ![s] = None]
            /\ history' = [history EXCEPT ![s] = 0]
            /\ probe' = [probe EXCEPT ![s] = None]
       ELSE UNCHANGED <<cooldown, history, probe>>

\* closeSubject: a closed-mode permit deletes the failure count only; a
\* half-open one runs CLOSE_SCRIPT, which needs to own the probe still.
CloseSubject(t, s) ==
    /\ Finish(t, [op |-> "close", subject |-> s])
    /\ \/ /\ ~HalfOpen(t, s)
          /\ failures' = [failures EXCEPT ![s] = 0]
          /\ UNCHANGED <<cooldown, history, probe>>
       \/ /\ HalfOpen(t, s) /\ probe[s] = t
          /\ cooldown' = [cooldown EXCEPT ![s] = None]
          /\ failures' = [failures EXCEPT ![s] = 0]
          /\ history' = [history EXCEPT ![s] = 0]
          /\ probe' = [probe EXCEPT ![s] = None]
       \/ /\ HalfOpen(t, s) /\ probe[s] # t
          /\ UNCHANGED subjectVars

\* releaseSubject: RELEASE_SCRIPT deletes the probe only if it is owned.
ReleaseSubject(t, s) ==
    /\ Finish(t, [op |-> "release", subject |-> s])
    /\ probe' = [probe EXCEPT ![s] = IF @ = t THEN None ELSE @]
    /\ UNCHANGED <<cooldown, failures, history>>

\* The replica dies, a Redis call fails, or a completion returns before it
\* reaches the circuit: the rest of the attempt's calls never happen.
CrashAttempt(t) ==
    /\ permit[t] # NoPermit
    /\ permit' = [permit EXCEPT ![t] = NoPermit]
    /\ calls' = [calls EXCEPT ![t] = {}]
    /\ crashed' = crashed \cup {t}
    /\ UNCHANGED subjectVars
-----------------------------------------------------------------------------
(* Key expiry. *)

CooldownExpires(s) ==
    /\ cooldown[s] # None
    /\ cooldown' = [cooldown EXCEPT ![s] = None]
    /\ UNCHANGED <<failures, history, probe, permit, calls, crashed>>

WindowExpires(s) ==
    /\ failures[s] > 0
    /\ failures' = [failures EXCEPT ![s] = 0]
    /\ UNCHANGED <<cooldown, history, probe, permit, calls, crashed>>

ProbeExpires(s) ==
    /\ probe[s] # None
    /\ probe' = [probe EXCEPT ![s] = None]
    /\ UNCHANGED <<cooldown, failures, history, permit, calls, crashed>>

\* Mutated form: the history's lifetime is not tied to the cooldown's.
HistoryExpiresUnderCooldown(s) ==
    /\ history[s] > 0
    /\ history' = [history EXCEPT ![s] = 0]
    /\ UNCHANGED <<cooldown, failures, probe, permit, calls, crashed>>

HistoryExpires(s) ==
    /\ history[s] > 0
    /\ cooldown[s] = None
    /\ MayLapse \/ probe[s] = None
    /\ history' = [history EXCEPT ![s] = 0]
    /\ UNCHANGED <<cooldown, failures, probe, permit, calls, crashed>>
-----------------------------------------------------------------------------
Attempt(t) ==
    \/ \E d \in Deployments : Acquire(t, d) \/ AcquireRefused(t, d) \/ AcquireDisabled(t, d)
    \/ TransientFailure(t)
    \/ ConfigurationFailure(t)
    \/ ThrottleFailure(t)
    \/ CloseCircuits(t)
    \/ ReleasePermit(t)
    \/ \E s \in Subjects : CloseSubject(t, s) \/ ReleaseSubject(t, s)
    \/ CrashAttempt(t)

Expiry(s) ==
    \/ CooldownExpires(s)
    \/ WindowExpires(s)
    \/ ProbeExpires(s)
    \/ HistoryExpires(s)

CircuitNext == (\E t \in Tokens : Attempt(t)) \/ (\E s \in Subjects : Expiry(s))

CircuitSpec == CircuitInit /\ [][CircuitNext]_circuitVars

\* Redis drops a key when its TTL has passed; nothing else is assumed fair.
FairSpec ==
    /\ CircuitSpec
    /\ \A s \in Subjects : WF_circuitVars(CooldownExpires(s)) /\ WF_circuitVars(ProbeExpires(s))
-----------------------------------------------------------------------------
\* Every variable has its type; the window's count never passes the limit.
CircuitTypeOK ==
    /\ cooldown \in [Subjects -> Tokens \cup {None}]
    /\ failures \in [Subjects -> 0..AllowedFails]
    /\ history \in [Subjects -> 0..MaxOpen]
    /\ probe \in [Subjects -> Tokens \cup {None}]
    /\ permit \in [Tokens -> Permits \cup {NoPermit}]
    /\ calls \in [Tokens -> SUBSET Calls]
    /\ crashed \subseteq Tokens

\* Transient failures are counted only while a circuit is closed: whatever
\* opens a circuit (a threshold, a quarantine, a failed probe) also drops the
\* count, and late failures of attempts admitted before do not start a new
\* one, so recovery never begins with failures already charged.
FailuresOnlyWhileClosed ==
    \A s \in Subjects : failures[s] > 0 => history[s] = 0 /\ cooldown[s] = None

\* An open circuit remembers its open count: when its cooldown ends it is
\* half-open, never closed, and its next failed probe backs off further.
OpenHasHistory ==
    \A s \in Subjects : cooldown[s] # None => history[s] > 0

\* A probe never outlives the attempt that owns it except by a crash: its
\* owner still runs, or still has the call to make that gives the probe back.
\* (With MayLapse an expired history lets a second cooldown start under a
\* probe, and a failure then leaves the probe to its lifetime.)
ProbeAccounted ==
    MayLapse \/ \A s \in Subjects, t \in Tokens :
        probe[s] = t =>
            \/ t \in crashed
            \/ /\ HalfOpen(t, s)
               /\ calls[t] = {} \/ \E c \in calls[t] : c.subject = s

\* "Late in-flight failures cannot extend it" (routing.mdx): while a cooldown
\* lasts, no failure of any attempt arms it again.
NoExtension ==
    [][\A s \in Subjects :
         cooldown[s] # None /\ cooldown'[s] # None => cooldown'[s] = cooldown[s]]_circuitVars

\* The circuits implement the abstract breaker.
Phase == [s \in Subjects |->
            IF cooldown[s] # None THEN "open"
            ELSE IF history[s] > 0 THEN "recovering" ELSE "closed"]

Abstract == INSTANCE Breaker WITH phase <- Phase, owner <- probe, MayReset <- MayDisable

\* Only failures of closed-mode attempts trip a closed circuit; a recovering
\* one is decided by the owner of its probe alone, and probes are exclusive.
ImplementsBreaker == Abstract!Spec

\* No subject refuses every attempt for ever, whatever crashes: a cooldown and
\* a probe both end by themselves, and the circuit between them is half-open.
NeverBlockedForever == \A s \in Subjects : []<>Admits(s)

\* "A successful probe closes it" (routing.mdx): the closing call of an
\* attempt admitted in half-open mode leaves the subject closed.
SuccessfulProbeCloses ==
    [][\A t \in Tokens, s \in Subjects :
         HalfOpen(t, s) /\ CloseSubject(t, s) => Phase'[s] = "closed"]_circuitVars
=============================================================================
