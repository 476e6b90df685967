------------------------- MODULE DeploymentProofs -------------------------
(***************************************************************************)
(* What Redis keeps about the deployments behind the router: their health  *)
(* (the circuit breakers) and the capacity left of each (the admission of  *)
(* attempts).  The two share no key, so neither needs an invariant of the  *)
(* other.                                                                  *)
(***************************************************************************)
EXTENDS AttemptAdmission, CircuitBreaker, FiniteSetTheorems, TLAPS
-----------------------------------------------------------------------------
(* The circuits, for every number of deployments, capacity domains and     *)
(* attempts, and every allowedFails.                                       *)

\* A half-open permit was taken with circuits enabled and covers subjects of
\* its deployment; an attempt without a permit has no call to make.
PermitShape ==
    \A t \in Tokens :
        IF permit[t] = NoPermit
        THEN calls[t] = {}
        ELSE /\ permit[t].halfOpen \subseteq SubjectsOf(permit[t].deployment)
             /\ permit[t].halfOpen # {} => permit[t].enabled

\* Unless MayLapse, a probe exists only while its subject recovers.
ProbeRecovers ==
    MayLapse \/ \A s \in Subjects :
        probe[s] # None => history[s] > 0 /\ cooldown[s] = None

\* A transition of one subject's open count stays within its bounds.
LEMMA OpenCountRange ==
    ASSUME CircuitTypeOK, NEW t \in Tokens, NEW s \in Subjects
    PROVE NextOpenCount(t, s) \in 1..MaxOpen
BY CircuitAssumption DEF CircuitTypeOK, NextOpenCount

\* What a failure report may do to the four keys of the subjects.
LEMMA RecordFailureType ==
    ASSUME CircuitTypeOK, NEW t \in Tokens, NEW s \in Subjects, NEW mode, RecordFailure(t, s, mode)
    PROVE /\ cooldown' \in [Subjects -> Tokens \cup {None}]
          /\ failures' \in [Subjects -> 0..AllowedFails]
          /\ history' \in [Subjects -> 0..MaxOpen]
          /\ probe' \in [Subjects -> Tokens \cup {None}]
BY OpenCountRange, CircuitAssumption DEF CircuitTypeOK, RecordFailure, Opens, Counts, subjectVars

\* The permit of an attempt that runs is a real one.
LEMMA RunningPermit ==
    ASSUME CircuitTypeOK, NEW t \in Tokens, permit[t] # NoPermit
    PROVE /\ permit[t] \in Permits
          /\ permit[t].deployment \in Deployments
          /\ CapacityOf[permit[t].deployment] \in Subjects
          /\ SubjectsOf(permit[t].deployment) \subseteq Subjects
          /\ permit[t].halfOpen \subseteq Subjects
BY DEF CircuitTypeOK, Permits, SubjectsOf, Subjects, Capacities

LEMMA IssueType ==
    ASSUME CircuitTypeOK, NEW t \in Tokens, NEW cs \in SUBSET Calls, Issue(t, cs)
    PROVE /\ permit' \in [Tokens -> Permits \cup {NoPermit}]
          /\ calls' \in [Tokens -> SUBSET Calls]
          /\ crashed' \subseteq Tokens
BY DEF CircuitTypeOK, Issue

LEMMA FinishType ==
    ASSUME CircuitTypeOK, NEW t \in Tokens, NEW c, Finish(t, c)
    PROVE /\ permit' \in [Tokens -> Permits \cup {NoPermit}]
          /\ calls' \in [Tokens -> SUBSET Calls]
          /\ crashed' \subseteq Tokens
          /\ c \in Calls
          /\ permit[t] # NoPermit \/ ~PermitShape
BY DEF CircuitTypeOK, Finish, PermitShape

\* Every step keeps every variable in its type.
LEMMA CircuitTypeStep == CircuitTypeOK /\ [CircuitNext]_circuitVars => CircuitTypeOK'
<1> SUFFICES ASSUME CircuitTypeOK, [CircuitNext]_circuitVars PROVE CircuitTypeOK'
  OBVIOUS
<1>1. ASSUME NEW t \in Tokens, NEW d \in Deployments, Acquire(t, d) PROVE CircuitTypeOK'
  <2>1. SubjectsOf(d) \subseteq Subjects
    BY DEF SubjectsOf, Subjects, Capacities
  <2> QED BY <1>1, <2>1 DEF CircuitTypeOK, Acquire, Permits
<1>2. ASSUME NEW t \in Tokens, NEW d \in Deployments, AcquireRefused(t, d) PROVE CircuitTypeOK'
  BY <1>2 DEF CircuitTypeOK, AcquireRefused, circuitVars
<1>3. ASSUME NEW t \in Tokens, NEW d \in Deployments, AcquireDisabled(t, d) PROVE CircuitTypeOK'
  BY <1>3, CircuitAssumption DEF CircuitTypeOK, AcquireDisabled, Permits
<1>4. ASSUME NEW t \in Tokens, TransientFailure(t) PROVE CircuitTypeOK'
  <2> DEFINE cs == {[op |-> "close", subject |-> CapacityOf[permit[t].deployment]]}
  <2>1. permit[t] # NoPermit
    BY <1>4 DEF TransientFailure, Running
  <2>2. cs \in SUBSET Calls /\ permit[t].deployment \in Subjects
    BY <2>1, RunningPermit DEF Calls, Subjects
  <2> HIDE DEF cs
  <2>3. RecordFailure(t, permit[t].deployment, "threshold") /\ Issue(t, cs)
    BY <1>4 DEF TransientFailure, cs
  <2> QED BY <2>2, <2>3, RecordFailureType, IssueType DEF CircuitTypeOK
<1>5. ASSUME NEW t \in Tokens, ConfigurationFailure(t) PROVE CircuitTypeOK'
  <2> DEFINE cs == {[op |-> "close", subject |-> CapacityOf[permit[t].deployment]]}
  <2>1. permit[t] # NoPermit
    BY <1>5 DEF ConfigurationFailure, Running
  <2>2. cs \in SUBSET Calls /\ permit[t].deployment \in Subjects
    BY <2>1, RunningPermit DEF Calls, Subjects
  <2> HIDE DEF cs
  <2>3. RecordFailure(t, permit[t].deployment, "immediate") /\ Issue(t, cs)
    BY <1>5 DEF ConfigurationFailure, cs
  <2> QED BY <2>2, <2>3, RecordFailureType, IssueType DEF CircuitTypeOK
<1>6. ASSUME NEW t \in Tokens, ThrottleFailure(t) PROVE CircuitTypeOK'
  <2> DEFINE cs == {[op |-> "close", subject |-> permit[t].deployment]}
  <2>1. permit[t] # NoPermit
    BY <1>6 DEF ThrottleFailure, Running
  <2>2. cs \in SUBSET Calls /\ CapacityOf[permit[t].deployment] \in Subjects
    BY <2>1, RunningPermit DEF Calls, Subjects
  <2> HIDE DEF cs
  <2>3. RecordFailure(t, CapacityOf[permit[t].deployment], "immediate") /\ Issue(t, cs)
    BY <1>6 DEF ThrottleFailure, cs
  <2> QED BY <2>2, <2>3, RecordFailureType, IssueType DEF CircuitTypeOK
<1>7. ASSUME NEW t \in Tokens, CloseCircuits(t) PROVE CircuitTypeOK'
  <2> DEFINE cs == {[op |-> "close", subject |-> s] : s \in SubjectsOf(permit[t].deployment)}
  <2>1. permit[t] # NoPermit
    BY <1>7 DEF CloseCircuits, Running
  <2>2. cs \in SUBSET Calls
    BY <2>1, RunningPermit DEF Calls
  <2>3. Issue(t, cs) /\ UNCHANGED subjectVars
    BY <1>7 DEF CloseCircuits
  <2> HIDE DEF cs
  <2> QED BY <2>2, <2>3, IssueType DEF CircuitTypeOK, subjectVars
<1>8. ASSUME NEW t \in Tokens, ReleasePermit(t) PROVE CircuitTypeOK'
  <2> DEFINE cs == {[op |-> "release", subject |-> s] : s \in permit[t].halfOpen}
  <2>1. permit[t] # NoPermit
    BY <1>8 DEF ReleasePermit, Running
  <2>2. cs \in SUBSET Calls
    BY <2>1, RunningPermit DEF Calls
  <2>3. Issue(t, cs) /\ UNCHANGED subjectVars
    BY <1>8 DEF ReleasePermit
  <2> HIDE DEF cs
  <2> QED BY <2>2, <2>3, IssueType DEF CircuitTypeOK, subjectVars
<1>9. ASSUME NEW t \in Tokens, NEW s \in Subjects, CloseSubject(t, s) PROVE CircuitTypeOK'
  <2>1. Finish(t, [op |-> "close", subject |-> s])
    BY <1>9 DEF CloseSubject
  <2> QED BY <1>9, <2>1, FinishType, CircuitAssumption DEF CircuitTypeOK, CloseSubject, subjectVars
<1>10. ASSUME NEW t \in Tokens, NEW s \in Subjects, ReleaseSubject(t, s) PROVE CircuitTypeOK'
  <2>1. Finish(t, [op |-> "release", subject |-> s])
    BY <1>10 DEF ReleaseSubject
  <2> QED BY <1>10, <2>1, FinishType DEF CircuitTypeOK, ReleaseSubject
<1>11. ASSUME NEW t \in Tokens, CrashAttempt(t) PROVE CircuitTypeOK'
  BY <1>11 DEF CircuitTypeOK, CrashAttempt, subjectVars
<1>12. ASSUME NEW s \in Subjects, Expiry(s) PROVE CircuitTypeOK'
  BY <1>12, CircuitAssumption
     DEF CircuitTypeOK, Expiry, CooldownExpires, WindowExpires, ProbeExpires, HistoryExpires
<1>13. CASE UNCHANGED circuitVars
  BY <1>13 DEF CircuitTypeOK, circuitVars
<1> QED
  BY <1>1, <1>2, <1>3, <1>4, <1>5, <1>6, <1>7, <1>8, <1>9, <1>10, <1>11, <1>12, <1>13
     DEF CircuitNext, Attempt

\* Every key, permit and pending call always has its type, and no window ever
\* counts past allowedFails.
THEOREM CircuitTyped == CircuitSpec => []CircuitTypeOK
<1>1. CircuitInit => CircuitTypeOK
  BY CircuitAssumption DEF CircuitInit, CircuitTypeOK, Subjects
<1> QED BY <1>1, CircuitTypeStep, PTL DEF CircuitSpec
-----------------------------------------------------------------------------
\* The keys of one subject stay consistent: what a report, a call or an expiry
\* does to the four keys, read off its script.
LEMMA KeysStep ==
    CircuitTypeOK /\ FailuresOnlyWhileClosed /\ OpenHasHistory /\ [CircuitNext]_circuitVars
        => FailuresOnlyWhileClosed' /\ OpenHasHistory'
<1> SUFFICES ASSUME CircuitTypeOK, FailuresOnlyWhileClosed, OpenHasHistory, [CircuitNext]_circuitVars
             PROVE FailuresOnlyWhileClosed' /\ OpenHasHistory'
  OBVIOUS
<1> DEFINE KeysOK == FailuresOnlyWhileClosed' /\ OpenHasHistory'
<1>a. ASSUME UNCHANGED subjectVars PROVE KeysOK
  BY <1>a DEF subjectVars, FailuresOnlyWhileClosed, OpenHasHistory
<1>b. ASSUME NEW t \in Tokens, NEW s \in Subjects, NEW mode, RecordFailure(t, s, mode)
      PROVE KeysOK
  <2>1. NextOpenCount(t, s) > 0 /\ NextOpenCount(t, s) \in Nat
    BY OpenCountRange, CircuitAssumption
  <2>2. CASE Opens(t, s, mode)
    BY <1>b, <2>1, <2>2, CircuitAssumption
       DEF RecordFailure, CircuitTypeOK, FailuresOnlyWhileClosed, OpenHasHistory, Counts, Opens
  <2>3. CASE Counts(t, s, mode)
    BY <1>b, <2>3, CircuitAssumption
       DEF RecordFailure, CircuitTypeOK, FailuresOnlyWhileClosed, OpenHasHistory, Counts, Opens
  <2>4. CASE ~Opens(t, s, mode) /\ ~Counts(t, s, mode)
    <3>1. UNCHANGED subjectVars
      BY <1>b, <2>4 DEF RecordFailure
    <3> QED BY <3>1, <1>a
  <2> QED BY <2>2, <2>3, <2>4
<1>1. ASSUME NEW t \in Tokens, NEW d \in Deployments, Acquire(t, d) PROVE KeysOK
  BY <1>1 DEF Acquire, FailuresOnlyWhileClosed, OpenHasHistory
<1>2. ASSUME NEW t \in Tokens, NEW d \in Deployments, AcquireRefused(t, d) PROVE KeysOK
  BY <1>2, <1>a DEF AcquireRefused, circuitVars, subjectVars
<1>3. ASSUME NEW t \in Tokens, NEW d \in Deployments, AcquireDisabled(t, d) PROVE KeysOK
  BY <1>3 DEF AcquireDisabled, FailuresOnlyWhileClosed, OpenHasHistory
<1>4. ASSUME NEW t \in Tokens, TransientFailure(t) PROVE KeysOK
  BY <1>4, <1>b, RunningPermit DEF TransientFailure, Running, Subjects
<1>5. ASSUME NEW t \in Tokens, ConfigurationFailure(t) PROVE KeysOK
  BY <1>5, <1>b, RunningPermit DEF ConfigurationFailure, Running, Subjects
<1>6. ASSUME NEW t \in Tokens, ThrottleFailure(t) PROVE KeysOK
  BY <1>6, <1>b, RunningPermit DEF ThrottleFailure, Running, Subjects
<1>7. ASSUME NEW t \in Tokens, CloseCircuits(t) \/ ReleasePermit(t) \/ CrashAttempt(t) PROVE KeysOK
  BY <1>7, <1>a DEF CloseCircuits, ReleasePermit, CrashAttempt
<1>8. ASSUME NEW t \in Tokens, NEW s \in Subjects, CloseSubject(t, s) PROVE KeysOK
  BY <1>8, <1>a, CircuitAssumption
     DEF CloseSubject, CircuitTypeOK, FailuresOnlyWhileClosed, OpenHasHistory
<1>9. ASSUME NEW t \in Tokens, NEW s \in Subjects, ReleaseSubject(t, s) PROVE KeysOK
  BY <1>9 DEF ReleaseSubject, FailuresOnlyWhileClosed, OpenHasHistory
<1>10. ASSUME NEW s \in Subjects, Expiry(s) PROVE KeysOK
  BY <1>10, CircuitAssumption
     DEF Expiry, CooldownExpires, WindowExpires, ProbeExpires, HistoryExpires,
         CircuitTypeOK, FailuresOnlyWhileClosed, OpenHasHistory
<1>11. CASE UNCHANGED circuitVars
  BY <1>11, <1>a DEF circuitVars, subjectVars
<1> QED
  BY <1>1, <1>2, <1>3, <1>4, <1>5, <1>6, <1>7, <1>8, <1>9, <1>10, <1>11 DEF CircuitNext, Attempt

\* A recovering or open circuit never carries transient failures over.
THEOREM CountsOnlyWhileClosed == CircuitSpec => []FailuresOnlyWhileClosed
<1>1. CircuitInit => CircuitTypeOK /\ FailuresOnlyWhileClosed /\ OpenHasHistory
  BY CircuitAssumption DEF CircuitInit, CircuitTypeOK, Subjects, FailuresOnlyWhileClosed, OpenHasHistory
<1> QED BY <1>1, CircuitTypeStep, KeysStep, PTL DEF CircuitSpec

\* The end of a cooldown always leads to half-open, never straight to closed.
THEOREM OpenRemembersHistory == CircuitSpec => []OpenHasHistory
<1>1. CircuitInit => CircuitTypeOK /\ FailuresOnlyWhileClosed /\ OpenHasHistory
  BY CircuitAssumption DEF CircuitInit, CircuitTypeOK, Subjects, FailuresOnlyWhileClosed, OpenHasHistory
<1> QED BY <1>1, CircuitTypeStep, KeysStep, PTL DEF CircuitSpec
-----------------------------------------------------------------------------
\* One lemma serves the action property and the refinement: how a single step
\* may move one subject between the phases of the abstract breaker.
Moves(s) ==
    /\ cooldown[s] # None /\ cooldown'[s] # None => cooldown'[s] = cooldown[s]
    /\ Abstract!Step(s)

LEMMA RecordFailureMoves ==
    ASSUME CircuitTypeOK, FailuresOnlyWhileClosed, OpenHasHistory,
           NEW t \in Tokens, NEW s \in Subjects, NEW mode, RecordFailure(t, s, mode),
           NEW r \in Subjects
    PROVE Moves(r)
<1> USE CircuitAssumption DEF Moves, Abstract!Step, Abstract!Becomes, Phase
<1>1. NextOpenCount(t, s) > 0 /\ NextOpenCount(t, s) \in Nat
  BY OpenCountRange
<1>2. CASE r # s
  BY <1>2 DEF RecordFailure, CircuitTypeOK, subjectVars
<1>3. CASE r = s /\ Opens(t, s, mode) /\ HalfOpen(t, s)
  BY <1>1, <1>3 DEF RecordFailure, Opens, Counts, CircuitTypeOK, Abstract!Fail
<1>4. CASE r = s /\ Opens(t, s, mode) /\ ~HalfOpen(t, s)
  BY <1>1, <1>4 DEF RecordFailure, Opens, Counts, CircuitTypeOK, Abstract!Trip
<1>5. CASE r = s /\ ~Opens(t, s, mode)
  BY <1>5 DEF RecordFailure, CircuitTypeOK, subjectVars
<1> QED BY <1>2, <1>3, <1>4, <1>5

LEMMA CircuitMoves ==
    ASSUME CircuitTypeOK, FailuresOnlyWhileClosed, OpenHasHistory, [CircuitNext]_circuitVars, NEW r \in Subjects
    PROVE Moves(r)
<1> USE CircuitAssumption DEF Moves, Abstract!Step, Abstract!Becomes, Phase
<1>a. ASSUME UNCHANGED subjectVars PROVE Moves(r)
  BY <1>a DEF subjectVars
<1>1. ASSUME NEW t \in Tokens, NEW d \in Deployments, Acquire(t, d) PROVE Moves(r)
  BY <1>1 DEF Acquire, Admits, CircuitTypeOK, Abstract!Grant
<1>2. ASSUME NEW t \in Tokens, NEW d \in Deployments, AcquireRefused(t, d) PROVE Moves(r)
  BY <1>2, <1>a DEF AcquireRefused, circuitVars, subjectVars
<1>3. ASSUME NEW t \in Tokens, NEW d \in Deployments, AcquireDisabled(t, d) PROVE Moves(r)
  BY <1>3 DEF AcquireDisabled, CircuitTypeOK, Abstract!Reset
<1>4. ASSUME NEW t \in Tokens, TransientFailure(t) PROVE Moves(r)
  BY <1>4, RecordFailureMoves, RunningPermit DEF TransientFailure, Running, Subjects
<1>5. ASSUME NEW t \in Tokens, ConfigurationFailure(t) PROVE Moves(r)
  BY <1>5, RecordFailureMoves, RunningPermit DEF ConfigurationFailure, Running, Subjects
<1>6. ASSUME NEW t \in Tokens, ThrottleFailure(t) PROVE Moves(r)
  BY <1>6, RecordFailureMoves, RunningPermit DEF ThrottleFailure, Running, Subjects
<1>7. ASSUME NEW t \in Tokens, CloseCircuits(t) \/ ReleasePermit(t) \/ CrashAttempt(t) PROVE Moves(r)
  BY <1>7, <1>a DEF CloseCircuits, ReleasePermit, CrashAttempt
<1>8. ASSUME NEW t \in Tokens, NEW s \in Subjects, CloseSubject(t, s) PROVE Moves(r)
  BY <1>8, <1>a DEF CloseSubject, CircuitTypeOK, Abstract!Succeed
<1>9. ASSUME NEW t \in Tokens, NEW s \in Subjects, ReleaseSubject(t, s) PROVE Moves(r)
  BY <1>9 DEF ReleaseSubject, CircuitTypeOK, Abstract!Lose
<1>10. ASSUME NEW s \in Subjects, CooldownExpires(s) PROVE Moves(r)
  BY <1>10 DEF CooldownExpires, CircuitTypeOK, OpenHasHistory, Abstract!Elapse
<1>11. ASSUME NEW s \in Subjects, WindowExpires(s) PROVE Moves(r)
  BY <1>11 DEF WindowExpires, CircuitTypeOK
<1>12. ASSUME NEW s \in Subjects, ProbeExpires(s) PROVE Moves(r)
  BY <1>12 DEF ProbeExpires, CircuitTypeOK, Abstract!Lose
<1>13. ASSUME NEW s \in Subjects, HistoryExpires(s) PROVE Moves(r)
  BY <1>13 DEF HistoryExpires, CircuitTypeOK, Abstract!Forget
<1>14. CASE UNCHANGED circuitVars
  BY <1>14, <1>a DEF circuitVars, subjectVars
<1> QED
  BY <1>1, <1>2, <1>3, <1>4, <1>5, <1>6, <1>7, <1>8, <1>9, <1>10, <1>11, <1>12, <1>13, <1>14
     DEF CircuitNext, Attempt, Expiry

\* No failure, however late, re-arms a cooldown that has not ended.
THEOREM LateFailuresCannotExtend == CircuitSpec => NoExtension
<1> DEFINE A == \A s \in Subjects :
         cooldown[s] # None /\ cooldown'[s] # None => cooldown'[s] = cooldown[s]
<1>1. CircuitInit => CircuitTypeOK /\ FailuresOnlyWhileClosed /\ OpenHasHistory
  BY CircuitAssumption DEF CircuitInit, CircuitTypeOK, Subjects, FailuresOnlyWhileClosed, OpenHasHistory
<1>2. CircuitTypeOK /\ FailuresOnlyWhileClosed /\ OpenHasHistory /\ [CircuitNext]_circuitVars => [A]_circuitVars
  BY CircuitMoves DEF Moves
<1> QED BY <1>1, <1>2, CircuitTypeStep, KeysStep, PTL DEF CircuitSpec, NoExtension

\* Every behaviour of the circuits is one of the abstract breaker: a recovering
\* circuit is decided by the owner of its probe, and by nobody else.
THEOREM CircuitImplementsBreaker == CircuitSpec => ImplementsBreaker
<1>1. CircuitInit => CircuitTypeOK /\ FailuresOnlyWhileClosed /\ OpenHasHistory
  BY CircuitAssumption DEF CircuitInit, CircuitTypeOK, Subjects, FailuresOnlyWhileClosed, OpenHasHistory
<1>2. CircuitInit => Abstract!Init
  BY DEF CircuitInit, Abstract!Init, Phase
<1>3. CircuitTypeOK /\ FailuresOnlyWhileClosed /\ OpenHasHistory /\ [CircuitNext]_circuitVars
        => [Abstract!Next]_<<Phase, probe>>
  BY CircuitMoves DEF Moves, Abstract!Next
<1> QED BY <1>1, <1>2, <1>3, CircuitTypeStep, KeysStep, PTL DEF CircuitSpec, ImplementsBreaker, Abstract!Spec
-----------------------------------------------------------------------------
\* Permits and calls keep their shape: a report issues calls for the permit's
\* own subjects, and the last call gives the permit up.
LEMMA PermitStep == CircuitTypeOK /\ PermitShape /\ [CircuitNext]_circuitVars => PermitShape'
<1> SUFFICES ASSUME CircuitTypeOK, PermitShape, [CircuitNext]_circuitVars PROVE PermitShape'
  OBVIOUS
<1> USE CircuitAssumption DEF PermitShape
<1>a. ASSUME UNCHANGED <<permit, calls>> PROVE PermitShape'
  BY <1>a
<1>b. ASSUME NEW t \in Tokens, NEW cs, Running(t), Issue(t, cs) PROVE PermitShape'
  BY <1>b DEF CircuitTypeOK, Issue, Running
<1>1. ASSUME NEW t \in Tokens, NEW d \in Deployments, Acquire(t, d) PROVE PermitShape'
  BY <1>1 DEF Acquire, Fresh, CircuitTypeOK, NoPermit, SubjectsOf
<1>2. ASSUME NEW t \in Tokens, NEW d \in Deployments, AcquireRefused(t, d) PROVE PermitShape'
  BY <1>2, <1>a DEF AcquireRefused, circuitVars
<1>3. ASSUME NEW t \in Tokens, NEW d \in Deployments, AcquireDisabled(t, d) PROVE PermitShape'
  BY <1>3 DEF AcquireDisabled, Fresh, CircuitTypeOK, NoPermit
<1>4. ASSUME NEW t \in Tokens,
             TransientFailure(t) \/ ConfigurationFailure(t) \/ ThrottleFailure(t)
                \/ CloseCircuits(t) \/ ReleasePermit(t)
      PROVE PermitShape'
  BY <1>4, <1>b
     DEF TransientFailure, ConfigurationFailure, ThrottleFailure, CloseCircuits, ReleasePermit
<1>5. ASSUME NEW t \in Tokens, NEW s \in Subjects, CloseSubject(t, s) \/ ReleaseSubject(t, s)
      PROVE PermitShape'
  BY <1>5 DEF CloseSubject, ReleaseSubject, Finish, CircuitTypeOK
<1>6. ASSUME NEW t \in Tokens, CrashAttempt(t) PROVE PermitShape'
  BY <1>6 DEF CrashAttempt, CircuitTypeOK
<1>7. ASSUME NEW s \in Subjects, Expiry(s) PROVE PermitShape'
  BY <1>7, <1>a DEF Expiry, CooldownExpires, WindowExpires, ProbeExpires, HistoryExpires
<1>8. CASE UNCHANGED circuitVars
  BY <1>8, <1>a DEF circuitVars
<1> QED BY <1>1, <1>2, <1>3, <1>4, <1>5, <1>6, <1>7, <1>8 DEF CircuitNext, Attempt

LEMMA ProbeRecoversStep ==
    ASSUME CircuitTypeOK, FailuresOnlyWhileClosed, OpenHasHistory, ProbeRecovers, [CircuitNext]_circuitVars
    PROVE ProbeRecovers'
<1> SUFFICES ASSUME ~MayLapse, NEW s \in Subjects, probe'[s] # None
             PROVE history'[s] > 0 /\ cooldown'[s] = None
  BY DEF ProbeRecovers
<1> USE CircuitAssumption
<1>a. ASSUME UNCHANGED subjectVars PROVE history'[s] > 0 /\ cooldown'[s] = None
  BY <1>a DEF subjectVars, ProbeRecovers
<1>b. ASSUME NEW t \in Tokens, NEW r \in Subjects, NEW mode, RecordFailure(t, r, mode)
      PROVE history'[s] > 0 /\ cooldown'[s] = None
  BY <1>b DEF RecordFailure, ProbeRecovers, Opens, Counts, CircuitTypeOK, subjectVars
<1>1. ASSUME NEW t \in Tokens, NEW d \in Deployments, Acquire(t, d)
      PROVE history'[s] > 0 /\ cooldown'[s] = None
  BY <1>1 DEF Acquire, Admits, ProbeRecovers, CircuitTypeOK
<1>2. ASSUME NEW t \in Tokens, NEW d \in Deployments, AcquireRefused(t, d)
      PROVE history'[s] > 0 /\ cooldown'[s] = None
  BY <1>2, <1>a DEF AcquireRefused, circuitVars, subjectVars
<1>3. ASSUME NEW t \in Tokens, NEW d \in Deployments, AcquireDisabled(t, d)
      PROVE history'[s] > 0 /\ cooldown'[s] = None
  BY <1>3 DEF AcquireDisabled, ProbeRecovers, CircuitTypeOK
<1>4. ASSUME NEW t \in Tokens,
             TransientFailure(t) \/ ConfigurationFailure(t) \/ ThrottleFailure(t)
      PROVE history'[s] > 0 /\ cooldown'[s] = None
  BY <1>4, <1>b, RunningPermit
     DEF TransientFailure, ConfigurationFailure, ThrottleFailure, Running, Subjects
<1>5. ASSUME NEW t \in Tokens, CloseCircuits(t) \/ ReleasePermit(t) \/ CrashAttempt(t)
      PROVE history'[s] > 0 /\ cooldown'[s] = None
  BY <1>5, <1>a DEF CloseCircuits, ReleasePermit, CrashAttempt
<1>6. ASSUME NEW t \in Tokens, NEW r \in Subjects, CloseSubject(t, r)
      PROVE history'[s] > 0 /\ cooldown'[s] = None
  BY <1>6, <1>a DEF CloseSubject, ProbeRecovers, CircuitTypeOK
<1>7. ASSUME NEW t \in Tokens, NEW r \in Subjects, ReleaseSubject(t, r)
      PROVE history'[s] > 0 /\ cooldown'[s] = None
  BY <1>7 DEF ReleaseSubject, ProbeRecovers, CircuitTypeOK
<1>8. ASSUME NEW r \in Subjects, Expiry(r)
      PROVE history'[s] > 0 /\ cooldown'[s] = None
  BY <1>8 DEF Expiry, CooldownExpires, WindowExpires, ProbeExpires, HistoryExpires,
              ProbeRecovers, CircuitTypeOK
<1>9. CASE UNCHANGED circuitVars
  BY <1>9, <1>a DEF circuitVars, subjectVars
<1> QED BY <1>1, <1>2, <1>3, <1>4, <1>5, <1>6, <1>7, <1>8, <1>9 DEF CircuitNext, Attempt

\* Who may hold the probe of s: a crashed attempt, or one that runs with it or
\* still has its call to make.
Accounted(s, t) ==
    \/ t \in crashed
    \/ /\ HalfOpen(t, s)
       /\ calls[t] = {} \/ \E c \in calls[t] : c.subject = s

LEMMA ProbeAccountedStep ==
    ASSUME CircuitTypeOK, PermitShape, ProbeRecovers, ProbeAccounted, [CircuitNext]_circuitVars
    PROVE ProbeAccounted'
<1> SUFFICES ASSUME ~MayLapse, NEW s \in Subjects, NEW u \in Tokens, probe'[s] = u
             PROVE Accounted(s, u)'
  BY DEF ProbeAccounted, Accounted, HalfOpen
<1> USE CircuitAssumption
<1>p. probe[s] = u => Accounted(s, u) /\ history[s] > 0 /\ cooldown[s] = None
  BY DEF ProbeAccounted, Accounted, ProbeRecovers
<1>a. ASSUME UNCHANGED <<permit, calls, crashed>>, probe[s] = u PROVE Accounted(s, u)'
  BY <1>a, <1>p DEF Accounted, HalfOpen
<1>1. ASSUME NEW t \in Tokens, NEW d \in Deployments, Acquire(t, d) PROVE Accounted(s, u)'
  <2>1. CASE u = t
    BY <1>1, <2>1 DEF Acquire, Fresh, Accounted, HalfOpen, CircuitTypeOK, PermitShape
  <2>2. CASE u # t
    BY <1>1, <2>2, <1>p DEF Acquire, Accounted, HalfOpen, CircuitTypeOK
  <2> QED BY <2>1, <2>2
<1>2. ASSUME NEW t \in Tokens, NEW d \in Deployments, AcquireRefused(t, d)
      PROVE Accounted(s, u)'
  BY <1>2, <1>a DEF AcquireRefused, circuitVars
<1>3. ASSUME NEW t \in Tokens, NEW d \in Deployments, AcquireDisabled(t, d)
      PROVE Accounted(s, u)'
  BY <1>3, <1>p DEF AcquireDisabled, Fresh, Accounted, HalfOpen, CircuitTypeOK
<1>b. ASSUME NEW t \in Tokens, NEW cs \in SUBSET Calls, Running(t), Issue(t, cs), probe[s] = u,
             u = t /\ HalfOpen(t, s) => \E c \in cs : c.subject = s
      PROVE Accounted(s, u)'
  BY <1>b, <1>p DEF Issue, Running, Accounted, HalfOpen, CircuitTypeOK
<1>c. ASSUME NEW t \in Tokens, permit[t] # NoPermit
      PROVE /\ permit[t].halfOpen \subseteq {permit[t].deployment, CapacityOf[permit[t].deployment]}
            /\ permit[t].halfOpen # {} => permit[t].enabled
            /\ permit[t].deployment # CapacityOf[permit[t].deployment]
            /\ permit[t].deployment \in Subjects
            /\ CapacityOf[permit[t].deployment] \in Subjects
  BY <1>c, RunningPermit DEF PermitShape, SubjectsOf, Subjects, Capacities
<1>d. ASSUME NEW t \in Tokens, NEW r \in Subjects, NEW r2 \in Subjects, NEW mode,
             Running(t), RecordFailure(t, r, mode), permit[t].halfOpen \subseteq {r, r2},
             permit[t].halfOpen # {} => permit[t].enabled,
             Issue(t, {[op |-> "close", subject |-> r2]})
      PROVE Accounted(s, u)'
  <2>1. probe[s] = u
    BY <1>d DEF RecordFailure, CircuitTypeOK, Opens, Counts, subjectVars
  <2>2. ASSUME u = t, HalfOpen(t, s), s = r PROVE FALSE
    <3>1. Opens(t, r, mode)
      BY <1>d, <2>1, <2>2, <1>p DEF Opens, HalfOpen
    <3> QED BY <1>d, <2>1, <2>2, <3>1 DEF RecordFailure, Counts, Opens, CircuitTypeOK
  <2>3. {[op |-> "close", subject |-> r2]} \in SUBSET Calls
    BY DEF Calls
  <2> QED BY <1>b, <1>d, <2>1, <2>2, <2>3 DEF HalfOpen
<1>4. ASSUME NEW t \in Tokens, TransientFailure(t) PROVE Accounted(s, u)'
  BY <1>4, <1>c, <1>d DEF TransientFailure, Running
<1>5. ASSUME NEW t \in Tokens, ConfigurationFailure(t) PROVE Accounted(s, u)'
  BY <1>5, <1>c, <1>d DEF ConfigurationFailure, Running
<1>6. ASSUME NEW t \in Tokens, ThrottleFailure(t) PROVE Accounted(s, u)'
  <2>1. permit[t].halfOpen \subseteq {CapacityOf[permit[t].deployment], permit[t].deployment}
    BY <1>6, <1>c DEF ThrottleFailure, Running
  <2> QED BY <1>6, <2>1, <1>c, <1>d DEF ThrottleFailure, Running
<1>7. ASSUME NEW t \in Tokens, CloseCircuits(t) PROVE Accounted(s, u)'
  <2> DEFINE cs == {[op |-> "close", subject |-> r] : r \in SubjectsOf(permit[t].deployment)}
  <2>1. cs \in SUBSET Calls
    BY <1>7, RunningPermit DEF CloseCircuits, Running, Calls
  <2>2. probe[s] = u /\ Running(t) /\ Issue(t, cs)
    BY <1>7 DEF CloseCircuits, subjectVars
  <2>3. u = t /\ HalfOpen(t, s) => \E c \in cs : c.subject = s
    <3>1. HalfOpen(t, s) => [op |-> "close", subject |-> s] \in cs
      BY <1>7, <1>c DEF CloseCircuits, Running, HalfOpen, SubjectsOf
    <3>2. [op |-> "close", subject |-> s].subject = s
      OBVIOUS
    <3> QED BY <3>1, <3>2
  <2> HIDE DEF cs
  <2> QED BY <2>1, <2>2, <2>3, <1>b
<1>8. ASSUME NEW t \in Tokens, ReleasePermit(t) PROVE Accounted(s, u)'
  <2> DEFINE cs == {[op |-> "release", subject |-> r] : r \in permit[t].halfOpen}
  <2>1. cs \in SUBSET Calls
    BY <1>8, RunningPermit DEF ReleasePermit, Running, Calls
  <2>2. probe[s] = u /\ Running(t) /\ Issue(t, cs)
    BY <1>8 DEF ReleasePermit, subjectVars
  <2>3. u = t /\ HalfOpen(t, s) => \E c \in cs : c.subject = s
    <3>1. HalfOpen(t, s) => [op |-> "release", subject |-> s] \in cs
      BY DEF HalfOpen
    <3>2. [op |-> "release", subject |-> s].subject = s
      OBVIOUS
    <3> QED BY <3>1, <3>2
  <2> HIDE DEF cs
  <2> QED BY <2>1, <2>2, <2>3, <1>b
<1>e. ASSUME NEW t \in Tokens, NEW r \in Subjects, NEW op, Finish(t, [op |-> op, subject |-> r]),
             probe[s] = u, s = r => u # t
      PROVE Accounted(s, u)'
  BY <1>e, <1>p DEF Finish, Accounted, HalfOpen, CircuitTypeOK
<1>9. ASSUME NEW t \in Tokens, NEW r \in Subjects, CloseSubject(t, r) PROVE Accounted(s, u)'
  <2>1. probe[s] = u
    BY <1>9 DEF CloseSubject, CircuitTypeOK, subjectVars
  <2>2. ASSUME s = r, u = t, ~HalfOpen(t, r) PROVE t \in crashed
    BY <2>1, <2>2, <1>p DEF Accounted
  <2>3. ASSUME s = r, u = t, HalfOpen(t, r) PROVE FALSE
    BY <1>9, <2>1, <2>3 DEF CloseSubject, CircuitTypeOK
  <2>4. CASE u \in crashed
    BY <1>9, <2>4 DEF CloseSubject, Finish, Accounted
  <2> QED BY <1>9, <1>e, <2>1, <2>2, <2>3, <2>4 DEF CloseSubject
<1>10. ASSUME NEW t \in Tokens, NEW r \in Subjects, ReleaseSubject(t, r) PROVE Accounted(s, u)'
  <2>1. probe[s] = u /\ (s = r => u # t)
    BY <1>10 DEF ReleaseSubject, CircuitTypeOK
  <2> QED BY <1>10, <1>e, <2>1 DEF ReleaseSubject
<1>11. ASSUME NEW t \in Tokens, CrashAttempt(t) PROVE Accounted(s, u)'
  BY <1>11, <1>p DEF CrashAttempt, Accounted, HalfOpen, CircuitTypeOK, subjectVars
<1>12. ASSUME NEW r \in Subjects, Expiry(r) PROVE Accounted(s, u)'
  BY <1>12, <1>a DEF Expiry, CooldownExpires, WindowExpires, ProbeExpires, HistoryExpires, CircuitTypeOK
<1>13. CASE UNCHANGED circuitVars
  BY <1>13, <1>a DEF circuitVars
<1> QED
  BY <1>1, <1>2, <1>3, <1>4, <1>5, <1>6, <1>7, <1>8, <1>9, <1>10, <1>11, <1>12, <1>13
     DEF CircuitNext, Attempt

\* Only a crash leaves a probe behind: in every other case its owner gives it
\* back, whatever other attempts, reports and expiries happen in between.
THEOREM ProbesAreAccounted == CircuitSpec => []ProbeAccounted
<1> DEFINE Inv == /\ CircuitTypeOK /\ FailuresOnlyWhileClosed /\ OpenHasHistory
                  /\ PermitShape /\ ProbeRecovers /\ ProbeAccounted
<1>1. CircuitInit => Inv
  BY CircuitAssumption
     DEF CircuitInit, CircuitTypeOK, Subjects, FailuresOnlyWhileClosed, OpenHasHistory,
         PermitShape, ProbeRecovers, ProbeAccounted
<1>2. Inv /\ [CircuitNext]_circuitVars => Inv'
  BY CircuitTypeStep, KeysStep, PermitStep, ProbeRecoversStep, ProbeAccountedStep
<1> QED BY <1>1, <1>2, PTL DEF CircuitSpec
-----------------------------------------------------------------------------
(* Admission, for any number of attempts: reservations are covered, limits *)
(* hold and usage is counted once.  Sums are cardinalities of Units(f), so *)
(* the only arithmetic is that of adding or removing the units of one      *)
(* attempt.                                                                *)

MaxUnits == MaxReservation + Overrun
Tallies == [Attempts -> 0..MaxUnits]

Own(a, n) == {a} \X (1..n)

USE AdmissionAssumption

\* The units one attempt holds.
LEMMA OwnUnits ==
    ASSUME NEW a, NEW n \in Nat
    PROVE  IsFiniteSet(Own(a, n)) /\ Cardinality(Own(a, n)) = n
<1>1. IsFiniteSet(1..n) /\ Cardinality(1..n) = n
  BY FS_Interval
<1>2. IsFiniteSet({a}) /\ Cardinality({a}) = 1
  BY FS_Singleton
<1>3. IsFiniteSet({a} \X (1..n)) /\ Cardinality({a} \X (1..n)) = 1 * n
  BY <1>1, <1>2, FS_Product
<1> QED  BY <1>3 DEF Own

LEMMA UnitsFinite ==
    ASSUME NEW f
    PROVE  IsFiniteSet(Units(f)) /\ Cardinality(Units(f)) \in Nat
<1>1. IsFiniteSet(Attempts \X (1..MaxUnits))
  <2>1. IsFiniteSet(Attempts) /\ MaxUnits \in Nat
    BY DEF AdmissionAssumption, MaxUnits
  <2>2. IsFiniteSet(1..MaxUnits)
    BY <2>1, FS_Interval
  <2> QED  BY <2>1, <2>2, FS_Product
<1>2. Units(f) \subseteq Attempts \X (1..MaxUnits)
  BY DEF Units, MaxUnits
<1> QED  BY <1>1, <1>2, FS_Subset, FS_CardinalityType

\* Giving n units to an attempt that had none.
LEMMA UnitsAdd ==
    ASSUME NEW f \in Tallies, NEW g \in Tallies, NEW a \in Attempts,
           f[a] = 0, \A b \in Attempts \ {a} : g[b] = f[b]
    PROVE  Cardinality(Units(g)) = Cardinality(Units(f)) + g[a]
<1>1. g[a] \in Nat /\ g[a] <= MaxUnits
  BY DEF Tallies, MaxUnits
<1>2. Units(g) = Units(f) \cup Own(a, g[a])
  <2>1. ASSUME NEW u \in Units(g) PROVE u \in Units(f) \cup Own(a, g[a])
    BY <1>1 DEF Units, Own
  <2>2. ASSUME NEW u \in Units(f) PROVE u \in Units(g)
    <3>1. u \in Attempts \X (1..MaxUnits) /\ u[2] <= f[u[1]] /\ u[2] \in Nat /\ u[2] >= 1
      BY DEF Units, MaxUnits
    <3>2. u[1] # a
      BY <3>1
    <3> QED  BY <3>1, <3>2 DEF Units, MaxUnits
  <2>3. ASSUME NEW u \in Own(a, g[a]) PROVE u \in Units(g)
    BY <1>1 DEF Units, Own, MaxUnits
  <2> QED  BY <2>1, <2>2, <2>3
<1>3. Units(f) \cap Own(a, g[a]) = {}
  <2> SUFFICES ASSUME NEW u \in Units(f), u \in Own(a, g[a]) PROVE FALSE
    OBVIOUS
  <2>1. u[1] = a /\ u[2] \in Nat /\ u[2] >= 1
    BY <1>1 DEF Own
  <2>2. u[2] <= f[u[1]]
    BY DEF Units
  <2> QED  BY <2>1, <2>2
<1>4. /\ IsFiniteSet(Units(f)) /\ IsFiniteSet(Own(a, g[a]))
      /\ Cardinality(Own(a, g[a])) = g[a]
      /\ Cardinality(Units(f)) \in Nat
  BY <1>1, UnitsFinite, OwnUnits
<1>5. Cardinality(Units(f) \cap Own(a, g[a])) = 0
  BY <1>3, FS_EmptySet
<1>6. Cardinality(Units(f) \cup Own(a, g[a]))
        = Cardinality(Units(f)) + Cardinality(Own(a, g[a]))
            - Cardinality(Units(f) \cap Own(a, g[a]))
  BY <1>4, FS_Union
<1> QED  BY <1>1, <1>2, <1>4, <1>5, <1>6

LEMMA NoUnits ==
    ASSUME NEW f, \A a \in Attempts : f[a] = 0
    PROVE  Cardinality(Units(f)) = 0
<1>1. Units(f) = {}
  BY DEF Units
<1> QED  BY <1>1, FS_EmptySet
-----------------------------------------------------------------------------
(* Typing, and who can still hold or have used anything.                   *)

Owners ==
    \A a \in Attempts :
        /\ attempt[a].reserved <= MaxReservation
        /\ attempt[a].used <= MaxUnits
        /\ attempt[a].phase = "idle" => a \notin leases
        /\ a \in leases \/ attempt[a].phase \in {"idle", "resent"} => attempt[a].used = 0
        /\ a \in overdue => ~attempt[a].current
        /\ ~MayResend => attempt[a].phase # "resent"

Typed == TypeOK /\ Owners

LEMMA UnexpiredFinite ==
    ASSUME TypeOK
    PROVE  Cardinality(Unexpired) \in Nat /\ \A a : Cardinality(leases \ {a}) \in Nat
<1>1. leases \subseteq Attempts /\ IsFiniteSet(Attempts)
  BY DEF TypeOK, AdmissionAssumption
<1>2. IsFiniteSet(Unexpired) /\ \A a : IsFiniteSet(leases \ {a})
  BY <1>1, FS_Subset DEF Unexpired
<1> QED  BY <1>2, FS_CardinalityType

LEMMA StartTyped ==
    ASSUME Typed, NEW a \in Attempts, NEW r \in 0..MaxReservation, Start(a, r)
    PROVE  Typed'
<1>1. r \in Nat /\ r <= MaxReservation
  BY DEF AdmissionAssumption
<1>2. Cardinality(Unexpired) \in Nat
  BY UnexpiredFinite DEF Typed
<1>3. CASE Fits(r) /\ Admit(a, r)
  <2>1. PICK p \in Replies("live", "resent") :
          attempt' = [attempt EXCEPT ![a] =
                        [@ EXCEPT !.phase = p, !.current = TRUE, !.reserved = r]]
    BY <1>3 DEF Start
  <2>2. p \in Phases \ {"idle"} /\ (~MayResend => p # "resent")
    BY DEF Replies, Phases
  <2>3. attempt' \in [Attempts -> AttemptRecord]
    BY <1>1, <2>1, <2>2 DEF Typed, TypeOK, AttemptRecord, Phases
  <2>4. /\ leases' \subseteq leases \cup {a} /\ overdue' = {}
        /\ inflight' \in Nat /\ rpm' \in Nat /\ tpm' \in Nat /\ reserved' \in Nat
    BY <1>1, <1>2, <1>3 DEF Admit, Enter, Unexpired, Typed, TypeOK
  <2>5. attempt[a].used = 0
    BY DEF Start, Typed, Owners
  <2> QED
    BY <1>1, <2>1, <2>2, <2>3, <2>4, <2>5 DEF Typed, TypeOK, Owners, AttemptRecord
<1>4. CASE /\ ~Fits(r) /\ Reclaim /\ UNCHANGED counters
           /\ attempt' = [attempt EXCEPT ![a].phase = "done"]
  <2>1. attempt' \in [Attempts -> AttemptRecord]
    BY <1>4 DEF Typed, TypeOK, AttemptRecord, Phases
  <2>2. /\ leases' \subseteq leases /\ overdue' = {}
        /\ inflight' \in Nat /\ rpm' \in Nat /\ tpm' \in Nat /\ reserved' \in Nat
    BY <1>2, <1>4 DEF Reclaim, Unexpired, counters, Typed, TypeOK
  <2> QED
    BY <1>4, <2>1, <2>2 DEF Typed, TypeOK, Owners, AttemptRecord
<1> QED  BY <1>3, <1>4 DEF Start

LEMMA ResendTyped ==
    ASSUME Typed, NEW a \in Attempts, Resend(a)
    PROVE  Typed'
BY UnexpiredFinite DEF Typed, TypeOK, Owners, AttemptRecord, Phases, AdmissionAssumption,
   MaxUnits, Resend, Admit, Enter, Reclaim, counters, Unexpired

LEMMA SettleTyped ==
    ASSUME Typed, NEW a \in Attempts, NEW used \in Usages(a),
           NEW phase \in {"live", "resettling"}, SettleFrom(a, phase, used)
    PROVE  Typed'
<1>1. used \in Nat /\ used <= MaxUnits
  BY DEF Typed, TypeOK, Owners, AttemptRecord, AdmissionAssumption, MaxUnits, Usages
<1>2. PICK p \in Replies("done", "resettling") :
        attempt' = [attempt EXCEPT ![a] =
                      [@ EXCEPT !.phase = p, !.used = Counted(a, used)]]
  BY DEF SettleFrom
<1>3. p \in {"done", "resettling"}
  BY DEF Replies
<1>4. Settle(a, used) /\ attempt[a].phase = phase
  BY DEF SettleFrom
<1>5. Counted(a, used) \in Nat /\ Counted(a, used) <= MaxUnits
  BY <1>1 DEF Counted, Typed, TypeOK, Owners, AttemptRecord
<1>7. attempt' \in [Attempts -> AttemptRecord]
  BY <1>2, <1>3, <1>5 DEF Typed, TypeOK, AttemptRecord, Phases
<1>8. /\ leases' \subseteq leases /\ a \notin leases'
      /\ overdue' \subseteq overdue /\ overdue' \subseteq leases'
      /\ inflight' \in Nat /\ rpm' \in Nat /\ tpm' \in Nat /\ reserved' \in Nat
  <2>1. Cardinality(leases \ {a}) \in Nat
    BY UnexpiredFinite DEF Typed
  <2>2. attempt[a].reserved \in Nat
    BY DEF Typed, TypeOK, AttemptRecord
  <2> QED  BY <1>1, <1>4, <2>1, <2>2 DEF Settle, Typed, TypeOK
<1>9. a \in leases => attempt[a].phase # "idle"
  BY DEF Typed, Owners
<1> QED
  BY <1>2, <1>3, <1>5, <1>7, <1>8, <1>9 DEF Typed, TypeOK, Owners, AttemptRecord

\* Every settlement is one of SettleFrom.
LEMMA Settlements ==
    ASSUME NEW a \in Attempts, TypeOK, FinishUsing(a) \/ FinishUnused(a) \/ Resettle(a)
    PROVE  \E used \in Usages(a), phase \in {"live", "resettling"} : SettleFrom(a, phase, used)
<1>1. 0 \in Usages(a)
  BY DEF TypeOK, AttemptRecord, Usages, AdmissionAssumption
<1> QED  BY <1>1 DEF FinishUsing, FinishUnused, Resettle

LEMMA RestTyped ==
    ASSUME Typed,
           \/ \E a \in Attempts : Crash(a) \/ LeaseDeadline(a)
           \/ NextMinute \/ LeaseKeyExpires \/ InflightKeyExpires \/ RedisLost
           \/ UNCHANGED vars
    PROVE  Typed'
<1> USE DEF Typed, TypeOK, Owners, AttemptRecord, Phases, AdmissionAssumption, MaxUnits, counters
<1>1. ASSUME NEW a \in Attempts, Crash(a) PROVE Typed'
  BY <1>1 DEF Crash
<1>2. ASSUME NEW a \in Attempts, LeaseDeadline(a) PROVE Typed'
  BY <1>2 DEF LeaseDeadline
<1>3. CASE NextMinute
  <2>1. attempt' = [a \in Attempts |-> [attempt[a] EXCEPT !.current = FALSE, !.used = 0]]
    BY <1>3 DEF NextMinute
  <2>2. \A a \in Attempts : [attempt[a] EXCEPT !.current = FALSE, !.used = 0] \in AttemptRecord
    OBVIOUS
  <2>3. attempt' \in [Attempts -> AttemptRecord]
    BY <2>1, <2>2
  <2>4. UNCHANGED <<leases, overdue, inflight>> /\ rpm' = 0 /\ tpm' = 0 /\ reserved' = 0
    BY <1>3 DEF NextMinute
  <2>5. \A a \in Attempts :
          /\ attempt'[a].phase = attempt[a].phase /\ attempt'[a].reserved = attempt[a].reserved
          /\ attempt'[a].used = 0 /\ ~attempt'[a].current
    BY <2>1
  <2> QED  BY <2>3, <2>4, <2>5
<1>4. CASE LeaseKeyExpires
  BY <1>4 DEF LeaseKeyExpires
<1>5. CASE InflightKeyExpires
  BY <1>5 DEF InflightKeyExpires
<1>6. CASE RedisLost
  BY <1>6 DEF RedisLost
<1>7. CASE UNCHANGED vars
  BY <1>7 DEF vars
<1> QED  BY <1>1, <1>2, <1>3, <1>4, <1>5, <1>6, <1>7

LEMMA StepTyped == Typed /\ [Next]_vars => Typed'
<1> SUFFICES ASSUME Typed, [Next]_vars PROVE Typed'
  OBVIOUS
<1>1. ASSUME NEW a \in Attempts, FinishUsing(a) \/ FinishUnused(a) \/ Resettle(a)
      PROVE Typed'
  BY <1>1, Settlements, SettleTyped DEF Typed
<1> QED  BY <1>1, StartTyped, ResendTyped, RestTyped DEF Next

LEMMA InitTyped == Init => Typed
BY DEF Init, Typed, TypeOK, Owners, AttemptRecord, Phases, AdmissionAssumption, MaxUnits

\* Every counter, lease and attempt keeps its type (router/state.ts).
THEOREM TypeCorrect == Spec => []TypeOK
<1>1. Typed => TypeOK
  BY DEF Typed
<1> QED  BY <1>1, InitTyped, StepTyped, PTL DEF Spec
-----------------------------------------------------------------------------
(* What each step does to the held and the used tokens.                    *)

Used == [a \in Attempts |-> attempt[a].used]

LEMMA AreTallies == Typed => Held \in Tallies /\ Used \in Tallies
BY DEF Typed, TypeOK, Owners, AttemptRecord, AdmissionAssumption, MaxUnits, Tallies, Held, Used

LEMMA AreTalliesNext == Typed' => Held' \in Tallies /\ Used' \in Tallies
BY DEF Typed, TypeOK, Owners, AttemptRecord, AdmissionAssumption, MaxUnits, Tallies, Held, Used

\* A step adds x to the held tokens, or takes x from them.
Grows(x) == Cardinality(Units(Held')) = Cardinality(Units(Held)) + x
Shrinks(x) == Cardinality(Units(Held)) = Cardinality(Units(Held')) + x

LEMMA HeldGrows ==
    ASSUME Typed, Typed', NEW a \in Attempts, NEW x, Held[a] = 0, Held'[a] = x,
           \A b \in Attempts \ {a} : Held'[b] = Held[b]
    PROVE  Grows(x)
<1> DEFINE f == Held
           g == Held'
<1>1. f \in Tallies /\ g \in Tallies
  BY AreTallies, AreTalliesNext
<1>2. f[a] = 0 /\ g[a] = x /\ \A b \in Attempts \ {a} : g[b] = f[b]
  OBVIOUS
<1> HIDE DEF f, g
<1>3. Cardinality(Units(g)) = Cardinality(Units(f)) + x
  BY <1>1, <1>2, UnitsAdd
<1> QED  BY <1>3 DEF Grows, f, g

LEMMA HeldShrinks ==
    ASSUME Typed, Typed', NEW a \in Attempts, NEW x, Held[a] = x, Held'[a] = 0,
           \A b \in Attempts \ {a} : Held'[b] = Held[b]
    PROVE  Shrinks(x)
<1> DEFINE f == Held
           g == Held'
<1>1. f \in Tallies /\ g \in Tallies
  BY AreTallies, AreTalliesNext
<1>2. f[a] = x /\ g[a] = 0 /\ \A b \in Attempts \ {a} : f[b] = g[b]
  OBVIOUS
<1> HIDE DEF f, g
<1>3. Cardinality(Units(f)) = Cardinality(Units(g)) + x
  BY <1>1, <1>2, UnitsAdd
<1> QED  BY <1>3 DEF Shrinks, f, g

LEMMA HeldSame == ASSUME Held' = Held, TypeOK PROVE Grows(0)
BY UnitsFinite DEF Grows

\* The four ways a step may move the reserved and the used tokens.
Reserves ==
    \E r \in Nat : \E x \in {0, r} :
        /\ Grows(x) /\ (~MayResend => x = r)
        /\ reserved' = reserved + r /\ tpm' = tpm
        /\ tpm + reserved + r <= TpmLimit
Exchanges ==
    \E x \in Nat, used \in Nat :
        /\ Shrinks(x) /\ used <= x + Overrun
        /\ reserved' = (IF reserved > x THEN reserved - x ELSE 0) /\ tpm' = tpm + used
Keeps == Grows(0) /\ UNCHANGED <<reserved, tpm>>
Clears == Cardinality(Units(Held')) = 0 /\ reserved' = 0 /\ tpm' = 0

LEMMA StartMoves ==
    ASSUME Typed, Typed', NEW a \in Attempts, NEW r \in 0..MaxReservation, Start(a, r)
    PROVE  Reserves \/ Keeps
<1>1. r \in Nat
  BY DEF AdmissionAssumption
<1>2. attempt[a].phase = "idle" /\ a \notin leases
  BY DEF Start, Typed, Owners
<1>3. CASE Fits(r) /\ Admit(a, r)
  <2>1. PICK p \in Replies("live", "resent") :
          attempt' = [attempt EXCEPT ![a] =
                        [@ EXCEPT !.phase = p, !.current = TRUE, !.reserved = r]]
    BY <1>3 DEF Start
  <2>2. attempt'[a].current /\ attempt'[a].reserved = r
    BY <2>1 DEF Typed, TypeOK, AttemptRecord
  <2>3. leases' = Unexpired \cup {a}
    BY <1>3 DEF Admit, Enter
  <2>4. Held[a] = 0 /\ Held'[a] = r
    BY <1>2, <2>2, <2>3 DEF Held
  <2>5. ASSUME NEW b \in Attempts \ {a} PROVE Held'[b] = Held[b]
    <3>1. attempt'[b] = attempt[b] /\ (b \in overdue => ~attempt[b].current)
      BY <2>1 DEF Typed, TypeOK, Owners
    <3>2. b \in leases' <=> b \in leases /\ b \notin overdue
      BY <2>3 DEF Unexpired
    <3> QED  BY <3>1, <3>2 DEF Held
  <2>6. Grows(r)
    BY <2>4, <2>5, HeldGrows
  <2> QED  BY <1>1, <1>3, <2>6 DEF Reserves, Fits, Admit
<1>4. CASE /\ Reclaim /\ UNCHANGED counters
           /\ attempt' = [attempt EXCEPT ![a].phase = "done"]
  <2>1. ASSUME NEW b \in Attempts PROVE Held'[b] = Held[b]
    <3>1. /\ attempt'[b].current = attempt[b].current
          /\ attempt'[b].reserved = attempt[b].reserved
          /\ b \in overdue => ~attempt[b].current
      BY <1>4 DEF Typed, TypeOK, Owners, AttemptRecord
    <3>2. b \in leases' <=> b \in leases /\ b \notin overdue
      BY <1>4 DEF Unexpired, Reclaim
    <3> QED  BY <3>1, <3>2 DEF Held
  <2>2. Held' = Held
    BY <2>1 DEF Held
  <2> QED  BY <1>4, <2>2, HeldSame DEF Keeps, counters, Typed
<1> QED  BY <1>3, <1>4 DEF Start

LEMMA ResendMoves ==
    ASSUME Typed, Typed', NEW a \in Attempts, Resend(a)
    PROVE  Reserves \/ Keeps
<1>1. MayResend /\ attempt[a].phase = "resent" /\ attempt[a].reserved \in Nat
  BY DEF Resend, Typed, TypeOK, Owners, AttemptRecord
<1>2. \A b \in Attempts : /\ attempt'[b].current = attempt[b].current
                          /\ attempt'[b].reserved = attempt[b].reserved
                          /\ b \in overdue => ~attempt[b].current
  BY DEF Resend, Typed, TypeOK, Owners, AttemptRecord
<1>3. CASE attempt[a].current /\ Fits(attempt[a].reserved) /\ Admit(a, attempt[a].reserved)
  <2>1. leases' = Unexpired \cup {a}
    BY <1>3 DEF Admit, Enter
  <2>2. ASSUME NEW b \in Attempts \ {a} PROVE Held'[b] = Held[b]
    <3>1. b \in leases' <=> b \in leases /\ b \notin overdue
      BY <2>1 DEF Unexpired
    <3> QED  BY <1>2, <3>1 DEF Held
  <2>3. Held'[a] = attempt[a].reserved
    BY <1>2, <1>3, <2>1 DEF Held
  <2>4. CASE a \in leases
    <3>1. Held[a] = attempt[a].reserved
      BY <1>3, <2>4 DEF Held
    <3>2. Held' = Held
      BY <2>2, <2>3, <3>1 DEF Held
    <3>3. Grows(0)
      BY <3>2, HeldSame DEF Typed
    <3> QED  BY <1>1, <1>3, <3>3 DEF Reserves, Fits, Admit
  <2>5. CASE a \notin leases
    <3>1. Held[a] = 0
      BY <2>5 DEF Held
    <3>2. Grows(attempt[a].reserved)
      BY <2>2, <2>3, <3>1, HeldGrows
    <3> QED  BY <1>1, <1>3, <3>2 DEF Reserves, Fits, Admit
  <2> QED  BY <2>4, <2>5
<1>4. CASE /\ UNCHANGED counters
           /\ Reclaim \/ (~attempt[a].current /\ Enter(a))
  <2>1. ASSUME NEW b \in Attempts PROVE Held'[b] = Held[b]
    <3>1. (b \in leases' <=> b \in leases /\ b \notin overdue) \/ ~attempt[b].current
      BY <1>4 DEF Unexpired, Reclaim, Enter
    <3> QED  BY <1>2, <3>1 DEF Held
  <2>2. Held' = Held
    BY <2>1 DEF Held
  <2> QED  BY <1>4, <2>2, HeldSame DEF Keeps, counters, Typed
<1> QED  BY <1>3, <1>4 DEF Resend

LEMMA SettleMoves ==
    ASSUME Typed, Typed', NEW a \in Attempts, NEW used \in Usages(a),
           NEW phase \in {"live", "resettling"}, SettleFrom(a, phase, used)
    PROVE  Exchanges \/ Keeps
<1>1. \A b \in Attempts : /\ attempt'[b].current = attempt[b].current
                          /\ attempt'[b].reserved = attempt[b].reserved
  BY DEF SettleFrom, Typed, TypeOK, AttemptRecord
<1>2. Settle(a, used)
  BY DEF SettleFrom
<1>3. attempt[a].reserved \in Nat /\ used \in Nat /\ used <= attempt[a].reserved + Overrun
  BY DEF Usages, Typed, TypeOK, AttemptRecord, AdmissionAssumption
<1>4. CASE a \in leases /\ attempt[a].current
  <2>1. Held[a] = attempt[a].reserved /\ Held'[a] = 0
    BY <1>1, <1>2, <1>4 DEF Held, Settle
  <2>2. \A b \in Attempts \ {a} : Held'[b] = Held[b]
    BY <1>1, <1>2, <1>4 DEF Held, Settle
  <2>3. Shrinks(attempt[a].reserved)
    BY <2>1, <2>2, HeldShrinks
  <2> QED  BY <1>2, <1>3, <1>4, <2>3 DEF Exchanges, Settle
<1>5. CASE ~(a \in leases /\ attempt[a].current)
  <2>1. ASSUME NEW b \in Attempts PROVE Held'[b] = Held[b]
    BY <1>1, <1>2, <1>5 DEF Held, Settle
  <2>2. Held' = Held
    BY <2>1 DEF Held
  <2> QED  BY <1>2, <1>5, <2>2, HeldSame DEF Keeps, Settle, Typed
<1> QED  BY <1>4, <1>5

LEMMA RestMoves ==
    ASSUME Typed, Typed',
           \/ \E a \in Attempts : Crash(a) \/ LeaseDeadline(a)
           \/ NextMinute \/ LeaseKeyExpires \/ InflightKeyExpires \/ RedisLost
           \/ UNCHANGED vars
    PROVE  Keeps \/ Clears
<1>1. CASE \/ \E a \in Attempts : Crash(a) \/ LeaseDeadline(a)
           \/ LeaseKeyExpires \/ InflightKeyExpires \/ UNCHANGED vars
  <2>1. \A b \in Attempts : /\ attempt'[b].current = attempt[b].current
                            /\ attempt'[b].reserved = attempt[b].reserved
    BY <1>1 DEF Crash, LeaseDeadline, LeaseKeyExpires, InflightKeyExpires, vars,
                Typed, TypeOK, AttemptRecord
  <2>2. /\ UNCHANGED <<reserved, tpm>>
        /\ leases' = leases \/ (leases' = {} /\ leases \subseteq overdue)
    BY <1>1 DEF Crash, LeaseDeadline, LeaseKeyExpires, InflightKeyExpires, vars, counters,
                Unexpired
  <2>3. \A b \in Attempts : Held'[b] = Held[b]
    BY <2>1, <2>2 DEF Held, Typed, Owners
  <2>4. Held' = Held
    BY <2>3 DEF Held
  <2> QED  BY <2>2, <2>4, HeldSame DEF Keeps, Typed
<1>2. CASE NextMinute \/ RedisLost
  <2>1. \A b \in Attempts : ~attempt'[b].current \/ b \notin leases'
    BY <1>2 DEF NextMinute, RedisLost, Typed, TypeOK, AttemptRecord
  <2>2. \A b \in Attempts : Held'[b] = 0
    BY <2>1 DEF Held
  <2>3. Cardinality(Units(Held')) = 0
    BY <2>2, NoUnits
  <2> QED  BY <1>2, <2>3 DEF Clears, NextMinute, RedisLost
<1> QED  BY <1>1, <1>2

LEMMA StepMoves ==
    ASSUME Typed, Typed', [Next]_vars PROVE Reserves \/ Exchanges \/ Keeps \/ Clears
<1>1. ASSUME NEW a \in Attempts, FinishUsing(a) \/ FinishUnused(a) \/ Resettle(a)
      PROVE Exchanges \/ Keeps
  BY <1>1, Settlements, SettleMoves DEF Typed
<1> QED  BY <1>1, StartMoves, ResendMoves, RestMoves DEF Next
-----------------------------------------------------------------------------
(* The invariants.                                                         *)

TokensWithin == Overrun = 0 => tpm + reserved <= TpmLimit
RequestsWithin == rpm <= RpmLimit

LEMMA InitHolds == Init => ReservedCoversLeases /\ TokensWithin /\ RequestsWithin
<1> SUFFICES ASSUME Init PROVE ReservedCoversLeases /\ TokensWithin /\ RequestsWithin
  OBVIOUS
<1>1. \A a \in Attempts : Held[a] = 0
  BY DEF Init, Held
<1>2. Cardinality(Units(Held)) = 0
  BY <1>1, NoUnits
<1> QED
  BY <1>2 DEF Init, ReservedCoversLeases, TokensWithin, RequestsWithin, AdmissionAssumption

LEMMA StepCovers ==
    ASSUME Typed, Typed', ReservedCoversLeases, [Next]_vars
    PROVE  ReservedCoversLeases'
<1> DEFINE now == Cardinality(Units(Held))
           next == Cardinality(Units(Held'))
<1>1. now \in Nat /\ next \in Nat /\ reserved \in Nat
  BY UnitsFinite DEF Typed, TypeOK
<1>2. now <= reserved /\ (~MayResend => now = reserved)
  BY DEF ReservedCoversLeases
<1>3. next <= reserved' /\ (~MayResend => next = reserved')
  <2>1. CASE Reserves  BY <1>1, <1>2, <2>1 DEF Reserves, Grows
  <2>2. CASE Exchanges  BY <1>1, <1>2, <2>2 DEF Exchanges, Shrinks
  <2>3. CASE Keeps  BY <1>1, <1>2, <2>3 DEF Keeps, Grows
  <2>4. CASE Clears  BY <2>4 DEF Clears
  <2> QED  BY <2>1, <2>2, <2>3, <2>4, StepMoves
<1> QED  BY <1>3 DEF ReservedCoversLeases

\* The reserved counter always covers the reservations of this minute's leases,
\* exactly so unless a command was resent (START_ and SETTLE_ATTEMPT_LUA).
THEOREM ReservationsCovered == Spec => []ReservedCoversLeases
BY InitTyped, InitHolds, StepTyped, StepCovers, PTL DEF Spec

LEMMA StepTokensWithin ==
    ASSUME Typed, Typed', ReservedCoversLeases, TokensWithin, [Next]_vars
    PROVE  TokensWithin'
<1>1. Cardinality(Units(Held)) <= reserved /\ Cardinality(Units(Held')) \in Nat
  BY UnitsFinite DEF ReservedCoversLeases
<1>2. tpm \in Nat /\ reserved \in Nat /\ TpmLimit \in Nat
  BY DEF Typed, TypeOK, AdmissionAssumption
<1>3. CASE Reserves  BY <1>2, <1>3 DEF Reserves, TokensWithin
<1>4. CASE Exchanges
  <2> SUFFICES ASSUME Overrun = 0 PROVE tpm' + reserved' <= TpmLimit
    BY DEF TokensWithin
  <2>1. PICK x \in Nat, used \in Nat :
          /\ Shrinks(x) /\ used <= x + Overrun
          /\ reserved' = (IF reserved > x THEN reserved - x ELSE 0) /\ tpm' = tpm + used
    BY <1>4 DEF Exchanges
  <2>2. x <= reserved
    BY <1>1, <1>2, <2>1 DEF Shrinks
  <2> QED  BY <1>2, <2>1, <2>2 DEF TokensWithin
<1>5. CASE Keeps  BY <1>5 DEF Keeps, TokensWithin
<1>6. CASE Clears  BY <1>2, <1>6 DEF Clears, TokensWithin
<1> QED  BY <1>3, <1>4, <1>5, <1>6, StepMoves

LEMMA StepRequestsWithin ==
    ASSUME Typed, RequestsWithin, [Next]_vars
    PROVE  RequestsWithin'
<1>1. rpm' = rpm \/ rpm' = 0 \/ (rpm' = rpm + 1 /\ rpm + 1 <= RpmLimit)
  BY DEF Next, Start, Resend, FinishUsing, FinishUnused, Resettle, SettleFrom, Settle, Crash,
         LeaseDeadline, NextMinute, LeaseKeyExpires, InflightKeyExpires, RedisLost, vars,
         Fits, Admit, Reclaim, Enter, counters
<1> QED  BY <1>1 DEF RequestsWithin, AdmissionAssumption

\* RPM always, and TPM when usage stays within its reservation, hold for every
\* number of attempts, replicas, crashes and resent commands.
THEOREM LimitsHold == Spec => []WithinLimits
<1>1. RequestsWithin /\ TokensWithin => WithinLimits
  BY DEF WithinLimits, RequestsWithin, TokensWithin
<1> QED
  BY <1>1, InitTyped, InitHolds, StepTyped, StepCovers, StepTokensWithin, StepRequestsWithin,
     PTL DEF Spec
-----------------------------------------------------------------------------
(* Usage.                                                                  *)

LEMMA UsedSame ==
    ASSUME UsageCountedOnce, Used' = Used, tpm' = tpm
    PROVE  UsageCountedOnce'
BY DEF UsageCountedOnce, Used

LEMMA SettleCounts ==
    ASSUME Typed, Typed', UsageCountedOnce, NEW a \in Attempts, NEW used \in Usages(a),
           NEW phase \in {"live", "resettling"}, SettleFrom(a, phase, used)
    PROVE  UsageCountedOnce'
<1>1. Settle(a, used)
  BY DEF SettleFrom
<1>2. /\ Used'[a] = Counted(a, used)
      /\ \A b \in Attempts \ {a} : Used'[b] = Used[b]
  BY DEF SettleFrom, Used, Typed, TypeOK, AttemptRecord
<1>3. CASE a \in leases /\ attempt[a].current
  <2> DEFINE f == Used
             g == Used'
  <2>1. f \in Tallies /\ g \in Tallies
    BY AreTallies, AreTalliesNext
  <2>2. f[a] = 0 /\ g[a] = used
    BY <1>2, <1>3 DEF Counted, Used, Typed, Owners
  <2>3. \A b \in Attempts \ {a} : g[b] = f[b]
    BY <1>2
  <2>4. tpm = Cardinality(Units(f)) /\ tpm' = tpm + used
    BY <1>1, <1>3 DEF UsageCountedOnce, Used, Settle
  <2> HIDE DEF f, g
  <2>5. Cardinality(Units(g)) = Cardinality(Units(f)) + used
    BY <2>1, <2>2, <2>3, UnitsAdd
  <2>6. tpm' = Cardinality(Units(g))
    BY <2>4, <2>5
  <2> QED  BY <2>6 DEF UsageCountedOnce, Used, g
<1>4. CASE ~(a \in leases /\ attempt[a].current)
  <2>1. Used'[a] = Used[a]
    BY <1>2, <1>4 DEF Counted, Used
  <2>2. Used' = Used
    BY <1>2, <2>1 DEF Used
  <2>3. tpm' = tpm
    BY <1>1, <1>4 DEF Settle
  <2> QED  BY <2>2, <2>3, UsedSame
<1> QED  BY <1>3, <1>4

LEMMA StepCounts ==
    ASSUME Typed, Typed', UsageCountedOnce, [Next]_vars
    PROVE  UsageCountedOnce'
<1>1. ASSUME NEW a \in Attempts, FinishUsing(a) \/ FinishUnused(a) \/ Resettle(a)
      PROVE UsageCountedOnce'
  BY <1>1, Settlements, SettleCounts DEF Typed
<1>2. CASE NextMinute \/ RedisLost
  <2>1. \A b \in Attempts : Used'[b] = 0
    BY <1>2 DEF NextMinute, RedisLost, Used, Typed, TypeOK, AttemptRecord
  <2>2. Cardinality(Units(Used')) = 0
    BY <2>1, NoUnits
  <2> QED  BY <1>2, <2>2 DEF UsageCountedOnce, Used, NextMinute, RedisLost
<1>3. CASE \/ \E a \in Attempts :
                \/ Crash(a) \/ LeaseDeadline(a) \/ Resend(a)
                \/ \E r \in 0..MaxReservation : Start(a, r)
           \/ LeaseKeyExpires \/ InflightKeyExpires \/ UNCHANGED vars
  <2>1. \A b \in Attempts : Used'[b] = Used[b]
    <3>1. \A b \in Attempts : attempt'[b].used = attempt[b].used
      <4>1. ASSUME NEW a \in Attempts, NEW r \in 0..MaxReservation, Start(a, r)
            PROVE  \A b \in Attempts : attempt'[b].used = attempt[b].used
        <5>1. CASE \E p : attempt' = [attempt EXCEPT ![a] =
                             [@ EXCEPT !.phase = p, !.current = TRUE, !.reserved = r]]
          BY <5>1 DEF Typed, TypeOK, AttemptRecord
        <5>2. CASE attempt' = [attempt EXCEPT ![a].phase = "done"]
          BY <5>2 DEF Typed, TypeOK, AttemptRecord
        <5> QED  BY <4>1, <5>1, <5>2 DEF Start
      <4>2. ASSUME NEW a \in Attempts, Resend(a) \/ Crash(a) \/ LeaseDeadline(a)
            PROVE  \A b \in Attempts : attempt'[b].used = attempt[b].used
        BY <4>2 DEF Resend, Crash, LeaseDeadline, Typed, TypeOK, AttemptRecord
      <4> QED
        BY <1>3, <4>1, <4>2 DEF LeaseKeyExpires, InflightKeyExpires, vars
    <3> QED  BY <3>1 DEF Used
  <2>2. Used' = Used
    BY <2>1 DEF Used
  <2>3. tpm' = tpm
    BY <1>3 DEF Crash, LeaseDeadline, Resend, Start, LeaseKeyExpires, InflightKeyExpires, vars,
                Admit, counters
  <2> QED  BY <2>2, <2>3, UsedSame
<1> QED  BY <1>1, <1>2, <1>3 DEF Next

LEMMA InitCounts == Init => UsageCountedOnce
<1> SUFFICES ASSUME Init PROVE UsageCountedOnce
  OBVIOUS
<1>1. \A a \in Attempts : Used[a] = 0
  BY DEF Init, Used
<1>2. Cardinality(Units(Used)) = 0
  BY <1>1, NoUnits
<1> QED  BY <1>2 DEF UsageCountedOnce, Used, Init

\* Whatever is resent, reclaimed or lost, a settled attempt's usage is in its
\* minute's TPM counter once (SETTLE_ATTEMPT_LUA).
THEOREM UsageIsCountedOnce == Spec => []UsageCountedOnce
BY InitTyped, InitCounts, StepTyped, StepCounts, PTL DEF Spec
-----------------------------------------------------------------------------
(* The count that least-busy routing reads.                                *)

LEMMA OneMore ==
    ASSUME TypeOK, NEW a \in Attempts
    PROVE  /\ Cardinality(Unexpired) \in Nat /\ Cardinality(Unexpired \cup {a}) \in Nat
           /\ Cardinality(Unexpired \cup {a}) <= Cardinality(Unexpired) + 1
           /\ a \notin leases => Cardinality(Unexpired \cup {a}) = Cardinality(Unexpired) + 1
<1>1. IsFiniteSet(Unexpired)
  BY FS_Subset DEF TypeOK, AdmissionAssumption, Unexpired
<1>2. Cardinality(Unexpired) \in Nat
  BY <1>1, FS_CardinalityType
<1>3. Cardinality(Unexpired \cup {a}) =
        IF a \in Unexpired THEN Cardinality(Unexpired) ELSE Cardinality(Unexpired) + 1
  BY <1>1, FS_AddElement
<1>4. a \notin leases => a \notin Unexpired
  BY DEF Unexpired
<1> QED  BY <1>2, <1>3, <1>4

LEMMA EnterCovers ==
    ASSUME TypeOK, NEW a \in Attempts, Enter(a), ~MayResend => a \notin leases
    PROVE  LeastBusyCovers'
BY OneMore DEF Enter, LeastBusyCovers

LEMMA ReclaimCovers ==
    ASSUME TypeOK, Reclaim
    PROVE  LeastBusyCovers'
BY UnexpiredFinite DEF Reclaim, LeastBusyCovers

LEMMA SettleCovers ==
    ASSUME Typed, LeastBusyCovers, NEW a \in Attempts,
           FinishUsing(a) \/ FinishUnused(a) \/ Resettle(a)
    PROVE  LeastBusyCovers'
<1>1. PICK used \in Usages(a) : Settle(a, used)
  BY Settlements DEF Typed, SettleFrom
<1>2. CASE a \in leases
  <2>1. inflight' = Cardinality(leases') /\ leases' = leases \ {a}
    BY <1>1, <1>2 DEF Settle
  <2>2. Cardinality(leases \ {a}) \in Nat
    BY UnexpiredFinite DEF Typed
  <2> QED  BY <2>1, <2>2 DEF LeastBusyCovers
<1>3. CASE a \notin leases
  BY <1>1, <1>3 DEF Settle, LeastBusyCovers, Unexpired
<1> QED  BY <1>2, <1>3

\* A step of time or of Redis only ever leaves fewer live leases behind.
LEMMA RestCovers ==
    ASSUME LeastBusyCovers,
           \/ \E a \in Attempts : Crash(a) \/ LeaseDeadline(a)
           \/ NextMinute \/ LeaseKeyExpires \/ InflightKeyExpires \/ RedisLost
           \/ UNCHANGED vars
    PROVE  LeastBusyCovers'
<1>1. \/ inflight' = inflight /\ leases' = leases /\ Unexpired' \subseteq Unexpired
      \/ Unexpired' = {}
  BY DEF Crash, LeaseDeadline, NextMinute, LeaseKeyExpires, InflightKeyExpires, RedisLost, vars,
         Unexpired
<1> QED  BY <1>1 DEF LeastBusyCovers

LEMMA StepLeastBusy ==
    ASSUME Typed, LeastBusyCovers, [Next]_vars
    PROVE  LeastBusyCovers'
<1>1. ASSUME NEW a \in Attempts, NEW r \in 0..MaxReservation, Start(a, r)
      PROVE  LeastBusyCovers'
  <2>1. a \notin leases
    BY <1>1 DEF Start, Typed, Owners
  <2> QED  BY <1>1, <2>1, EnterCovers, ReclaimCovers DEF Start, Admit, Typed
<1>2. ASSUME NEW a \in Attempts, Resend(a)
      PROVE  LeastBusyCovers'
  <2>1. MayResend
    BY <1>2 DEF Resend, Typed, Owners, AdmissionAssumption
  <2> QED  BY <1>2, <2>1, EnterCovers, ReclaimCovers DEF Resend, Admit, Typed
<1> QED  BY <1>1, <1>2, SettleCovers, RestCovers DEF Next

LEMMA InitLeastBusy == Init => LeastBusyCovers
BY DEF Init, LeastBusyCovers, Unexpired

\* While any lease is live the derived count covers every lease, and without
\* resent commands it is their number: a deployment never looks idler to
\* least-busy routing than it is (START_ and SETTLE_ATTEMPT_LUA).
THEOREM LeastBusyIsCovered == Spec => []LeastBusyCovers
BY InitTyped, InitLeastBusy, StepTyped, StepLeastBusy, PTL DEF Spec
=============================================================================
