-------------------------- MODULE AttemptAdmission --------------------------
(***************************************************************************)
(* Admission of upstream attempts to one deployment (router/state.ts): the *)
(* in-flight leases behind least-busy routing and the per-minute RPM and   *)
(* TPM counters, kept in Redis by two Lua scripts.                         *)
(*                                                                         *)
(* Abstractions.  Only the current minute's counters are state: a counter  *)
(* of an earlier minute is never read again, so a lease taken then only    *)
(* still matters as a lease.  A lease passes its deadline by an action of  *)
(* its own, and not within the minute it was taken in (INFLIGHT_TTL is     *)
(* over an hour).  The Redis client resends a command whose reply was lost *)
(* (ioredis does so by default), so with MayResend a script may run twice. *)
(***************************************************************************)
EXTENDS Naturals, FiniteSets

CONSTANTS
    Attempts,      \* attempts routed to the deployment, each with a fresh lease id
    RpmLimit,      \* meta.rpmLimit
    TpmLimit,      \* meta.tpmLimit
    MaxReservation,\* largest token reservation an attempt may ask for
    Overrun,       \* tokens by which actual usage may exceed its reservation
    MayResend      \* whether a lost reply makes the client run a script again

ASSUME AdmissionAssumption ==
    /\ IsFiniteSet(Attempts)
    /\ RpmLimit \in Nat /\ TpmLimit \in Nat
    /\ MaxReservation \in Nat /\ Overrun \in Nat
    /\ MayResend \in BOOLEAN

VARIABLES
    leases,    \* rt:v2:inflight-leases: members of the sorted set
    overdue,   \* members whose score is in the past
    inflight,  \* rt:v2:inflight: derived count read by least-busy (0: no key)
    rpm,       \* rt:rpm of this minute
    tpm,       \* rt:tpm of this minute
    reserved,  \* rt:tpm-reserved of this minute
    attempt    \* the callers' side of each attempt

counters == <<rpm, tpm, reserved>>
vars == <<leases, overdue, inflight, rpm, tpm, reserved, attempt>>

(***************************************************************************)
(* An attempt: "resent" has lost the reply of its start and runs it again, *)
(* "resettling" that of its settlement.  "current" says that its bucket is *)
(* this minute, "used" is the usage this minute's counter holds for it.    *)
(***************************************************************************)
Phases == {"idle", "resent", "live", "resettling", "done"}
AttemptRecord == [phase : Phases, current : BOOLEAN, reserved : Nat, used : Nat]

\* Phases reached when a command is executed: its reply may be lost.
Replies(delivered, lost) == {delivered} \cup (IF MayResend THEN {lost} ELSE {})

Init ==
    /\ leases = {} /\ overdue = {} /\ inflight = 0
    /\ rpm = 0 /\ tpm = 0 /\ reserved = 0
    /\ attempt = [a \in Attempts |->
          [phase |-> "idle", current |-> FALSE, reserved |-> 0, used |-> 0]]
-----------------------------------------------------------------------------
(* START_ATTEMPT_LUA.  Expired leases are reclaimed before anything else.  *)

Unexpired == leases \ overdue

\* Mutated form: the script forgets that other attempts hold reservations.
FitsIgnoringReserved(r) == rpm + 1 <= RpmLimit /\ tpm + r <= TpmLimit

Fits(r) == rpm + 1 <= RpmLimit /\ tpm + reserved + r <= TpmLimit

\* Mutated form: the count is derived before the lease is added.
EnterUncounted(a) ==
    /\ leases' = Unexpired \cup {a}
    /\ overdue' = {}
    /\ inflight' = Cardinality(Unexpired)

Enter(a) ==
    /\ leases' = Unexpired \cup {a}
    /\ overdue' = {}
    /\ inflight' = Cardinality(Unexpired) + 1

Reclaim ==
    /\ leases' = Unexpired
    /\ overdue' = {}
    /\ inflight' = Cardinality(Unexpired)

\* The script accepts: it enters the lease and counts the request.
Admit(a, r) ==
    /\ Enter(a)
    /\ rpm' = rpm + 1
    /\ reserved' = reserved + r
    /\ UNCHANGED tpm

\* onAttemptStart.  The reply is delivered or, with MayResend, lost.
Start(a, r) ==
    /\ attempt[a].phase = "idle"
    /\ \/ /\ Fits(r)
          /\ Admit(a, r)
          /\ \E p \in Replies("live", "resent") :
                attempt' = [attempt EXCEPT ![a] =
                   [@ EXCEPT !.phase = p, !.current = TRUE, !.reserved = r]]
       \/ /\ ~Fits(r)
          /\ Reclaim
          /\ UNCHANGED counters
          /\ attempt' = [attempt EXCEPT ![a].phase = "done"]

\* The same command again, with the lease id and the minute of the first one.
\* In a later minute it meets counters that nobody else uses.
Resend(a) ==
    /\ attempt[a].phase = "resent"
    /\ \/ /\ attempt[a].current /\ Fits(attempt[a].reserved)
          /\ Admit(a, attempt[a].reserved)
          /\ attempt' = [attempt EXCEPT ![a].phase = "live"]
       \/ /\ ~attempt[a].current
          /\ Enter(a)
          /\ UNCHANGED counters
          /\ attempt' = [attempt EXCEPT ![a].phase = "live"]
       \/ /\ attempt[a].current => ~Fits(attempt[a].reserved)
          /\ Reclaim
          /\ UNCHANGED counters
          /\ attempt' = [attempt EXCEPT ![a].phase = "done"]
-----------------------------------------------------------------------------
(* SETTLE_ATTEMPT_LUA and its callers.                                     *)

\* Mutated forms: settling forgets the reservation; settling without the lease
\* still counts the usage.
SettleKeepingReservation(a, used) ==
    IF a \in leases
    THEN /\ leases' = leases \ {a}
         /\ overdue' = overdue \ {a}
         /\ inflight' = Cardinality(leases \ {a})
         /\ IF attempt[a].current
            THEN tpm' = tpm + used
            ELSE UNCHANGED tpm
         /\ UNCHANGED <<rpm, reserved>>
    ELSE UNCHANGED <<leases, overdue, inflight, rpm, tpm, reserved>>

SettleTwice(a, used) ==
    /\ leases' = leases \ {a}
    /\ overdue' = overdue \ {a}
    /\ inflight' = Cardinality(leases \ {a})
    /\ IF attempt[a].current
       THEN /\ reserved' = reserved - attempt[a].reserved
            /\ tpm' = tpm + used
       ELSE UNCHANGED <<reserved, tpm>>
    /\ UNCHANGED rpm

\* The reservation is exchanged for the usage, once: a lease that is gone
\* (settled, reclaimed, lost) makes the script a no-op.
Settle(a, used) ==
    IF a \in leases
    THEN /\ leases' = leases \ {a}
         /\ overdue' = overdue \ {a}
         /\ inflight' = Cardinality(leases \ {a})
         /\ IF attempt[a].current
            THEN /\ reserved' = IF reserved > attempt[a].reserved
                                THEN reserved - attempt[a].reserved ELSE 0
                 /\ tpm' = tpm + used
            ELSE UNCHANGED <<reserved, tpm>>
         /\ UNCHANGED rpm
    ELSE UNCHANGED <<leases, overdue, inflight, rpm, tpm, reserved>>

Usages(a) == 0..(attempt[a].reserved + Overrun)

\* The usage that is in this minute's counter once a has settled.
Counted(a, used) ==
    IF a \in leases /\ attempt[a].current THEN used ELSE attempt[a].used

\* settleAttempt, from the phases the attempt may be in when it is sent.
SettleFrom(a, phase, used) ==
    /\ attempt[a].phase = phase
    /\ Settle(a, used)
    /\ \E p \in Replies("done", "resettling") :
          attempt' = [attempt EXCEPT ![a] =
                        [@ EXCEPT !.phase = p, !.used = Counted(a, used)]]

\* onSuccessFinish and onAttemptGatewayFinish keep the provider's usage.
FinishUsing(a) == \E used \in Usages(a) : SettleFrom(a, "live", used)

\* onAttemptFailure and onAttemptCancel count nothing.
FinishUnused(a) == SettleFrom(a, "live", 0)

\* The settlement again: by now the lease is gone, whatever the usage it names.
Resettle(a) == \E used \in Usages(a) : SettleFrom(a, "resettling", used)

\* The replica dies with the attempt; its lease and reservation stay.
Crash(a) ==
    /\ attempt[a].phase \in {"resent", "live", "resettling"}
    /\ attempt' = [attempt EXCEPT ![a].phase = "done"]
    /\ UNCHANGED <<leases, overdue, inflight, counters>>
-----------------------------------------------------------------------------
(* Time and Redis.                                                         *)

\* The next minute: every counter starts from its own, absent, key.
NextMinute ==
    /\ rpm' = 0 /\ tpm' = 0 /\ reserved' = 0
    /\ attempt' = [a \in Attempts |-> [attempt[a] EXCEPT !.current = FALSE, !.used = 0]]
    /\ UNCHANGED <<leases, overdue, inflight>>

LeaseDeadline(a) ==
    /\ a \in leases \ overdue
    /\ ~attempt[a].current
    /\ overdue' = overdue \cup {a}
    /\ UNCHANGED <<leases, inflight, counters, attempt>>

\* Both keys live INFLIGHT_TTL from their last write, longer than any lease.
LeaseKeyExpires ==
    /\ leases # {} /\ Unexpired = {}
    /\ leases' = {} /\ overdue' = {}
    /\ UNCHANGED <<inflight, counters, attempt>>

InflightKeyExpires ==
    /\ inflight > 0 /\ Unexpired = {}
    /\ inflight' = 0
    /\ UNCHANGED <<leases, overdue, counters, attempt>>

\* Redis restarts empty; operations.mdx calls this state self-rebuilding.
RedisLost ==
    /\ leases' = {} /\ overdue' = {} /\ inflight' = 0
    /\ rpm' = 0 /\ tpm' = 0 /\ reserved' = 0
    /\ attempt' = [a \in Attempts |-> [attempt[a] EXCEPT !.used = 0]]

Next ==
    \/ \E a \in Attempts :
          \/ \E r \in 0..MaxReservation : Start(a, r)
          \/ Resend(a) \/ FinishUsing(a) \/ FinishUnused(a) \/ Resettle(a)
          \/ Crash(a) \/ LeaseDeadline(a)
    \/ NextMinute \/ LeaseKeyExpires \/ InflightKeyExpires \/ RedisLost

Spec == Init /\ [][Next]_vars
-----------------------------------------------------------------------------
TypeOK ==
    /\ leases \subseteq Attempts
    /\ overdue \subseteq leases
    /\ inflight \in Nat
    /\ rpm \in Nat /\ tpm \in Nat /\ reserved \in Nat
    /\ attempt \in [Attempts -> AttemptRecord]

\* A sum over the attempts as a cardinality: f[a] units for each attempt a.
Units(f) ==
    {u \in Attempts \X (1..(MaxReservation + Overrun)) : u[2] <= f[u[1]]}

\* The tokens that leases of this minute hold.
Held == [a \in Attempts |->
           IF a \in leases /\ attempt[a].current THEN attempt[a].reserved ELSE 0]

\* Nobody's reservation is returned twice or for somebody else: the reserved
\* counter always covers what the leases of this minute hold and, unless a
\* command was resent, is exactly that, crashed replicas included.
ReservedCoversLeases ==
    /\ Cardinality(Units(Held)) <= reserved
    /\ ~MayResend => Cardinality(Units(Held)) = reserved

\* The deployment's limits hold across replicas, crashes, reclaimed leases and
\* resent commands, if usage stays within its reservation (the reservation is
\* the byte length of the request plus its output bound).
WithinLimits ==
    /\ rpm <= RpmLimit
    /\ Overrun = 0 => tpm + reserved <= TpmLimit

\* The usage of a settled attempt enters the minute's counter exactly once.
UsageCountedOnce ==
    tpm = Cardinality(Units([a \in Attempts |-> attempt[a].used]))

\* Least-busy routing never takes a deployment for idler than it is: while a
\* lease is live, the derived count covers every lease, those of crashed
\* replicas included; without resent commands it is their number.
LeastBusyCovers ==
    Unexpired # {} => /\ inflight >= Cardinality(leases)
                      /\ ~MayResend => inflight = Cardinality(leases)
=============================================================================
