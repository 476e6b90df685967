---------------------------- MODULE OperationLog ----------------------------
(***************************************************************************)
(* The durable record of the gateway's operations (logging/operations.ts), *)
(* the draft an endpoint fills in (endpoints/runtime/operationLog.ts) and  *)
(* the shutdown that flushes it (runtime/shutdown.ts).                     *)
(*                                                                         *)
(* One replica serves Operations and may be shut down or die. Rows and     *)
(* attempts are in Postgres, leases in Redis. The reconciler of abandoned  *)
(* operations runs in every replica; the one modelled is another replica's *)
(* and outlives the first. Every database call of a task is one step and   *)
(* may fail; the task is then tried again from its start.                  *)
(***************************************************************************)
EXTENDS Naturals, Sequences, FiniteSets

CONSTANTS Operations,
          None,
          Tries,         \* how often a task is tried, 4 in the code
          QueueLimit,    \* finalizations waiting at most, 10 000 in the code
          BatchSize,     \* finalizations written together, 100 in the code
          Statuses,      \* the statuses endpoints report
          Terminals,     \* the terminal evidence streams may have
          MaxFaults      \* bound on failed calls and on deaths of a reconciler

Kinds == {"begin", "attempt", "touch", "final"}
Outcomes == {"success", "incomplete", "blocked", "error", "cancelled", "abandoned"}

ASSUME LogAssumption ==
    /\ None \notin Operations \cup Outcomes
    /\ None \notin {"insert", "set_lease", "start", "progress", "finish", "upsert", "release", "queued"}
    /\ Tries \in Nat \ {0} /\ QueueLimit \in Nat \ {0} /\ BatchSize \in Nat \ {0}
    /\ Statuses \subseteq {"success", "error", "cancelled"}
    /\ Terminals \subseteq {None, "completed", "incomplete", "blocked"}
    /\ MaxFaults \in Nat

\* What an endpoint reports: how it ended, and the evidence of the stream.
Reports == {r \in [status : Statuses, terminal : Terminals] :
              r.status # "success" => r.terminal = None}

VARIABLES row,       \* per operation: [state, outcome, stale]
          attempt,   \* the attempt row of an operation: None, "in_progress" or an outcome
          lease,     \* the operations whose lease is in Redis
          request,   \* per operation: "idle", "open", or "closed" once it has reported
          gone,      \* the operations whose client has disconnected
          report,    \* what each operation reported first
          task,      \* per operation and kind: None or the call the task makes next
          tries,     \* per operation and kind: failed tries of the task
          settled,   \* the operations whose "begin" task has ended
          queue,     \* finalizations not yet begun, None for another request's
          writing,   \* another request's finalization is being written
          lost,      \* operations counted as dropped or failed after all tries
          faults,    \* failed calls so far
          stage,     \* of the shutdown
          late,      \* the deadline of the shutdown has passed
          awaited,   \* the tasks the flush waits for
          owed,      \* operations that had reported when the flush began
          audit      \* the reconciler: [step, ids]

database == <<row, attempt, lease>>
tasks == <<task, tries, settled, queue, writing, lost>>
shutdown == <<stage, late, awaited, owed>>
vars == <<database, request, gone, report, tasks, faults, shutdown, audit>>

Promises == Operations \X Kinds

TypeOK ==
    /\ row \in [Operations -> [state : {"none", "in_progress", "finished", "deleted"},
                               outcome : Outcomes \cup {None}, stale : BOOLEAN]]
    /\ attempt \in [Operations -> Outcomes \cup {None, "in_progress"}]
    /\ lease \subseteq Operations
    /\ request \in [Operations -> {"idle", "open", "closed"}]
    /\ gone \subseteq Operations
    /\ report \in [Operations -> Outcomes \cup {None}]
    /\ task \in [Operations -> [Kinds -> {None, "insert", "set_lease", "start", "progress",
                                          "finish", "upsert", "release", "queued"}]]
    /\ tries \in [Operations -> [Kinds -> 0..Tries - 1]]
    /\ settled \subseteq Operations
    /\ queue \in Seq(Operations \cup {None}) /\ Len(queue) <= QueueLimit
    /\ writing \in BOOLEAN
    /\ lost \subseteq Operations
    /\ faults \in 0..MaxFaults
    /\ stage \in {"up", "drain", "flush", "close", "exited"}
    /\ late \in BOOLEAN
    /\ awaited \subseteq Promises
    /\ owed \subseteq Operations
    /\ audit \in [step : {"idle", "leases", "update", "attempts"}, ids : SUBSET Operations]

Init ==
    /\ row = [o \in Operations |-> [state |-> "none", outcome |-> None, stale |-> FALSE]]
    /\ attempt = [o \in Operations |-> None]
    /\ lease = {} /\ gone = {} /\ settled = {} /\ lost = {} /\ queue = <<>> /\ writing = FALSE
    /\ request = [o \in Operations |-> "idle"]
    /\ report = [o \in Operations |-> None]
    /\ task = [o \in Operations |-> [k \in Kinds |-> None]]
    /\ tries = [o \in Operations |-> [k \in Kinds |-> 0]]
    /\ faults = 0
    /\ stage = "up" /\ late = FALSE /\ awaited = {} /\ owed = {}
    /\ audit = [step |-> "idle", ids |-> {}]

Running == stage # "exited"

\* Mutated form: a queued finalization is not pending.
PendingUnqueued ==
    {p \in Promises : task[p[1]][p[2]] \notin {None, "queued"} /\ p[2] # "attempt"}

\* The promises the module keeps in its set of pending ones.
Pending == {p \in Promises : task[p[1]][p[2]] # None /\ p[2] # "attempt"}

-----------------------------------------------------------------------------
\* The draft of a request.

\* The outcome written for a report. A success without terminal evidence is
\* an error; a client that left before the report makes it a cancellation.
OutcomeOf(r, left) ==
    IF left /\ r.status = "success" THEN "cancelled"
    ELSE IF r.status # "success" THEN r.status
    ELSE IF r.terminal = None THEN "error"
    ELSE IF r.terminal = "completed" THEN "success" ELSE r.terminal

\* A handler creates its draft, which begins the operation without waiting.
Open(o) ==
    /\ stage = "up" /\ request[o] = "idle"
    /\ request' = [request EXCEPT ![o] = "open"]
    /\ task' = [task EXCEPT ![o]["begin"] = "insert"]
    /\ UNCHANGED <<database, gone, report, tries, settled, queue, writing, lost, faults, shutdown, audit>>

\* The router persists an attempt and waits for it.
BeginAttempt(o) ==
    /\ Running /\ request[o] = "open" /\ task[o]["attempt"] = None /\ attempt[o] = None
    /\ task' = [task EXCEPT ![o]["attempt"] = "start"]
    /\ UNCHANGED <<database, request, gone, report, tries, settled, queue, writing, lost, faults,
                   shutdown, audit>>

\* Progress of a stream, written at most every ten seconds.
Touch(o) ==
    /\ Running /\ request[o] = "open" /\ task[o]["touch"] = None
    /\ row[o].stale
    /\ task' = [task EXCEPT ![o]["touch"] = "progress"]
    /\ UNCHANGED <<database, request, gone, report, tries, settled, queue, writing, lost, faults,
                   shutdown, audit>>

ClientLeaves(o) ==
    /\ Running /\ request[o] = "open" /\ o \notin gone
    /\ gone' = gone \cup {o}
    /\ UNCHANGED <<database, request, report, tasks, faults, shutdown, audit>>

\* The queue takes a finalization, or drops it when it is full.
Full == Len(queue) >= QueueLimit

\* Mutated form: every report is emitted.
ReportAgain(o, r) ==
    /\ Running /\ request[o] = "open" /\ task[o]["attempt"] = None /\ ~Full
    /\ report' = [report EXCEPT ![o] = OutcomeOf(r, o \in gone)]
    /\ queue' = Append(queue, o)
    /\ task' = [task EXCEPT ![o]["final"] = "queued"]
    /\ UNCHANGED <<database, request, gone, tries, settled, writing, lost, faults, shutdown, audit>>

\* write(): only the first report of a draft is emitted.
Report(o, r) ==
    /\ Running /\ request[o] = "open" /\ report[o] = None /\ task[o]["attempt"] = None
    /\ report' = [report EXCEPT ![o] = OutcomeOf(r, o \in gone)]
    /\ queue' = IF Full THEN queue ELSE Append(queue, o)
    /\ task' = IF Full THEN task ELSE [task EXCEPT ![o]["final"] = "queued"]
    /\ lost' = IF Full THEN lost \cup {o} ELSE lost
    /\ UNCHANGED <<database, request, gone, tries, settled, writing, faults, shutdown, audit>>

\* The handler returns and its connection is closed.
Return(o) ==
    /\ Running /\ request[o] = "open" /\ report[o] # None
    /\ request' = [request EXCEPT ![o] = "closed"]
    /\ UNCHANGED <<database, gone, report, tasks, faults, shutdown, audit>>

\* Other requests of the replica report too.
OtherReports ==
    /\ Running /\ stage \in {"up", "drain"} /\ ~Full
    /\ queue' = Append(queue, None)
    /\ UNCHANGED <<database, request, gone, report, task, tries, settled, writing, lost, faults,
                   shutdown, audit>>

-----------------------------------------------------------------------------
\* The tasks and the finalization queue.

\* A batch is taken from the queue when no other is being written.
Drain ==
    /\ Running /\ queue # <<>>
    /\ ~writing /\ \A o \in Operations : task[o]["final"] \in {None, "queued"}
    /\ LET n == IF Len(queue) < BatchSize THEN Len(queue) ELSE BatchSize
           batch == {queue[i] : i \in 1..n}
       IN /\ queue' = SubSeq(queue, n + 1, Len(queue))
          /\ writing' = (None \in batch)
          /\ task' = [o \in Operations |->
                        IF o \in batch THEN [task[o] EXCEPT !["final"] = "finish"] ELSE task[o]]
    /\ UNCHANGED <<database, request, gone, report, tries, settled, lost, faults, shutdown, audit>>

OtherWritten ==
    /\ Running /\ writing
    /\ writing' = FALSE
    /\ UNCHANGED <<database, request, gone, report, task, tries, settled, queue, lost, faults,
                   shutdown, audit>>

\* What one call of a task does to the stores.
Written(o, call) ==
    CASE call = "insert" ->
           /\ row' = IF row[o].state = "none"
                     THEN [row EXCEPT ![o].state = "in_progress"] ELSE row
           /\ UNCHANGED <<attempt, lease>>
      [] call = "set_lease" -> lease' = lease \cup {o} /\ UNCHANGED <<row, attempt>>
      [] call = "start" -> attempt' = [attempt EXCEPT ![o] = "in_progress"]
                           /\ UNCHANGED <<row, lease>>
      [] call = "progress" -> row' = [row EXCEPT ![o].stale = FALSE] /\ UNCHANGED <<attempt, lease>>
      [] call = "finish" ->
           /\ row' = IF row[o].state \in {"in_progress", "finished"}
                     THEN [row EXCEPT ![o].state = "finished", ![o].outcome = report[o]] ELSE row
           /\ UNCHANGED <<attempt, lease>>
      [] call = "upsert" ->
           /\ attempt' = IF attempt[o] = None THEN attempt
                         ELSE [attempt EXCEPT ![o] = IF report[o] \in {"incomplete", "blocked", "success"}
                                                     THEN report[o] ELSE "error"]
           /\ UNCHANGED <<row, lease>>
      [] call = "release" -> lease' = lease \ {o} /\ UNCHANGED <<row, attempt>>

\* The calls of a task in their order.
CallsOf(k) ==
    CASE k = "begin" -> <<"insert", "set_lease">>
      [] k = "attempt" -> <<"start">>
      [] k = "touch" -> <<"progress">>
      [] k = "final" -> <<"finish", "upsert", "release">>

Following(k, call) ==
    LET calls == CallsOf(k)
        i == CHOOSE n \in DOMAIN calls : calls[n] = call
    IN IF i = Len(calls) THEN None ELSE calls[i + 1]

\* A finalization waits for the task that begins its operation.
Ready(o, k) ==
    /\ task[o][k] \notin {None, "queued"}
    /\ k = "final" => o \in settled

Ends(o, k) == settled' = IF k = "begin" THEN settled \cup {o} ELSE settled

\* The next call of a task succeeds.
Call(o, k) ==
    /\ Running /\ Ready(o, k)
    /\ Written(o, task[o][k])
    /\ task' = [task EXCEPT ![o][k] = Following(k, task[o][k])]
    /\ IF task'[o][k] = None
       THEN Ends(o, k) /\ tries' = [tries EXCEPT ![o][k] = 0]
       ELSE UNCHANGED <<settled, tries>>
    /\ UNCHANGED <<request, gone, report, queue, writing, lost, faults, shutdown, audit>>

\* The next call fails: the task starts over, or ends after its last try.
CallFails(o, k) ==
    /\ Running /\ Ready(o, k) /\ faults < MaxFaults
    /\ faults' = faults + 1
    /\ IF tries[o][k] + 1 < Tries
       THEN /\ tries' = [tries EXCEPT ![o][k] = @ + 1]
            /\ task' = [task EXCEPT ![o][k] = Head(CallsOf(k))]
            /\ UNCHANGED <<settled, lost>>
       ELSE /\ tries' = [tries EXCEPT ![o][k] = 0]
            /\ task' = [task EXCEPT ![o][k] = None]
            /\ lost' = lost \cup {o}
            /\ Ends(o, k)
    /\ UNCHANGED <<database, request, gone, report, queue, writing, shutdown, audit>>

-----------------------------------------------------------------------------
\* The shutdown of the replica: it stops its timers, drains its connections,
\* flushes and closes; every stage has what is left of one deadline.

Signal ==
    /\ stage = "up" /\ stage' = "drain"
    /\ UNCHANGED <<database, request, gone, report, tasks, faults, late, awaited, owed, audit>>

DeadlinePasses ==
    /\ stage \in {"drain", "flush"} /\ ~late
    /\ late' = TRUE
    /\ UNCHANGED <<database, request, gone, report, tasks, faults, stage, awaited, owed, audit>>

\* The server is closed when no connection is open; past the deadline the
\* connections are forced. The flush then looks at what is pending.
Drained ==
    /\ stage = "drain"
    /\ late \/ \A o \in Operations : request[o] = "open" => o \in gone
    /\ stage' = "flush"
    /\ gone' = {o \in Operations : o \in gone \/ request[o] = "open"}
    /\ awaited' = Pending
    /\ owed' = {o \in Operations : report[o] # None}
    /\ UNCHANGED <<database, request, report, tasks, faults, late, audit>>

Flushed ==
    /\ stage = "flush"
    /\ late \/ awaited \cap Pending = {}
    /\ stage' = "close"
    /\ UNCHANGED <<database, request, gone, report, tasks, faults, late, awaited, owed, audit>>

\* The process ends: of its own accord, or killed at any time.
Vanishes ==
    /\ stage' = "exited"
    /\ task' = [o \in Operations |-> [k \in Kinds |-> None]]
    /\ tries' = [o \in Operations |-> [k \in Kinds |-> 0]]
    /\ request' = [o \in Operations |-> "closed"]
    /\ queue' = <<>> /\ writing' = FALSE /\ late' = FALSE
    /\ gone' = {} /\ settled' = {} /\ lost' = {} /\ awaited' = {} /\ owed' = {}
    /\ UNCHANGED <<database, report, faults, audit>>

Exit == stage = "close" /\ Vanishes

Killed == stage \in {"up", "drain", "flush"} /\ Vanishes

-----------------------------------------------------------------------------
\* Time, and the maintenance job of another replica.

\* Fifteen minutes without progress. A task that begins takes seconds.
GoesStale(o) ==
    /\ row[o].state = "in_progress" /\ ~row[o].stale /\ task[o]["begin"] = None
    /\ row' = [row EXCEPT ![o].stale = TRUE]
    /\ UNCHANGED <<attempt, lease, request, gone, report, tasks, faults, shutdown, audit>>

\* Mutated form: a lease without an expiry.
LeaseKept(o) == o \in lease /\ UNCHANGED vars

\* The lease outlives the longest request by five minutes.
LeaseExpires(o) ==
    /\ o \in lease
    /\ request[o] = "open" => ~Running
    /\ lease' = lease \ {o}
    /\ UNCHANGED <<row, attempt, request, gone, report, tasks, faults, shutdown, audit>>

\* Redis loses its data: the lease of a live operation disappears.
LeaseLost(o) ==
    /\ o \in lease /\ faults < MaxFaults
    /\ lease' = lease \ {o}
    /\ faults' = faults + 1
    /\ UNCHANGED <<row, attempt, request, gone, report, tasks, shutdown, audit>>

Unsettled(o) == row[o].state = "in_progress" /\ row[o].outcome = None

AuditRows ==
    /\ audit.step = "idle"
    /\ LET stale == {o \in Operations : Unsettled(o) /\ row[o].stale}
       IN stale # {} /\ audit' = [step |-> "leases", ids |-> stale]
    /\ UNCHANGED <<database, request, gone, report, tasks, faults, shutdown>>

\* Mutated form: every stale operation is abandoned.
AuditLeasesIgnored ==
    /\ audit.step = "leases"
    /\ audit' = [audit EXCEPT !.step = "update"]
    /\ UNCHANGED <<database, request, gone, report, tasks, faults, shutdown>>

AuditLeases ==
    /\ audit.step = "leases"
    /\ audit' = IF audit.ids \subseteq lease THEN [step |-> "idle", ids |-> {}]
                ELSE [step |-> "update", ids |-> audit.ids \ lease]
    /\ UNCHANGED <<database, request, gone, report, tasks, faults, shutdown>>

Abandoned == {o \in audit.ids : Unsettled(o)}

Abandon ==
    /\ audit.step = "update"
    /\ row' = [o \in Operations |->
                 IF o \in Abandoned
                 THEN [row[o] EXCEPT !.state = "finished", !.outcome = "abandoned"] ELSE row[o]]
    /\ audit' = IF Abandoned = {} THEN [step |-> "idle", ids |-> {}]
                ELSE [step |-> "attempts", ids |-> Abandoned]
    /\ UNCHANGED <<attempt, lease, request, gone, report, tasks, faults, shutdown>>

AbandonAttempts ==
    /\ audit.step = "attempts"
    /\ attempt' = [o \in Operations |->
                     IF o \in audit.ids /\ attempt[o] = "in_progress" THEN "abandoned" ELSE attempt[o]]
    /\ audit' = [step |-> "idle", ids |-> {}]
    /\ UNCHANGED <<row, lease, request, gone, report, tasks, faults, shutdown>>

\* The reconciler's replica dies, or one of its calls fails.
AuditDies ==
    /\ audit.step # "idle" /\ faults < MaxFaults
    /\ audit' = [step |-> "idle", ids |-> {}]
    /\ faults' = faults + 1
    /\ UNCHANGED <<database, request, gone, report, tasks, shutdown>>

\* Retention, days later: the row goes with its attempts.
Expire(o) ==
    /\ row[o].state = "finished" /\ ~Running /\ audit.step = "idle"
    /\ row' = [row EXCEPT ![o].state = "deleted"]
    /\ attempt' = [attempt EXCEPT ![o] = None]
    /\ UNCHANGED <<lease, request, gone, report, tasks, faults, shutdown, audit>>

-----------------------------------------------------------------------------
Serve(o) ==
    \/ Open(o) \/ BeginAttempt(o) \/ Touch(o) \/ ClientLeaves(o) \/ Return(o)
    \/ \E r \in Reports : Report(o, r)

Work == Drain \/ OtherReports \/ OtherWritten \/ \E o \in Operations, k \in Kinds : Call(o, k)

Audit == AuditRows \/ AuditLeases \/ Abandon \/ AbandonAttempts

Stop == Signal \/ DeadlinePasses \/ Drained \/ Flushed \/ Exit \/ Killed

Next ==
    \/ \E o \in Operations : Serve(o)
    \/ Work \/ Stop \/ Audit \/ AuditDies
    \/ \E o \in Operations, k \in Kinds : CallFails(o, k)
    \/ \E o \in Operations : GoesStale(o) \/ LeaseExpires(o) \/ LeaseLost(o) \/ Expire(o)

Spec == Init /\ [][Next]_vars

\* A request ends, calls are answered, time passes and some replica audits.
Fairness ==
    /\ \A o \in Operations : WF_vars(\E r \in Reports : Report(o, r)) /\ WF_vars(Return(o))
    /\ \A o \in Operations, k \in Kinds : WF_vars(Call(o, k))
    /\ WF_vars(Drain) /\ WF_vars(OtherWritten) /\ WF_vars(Audit)
    /\ \A o \in Operations : WF_vars(GoesStale(o)) /\ WF_vars(LeaseExpires(o))

FairSpec == Spec /\ Fairness

-----------------------------------------------------------------------------
\* An outcome other than "abandoned" is final, whatever the reconciler, a
\* retried finalization or a second report do; and it is the one first
\* reported (operations.ts:467, :815).
FirstReportStays ==
    [][\A o \in Operations :
          /\ row[o].outcome \notin {None, "abandoned"} => row'[o].outcome = row[o].outcome
          /\ row'[o].outcome \notin {None, "abandoned"} => row'[o].outcome = report[o]]_vars

\* The reconciler abandons no operation that holds a lease, although it
\* reads rows, reads leases and writes rows in three steps (operations.ts:794).
AbandonsOnlyUnleased ==
    [][\A o \in Operations :
          row[o].outcome # "abandoned" /\ row'[o].outcome = "abandoned" => o \notin lease]_vars

\* What was reported before the flush began is in the database when the
\* process closes its connections, or counted as lost, unless the shutdown
\* ran out of time (shutdown.ts:86, operations.ts:765).
FlushedIsDurable ==
    /\ TypeOK
    /\ stage = "close" /\ ~late =>
           \A o \in owed : row[o].outcome = report[o] \/ o \in lost

\* Every operation gets an outcome: a crash, a full queue, failed writes and
\* a lost lease included.
EverySettles ==
    \A o \in Operations : row[o].state = "in_progress" ~> row[o].state # "in_progress"

\* Every attempt row leaves "in_progress". It does not when the reconciler
\* dies between its two updates, which are not one transaction.
AttemptsSettle ==
    \A o \in Operations : attempt[o] = "in_progress" ~> attempt[o] # "in_progress"
=============================================================================
