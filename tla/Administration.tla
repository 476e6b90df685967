-------------------------- MODULE Administration --------------------------
(***************************************************************************)
(* Deployments and fallback chains as administrators change them           *)
(* (deployments/service.ts, fallbacks/service.ts, db/repos), and the       *)
(* rotation of the encryption key that runs meanwhile                      *)
(* (scripts/rotate-encryption.ts).                                         *)
(*                                                                         *)
(* Abstractions.  Of a deployment's row its public model and the envelope  *)
(* of its credentials are kept, the envelope as the secret inside it and   *)
(* whether the active key sealed it.  One reason per chain, a chain is a   *)
(* set, and any two models share an operation.  Statements of a            *)
(* transaction are steps of their own: Postgres reads committed rows.      *)
(***************************************************************************)
EXTENDS Naturals

CONSTANTS
    Models,       \* public models: naturals, the order locks are taken in
    Deployments,
    Jobs,         \* administrators' requests in progress at once
    None,
    MaxJobs       \* requests made in all

VARIABLES
    model,     \* each deployment's public model, None where there is no row
    envelope,  \* each deployment's credentials
    chain,     \* the fallback models of each primary model, {} where there is no policy
    lock,      \* the advisory lock of each public model
    job,       \* what each request is doing
    rotation,  \* the envelope the rotation read, and of which deployment
    made,      \* requests made
    secret,    \* the credentials last given for each deployment
    raced      \* a request acted on names or chains others had changed since it read them

rows == <<model, envelope, secret>>
vars == <<rows, chain, lock, job, rotation, made, raced>>

Idle == [op |-> "idle"]

\* Any configuration administrators built one request at a time.
Init ==
    /\ model \in [Deployments -> Models \cup {None}]
    /\ chain \in [Models -> SUBSET {m \in Models : \E d \in Deployments : model[d] = m}]
    /\ \A m \in Models : m \notin chain[m] /\ (chain[m] # {} => \E d \in Deployments : model[d] = m)
    /\ envelope = [d \in Deployments |-> [secret |-> 0, active |-> TRUE]]
    /\ secret = [d \in Deployments |-> 0] /\ lock = [m \in Models |-> None]
    /\ job = [j \in Jobs |-> Idle] /\ rotation = Idle
    /\ made = 0 /\ raced = FALSE

Of(m) == {d \in Deployments : model[d] = m}
Referenced(m) == chain[m] # {} \/ \E p \in Models : m \in chain[p]

Begin(j, change) == job[j] = Idle /\ made < MaxJobs /\ made' = made + 1 /\ job' = [job EXCEPT ![j] = change]
Goes(j, change) == job' = [job EXCEPT ![j] = change] /\ UNCHANGED made
Unlocked(j) == [m \in Models |-> IF lock[m] = j THEN None ELSE lock[m]]
Held(j) == {m \in Models : lock[m] = j}
Ends(j) == Goes(j, Idle) /\ lock' = Unlocked(j)

-----------------------------------------------------------------------------
(* createDeployment *)

Create(j, d, m) ==
    /\ model[d] = None /\ lock[m] = None
    /\ job[j] = Idle /\ made < MaxJobs /\ made' = made + 1
    /\ model' = [model EXCEPT ![d] = m]
    /\ secret' = [secret EXCEPT ![d] = made']
    \* A replica still running with the previous key seals with that one.
    /\ \E active \in BOOLEAN : envelope' = [envelope EXCEPT ![d] = [secret |-> made', active |-> active]]
    /\ UNCHANGED <<chain, lock, job, rotation, raced>>

-----------------------------------------------------------------------------
(* updateDeployment: the service reads the row before the transaction and    *)
(* writes back the fields the patch does not name.                           *)

UpdateReads(j, d, patch) ==
    /\ model[d] # None
    /\ Begin(j, [op |-> "update", d |-> d, new |-> made + 1, patched |-> patch.credentials,
                 next |-> IF patch.model = None THEN model[d] ELSE patch.model,
                 was |-> None, pending |-> {}])
    /\ UNCHANGED <<rows, chain, lock, rotation, raced>>

\* Mutated form: only the new name is locked.
LockedByUpdateNew(was, next) == {next}

LockedByUpdate(was, next) == {was, next}

\* The transaction reads the current name, before any lock.
UpdateBegins(j) ==
    /\ job[j].op = "update" /\ job[j].was = None
    /\ LET was == model[job[j].d] IN
       Goes(j, IF was = None THEN Idle
               ELSE [job[j] EXCEPT !.was = was, !.pending = LockedByUpdate(was, job[j].next), !.op = "lock"])
    /\ UNCHANGED <<rows, chain, lock, rotation, raced>>

\* Locks are taken in the order of the names.
Locks(j, then) ==
    /\ job[j].op = "lock" /\ job[j].pending # {}
    /\ LET m == CHOOSE p \in job[j].pending : \A q \in job[j].pending : p <= q
       IN /\ lock[m] = None
          /\ lock' = [lock EXCEPT ![m] = j]
          /\ Goes(j, [job[j] EXCEPT !.pending = @ \ {m},
                                  !.op = IF job[j].pending = {m} THEN then ELSE "lock"])

UpdateLocks(j) ==
    /\ "next" \in DOMAIN job[j] /\ Locks(j, "check")
    /\ UNCHANGED <<rows, chain, rotation, raced>>

\* PublicModelReferencedError refuses to rename the last deployment of a model.
LastReferenced(was) == (\E d \in Deployments : Of(was) = {d}) /\ Referenced(was)

UpdateChecks(j) ==
    /\ job[j].op = "check"
    /\ IF job[j].next # job[j].was /\ LastReferenced(job[j].was)
       THEN Ends(j)
       ELSE Goes(j, [job[j] EXCEPT !.op = "write"]) /\ UNCHANGED lock
    /\ UNCHANGED <<rows, chain, rotation, raced>>

\* A deployment being deleted is locked until its transaction commits.
RowFree(d) == \A k \in Jobs : ~(job[k].op = "clean" /\ job[k].d = d)

UpdateWrites(j) ==
    /\ job[j].op = "write" /\ RowFree(job[j].d)
    /\ LET d == job[j].d IN
       IF model[d] = None THEN UNCHANGED <<rows, raced>>
       ELSE /\ model' = [model EXCEPT ![d] = job[j].next]
            /\ raced' = (raced \/ model[d] # job[j].was)
            /\ IF job[j].patched
               THEN /\ secret' = [secret EXCEPT ![d] = job[j].new]
                    /\ envelope' = [envelope EXCEPT ![d] = [secret |-> job[j].new, active |-> TRUE]]
               ELSE UNCHANGED <<secret, envelope>>
    /\ Ends(j)
    /\ UNCHANGED <<chain, rotation>>

-----------------------------------------------------------------------------
(* deleteDeployment *)

DeleteBegins(j, d) ==
    /\ model[d] # None
    /\ Begin(j, [op |-> "lock", d |-> d, was |-> model[d], pending |-> {model[d]}, chains |-> chain])
    /\ UNCHANGED <<rows, chain, lock, rotation, raced>>

DeleteLocks(j) ==
    /\ "chains" \in DOMAIN job[j] /\ Locks(j, "delete")
    /\ UNCHANGED <<rows, chain, rotation, raced>>

\* The row goes; while others of the model remain nothing else does.
DeleteRow(j) ==
    /\ job[j].op = "delete" /\ RowFree(job[j].d)
    /\ IF Of(job[j].was) \ {job[j].d} # {}
       THEN model' = [model EXCEPT ![job[j].d] = None] /\ Ends(j)
       ELSE Goes(j, [job[j] EXCEPT !.op = "clean", !.chains = chain]) /\ UNCHANGED <<model, lock>>
    /\ raced' = (raced \/ model[job[j].d] # job[j].was)
    /\ UNCHANGED <<envelope, secret, chain, rotation>>

\* Chains are rewritten from what the transaction read of them: a policy removed
\* since stays removed, and a change made since is overwritten.
Cleaned(j, p) ==
    IF p = job[j].was \/ chain[p] = {} THEN {}
    ELSE IF job[j].was \in job[j].chains[p] THEN job[j].chains[p] \ {job[j].was} ELSE chain[p]

DeleteCleans(j) ==
    /\ job[j].op = "clean"
    /\ model' = [model EXCEPT ![job[j].d] = None]
    /\ chain' = [p \in Models |-> Cleaned(j, p)]
    /\ raced' = (raced \/ chain # job[j].chains)
    /\ Ends(j)
    /\ UNCHANGED <<envelope, secret, rotation>>

-----------------------------------------------------------------------------
(* configureFallback reads the deployments of every model it names, without a *)
(* lock, and writes later.                                                    *)

Exists(m) == Of(m) # {}

FallbackChecks(j, p, targets) ==
    /\ targets # {} /\ p \notin targets /\ Exists(p) /\ \A t \in targets : Exists(t)
    /\ Begin(j, [op |-> "upsert", d |-> None, primary |-> p, targets |-> targets])
    /\ UNCHANGED <<rows, chain, lock, rotation, raced>>

FallbackWrites(j) ==
    /\ job[j].op = "upsert"
    /\ chain' = [chain EXCEPT ![job[j].primary] = job[j].targets]
    /\ raced' = (raced \/ \E m \in {job[j].primary} \cup job[j].targets :
                             ~Exists(m) \/ lock[m] # None)
    /\ Goes(j, Idle)
    /\ UNCHANGED <<rows, lock, rotation>>

FallbackDeletes(p) ==
    /\ chain[p] # {} /\ made < MaxJobs /\ made' = made + 1
    /\ chain' = [chain EXCEPT ![p] = {}]
    /\ UNCHANGED <<rows, lock, job, rotation, raced>>

-----------------------------------------------------------------------------
(* rotateDeployments: every envelope another key sealed is opened and sealed  *)
(* again, unless it changed meanwhile.                                        *)

RotationReads(d) ==
    /\ rotation = Idle /\ model[d] # None /\ ~envelope[d].active
    /\ rotation' = [op |-> "seal", d |-> d, read |-> envelope[d]]
    /\ UNCHANGED <<rows, chain, lock, job, made, raced>>

RotationWrites ==
    /\ rotation.op = "seal"
    /\ rotation' = Idle
    /\ IF model[rotation.d] # None /\ envelope[rotation.d] = rotation.read
       THEN envelope' = [envelope EXCEPT ![rotation.d].active = TRUE]
       ELSE UNCHANGED envelope
    /\ UNCHANGED <<model, secret, chain, lock, job, made, raced>>

-----------------------------------------------------------------------------
Patches == [model : Models \cup {None}, credentials : BOOLEAN]

Works(j) ==
    \/ UpdateBegins(j) \/ UpdateLocks(j) \/ UpdateChecks(j) \/ UpdateWrites(j)
    \/ DeleteLocks(j) \/ DeleteRow(j) \/ DeleteCleans(j) \/ FallbackWrites(j)

Requested(j) ==
    \/ \E d \in Deployments, m \in Models : Create(j, d, m)
    \/ \E d \in Deployments, patch \in Patches : UpdateReads(j, d, patch)
    \/ \E d \in Deployments : DeleteBegins(j, d)
    \/ \E p \in Models, targets \in SUBSET Models : FallbackChecks(j, p, targets)

Rotates == \/ \E d \in Deployments : RotationReads(d)
           \/ RotationWrites

Next ==
    \/ \E j \in Jobs : Requested(j) \/ Works(j)
    \/ \E p \in Models : FallbackDeletes(p)
    \/ Rotates
-----------------------------------------------------------------------------
TypeOK ==
    /\ model \in [Deployments -> Models \cup {None}] /\ chain \in [Models -> SUBSET Models]
    /\ lock \in [Models -> Jobs \cup {None}] /\ made \in 0..MaxJobs
    /\ \A m \in Models : lock[m] # None => job[lock[m]] # Idle

\* What the advisory locks are for: the primary and every target of a chain have
\* deployments, whatever renames, deletions and creations overlap.  Only what was
\* read before the locks, or without one, escapes them.
ChainsResolve ==
    ~raced => \A p \in Models : chain[p] # {} => Exists(p) /\ \A t \in chain[p] : Exists(t)

\* Rotation re-seals what an administrator stored last, never what it read before.
SecretsLast == \A d \in Deployments : model[d] # None => envelope[d].secret = secret[d]

\* What a request waits for: a lock that another holds, or the row of a deployment
\* that another is deleting.
Waits(j) ==
    \/ job[j].op = "lock" /\ \E m \in job[j].pending : lock[m] # None /\ \A q \in job[j].pending : m <= q
    \/ job[j].op \in {"write", "delete"} /\ ~RowFree(job[j].d)

\* The requests never wait for each other in a circle: locks are taken in one order,
\* and whoever deletes a row has its locks.
NoCircle == (\E j \in Jobs : job[j] # Idle) => \E j \in Jobs : job[j] # Idle /\ ~Waits(j)

\* Nor are they stuck for another reason.
NoneStuck == (\E j \in Jobs : job[j] # Idle) => \E j \in Jobs : ENABLED Works(j)

AdministrationKept == ChainsResolve /\ SecretsLast /\ NoCircle
=============================================================================
