--------------------------- MODULE Configuration ---------------------------
(***************************************************************************)
(* The three ways a change of the configuration spreads, side by side:     *)
(* what administrators write in Postgres, the sets of extensions replicas  *)
(* load from it, and what is cached.  A behaviour is of one kind, and the  *)
(* other parts stay as they began.                                         *)
(***************************************************************************)
EXTENDS Naturals, FiniteSets

CONSTANTS
    None,            \* absent
    Codes,           \* versions of an extension's module
    Broken,          \* those that cannot be imported here
    Calls,           \* hook calls in progress at once
    MaxFailures,     \* UNIFIED_GATEWAY_EXTENSION_MAX_FAILURES
    MaxMutations,    \* changes of the extension
    MaxFaults,       \* failures around it
    Models,          \* public models: naturals, the order locks are taken in
    Deployments,
    Jobs,            \* administrators' requests in progress at once
    MaxJobs,         \* requests they make in all
    Replicas,
    Requests,        \* clients' requests in progress at once
    MaxChanges       \* changes of what is cached

VARIABLES
    kind,
    db, version, admin, reload, loaded, loadedAt, disk, imported, live, calls, changes, faults, blemish,
    model, envelope, chain, lock, job, rotation, made, secret, raced,
    stored, epoch, entries, keyCache, settings, cAdmin, request, cChanges, due

X == INSTANCE Extensions WITH MaxChanges <- MaxMutations
A == INSTANCE Administration
C == INSTANCE Caches WITH admin <- cAdmin, changes <- cChanges

\* There are finitely many names, and they are ordered; None is told apart from
\* everything it stands in for.
ASSUME ConfigurationAssumption ==
    /\ Models \subseteq Nat /\ IsFiniteSet(Models)
    /\ {MaxFailures, MaxMutations, MaxFaults, MaxJobs, MaxChanges} \subseteq Nat
    /\ None \notin Codes \cup {"loaded", "former"} /\ "?" \notin Codes \cup {None}
    /\ None \notin Models \cup Deployments \cup Jobs
    /\ None \notin 0..MaxChanges

extensions == <<db, version, admin, reload, loaded, loadedAt, disk, imported, live, calls, changes, faults, blemish>>
deployments == <<model, envelope, chain, lock, job, rotation, made, secret, raced>>
caches == <<stored, epoch, entries, keyCache, settings, cAdmin, request, cChanges, due>>
vars == <<kind, extensions, deployments, caches>>

Init == kind \in {"extensions", "deployments", "caches"} /\ X!Init /\ A!Init /\ C!Init

Extending == kind = "extensions" /\ X!Next /\ UNCHANGED <<kind, deployments, caches>>
Deploying == kind = "deployments" /\ A!Next /\ UNCHANGED <<kind, extensions, caches>>
Caching == kind = "caches" /\ C!Next /\ UNCHANGED <<kind, extensions, deployments>>

Next == Extending \/ Deploying \/ Caching

Fairness ==
    /\ WF_vars(X!Steady /\ Extending)
    /\ WF_vars(C!Steady /\ Caching)
    /\ WF_vars(C!ExpireKey /\ Caching)
    /\ \A r \in Replicas : WF_vars(C!ExpireSettings(r) /\ Caching)

Spec == Init /\ [][Next]_vars /\ Fairness

\* The variables have the values they should have.
TypeOK == X!TypeOK /\ A!TypeOK /\ C!TypeOK
\* Chains resolve and credentials stay, replicas run the set their version says,
\* and no cache answers with what was changed before (the three modules).
ConfigurationKept == TypeOK /\ X!SetCurrent /\ A!AdministrationKept /\ C!CachesKept
\* A change reaches every replica, what caches hold of the former expires, and
\* administrators' requests never wait for each other for good.
ConfigurationArrives == X!SetArrives /\ C!CachesCatchUp /\ []A!NoneStuck
=============================================================================
