---------------------------- MODULE Extensions ----------------------------
(***************************************************************************)
(* The extensions of one replica (extensions/runtime.ts): the set loaded   *)
(* from the database, the reloads that replace it (an administrator's on   *)
(* this replica, and the poll that follows the registry version), and the  *)
(* breaker of an instance whose hooks keep failing.                        *)
(*                                                                         *)
(* Abstractions.  One definition, whose module has several versions, and   *)
(* one instance of it that every request matches; a module is its content  *)
(* address.  What a hook does to a request is left out.                    *)
(***************************************************************************)
EXTENDS Naturals

CONSTANTS
    Codes,        \* versions of the module
    Broken,       \* those that cannot be imported here
    None,         \* no artifact, no setup
    Calls,        \* hook calls in progress at once
    MaxFailures,  \* UNIFIED_GATEWAY_EXTENSION_MAX_FAILURES
    MaxChanges,   \* mutations by administrators
    MaxFaults     \* failures of setups, hooks, storage and administrators' requests

VARIABLES
    db,        \* the active artifact and the instance's row
    version,   \* the registry version
    admin,     \* the mutation being made, and where
    reload,    \* the reload each of the two callers is executing
    loaded,    \* definitions and instances in use
    loadedAt,  \* loadedRegistryVersion
    disk,      \* materialized modules
    imported,  \* modules the process has imported
    live,      \* modules set up and not torn down since
    calls,     \* whether the set a hook call in progress began with is still loaded
    changes, faults,
    blemish    \* reloads overlapped, or a bump was lost

store == <<db, version, admin, changes>>
runtime == <<loaded, loadedAt, calls>>
modules == <<disk, imported, live>>
vars == <<store, reload, runtime, modules, faults, blemish>>

Callers == {"poll", "admin"}
Row == [code : Codes \cup {None}, enabled : BOOLEAN]
Idle == [stage |-> "idle"]
Fault == faults < MaxFaults /\ faults' = faults + 1

\* An instance of a set: whether it runs, what disabled it, and its failures.
Loaded(code, enabled, setup, disabledBy) ==
    [code |-> code, enabled |-> enabled, setup |-> setup, by |-> disabledBy, failures |-> 0]

Init ==
    /\ db = [code |-> None, enabled |-> TRUE] /\ version = 0 /\ admin = Idle /\ changes = 0
    /\ reload = [c \in Callers |-> Idle]
    /\ loaded = Loaded(None, TRUE, FALSE, "load") /\ loadedAt = 0
    /\ disk = {} /\ imported = {} /\ live = {}
    /\ calls = [k \in Calls |-> None] /\ faults = 0 /\ blemish = FALSE

-----------------------------------------------------------------------------
(* Administrators: the rows change, then the version, then this replica     *)
(* reloads if the request was made here.                                    *)

\* probeArtifact imports what is uploaded before it is kept.
Uploads(row) == row.code # db.code /\ row.code \notin Broken \cup {None}

Change(row, here, upload) ==
    /\ admin = Idle /\ changes < MaxChanges /\ row # db
    /\ upload => here /\ Uploads(row)
    /\ db' = row /\ changes' = changes + 1
    /\ admin' = [stage |-> "bump", here |-> here]
    /\ disk' = IF upload THEN disk \cup {row.code} ELSE disk
    /\ imported' = IF upload THEN imported \cup {row.code} ELSE imported
    /\ UNCHANGED <<version, reload, runtime, live, faults, blemish>>

Bump ==
    /\ admin.stage = "bump"
    /\ version' = version + 1
    /\ admin' = IF admin.here THEN [admin EXCEPT !.stage = "reload"] ELSE Idle
    /\ UNCHANGED <<db, changes, reload, runtime, modules, faults, blemish>>

\* The request dies between the two: no replica hears of the change.
BumpLost ==
    /\ admin.stage = "bump" /\ Fault
    /\ admin' = Idle /\ blemish' = TRUE
    /\ UNCHANGED <<db, version, changes, reload, runtime, modules>>

-----------------------------------------------------------------------------
(* A reload. *)

Running(c) == reload[c] # Idle

\* Mutated form: the version is read when the reload is over.
VersionOfLate(job) == version

VersionOf(job) == job.version

\* reloadIfChanged and reloadNow: the version is read before anything else.
Start(c) ==
    /\ reload[c] = Idle
    /\ IF c = "poll" THEN version # loadedAt /\ UNCHANGED admin
       ELSE admin.stage = "reload" /\ admin' = [admin EXCEPT !.stage = "wait"]
    /\ reload' = [reload EXCEPT ![c] =
         [stage |-> "read", version |-> version, previous |-> [code |-> loaded.code, setup |-> loaded.setup], code |-> "?", row |-> "?",
          ready |-> FALSE, by |-> "?", setup |-> FALSE]]
    /\ blemish' = (blemish \/ \E other \in Callers : Running(other))
    /\ UNCHANGED <<db, version, changes, runtime, modules, faults>>

Step(c, change) == reload' = [reload EXCEPT ![c] = change]

\* The two queries of DbExtensionInstanceSource.load are not one snapshot.
ReadArtifacts(c) ==
    /\ reload[c].stage = "read" /\ reload[c].code = "?"
    /\ Step(c, [reload[c] EXCEPT !.code = db.code])
    /\ UNCHANGED <<store, runtime, modules, faults, blemish>>

ReadInstances(c) ==
    /\ reload[c].stage = "read" /\ reload[c].row = "?"
    /\ Step(c, [reload[c] EXCEPT !.row = IF db.enabled THEN "enabled" ELSE "disabled"])
    /\ UNCHANGED <<store, runtime, modules, faults, blemish>>

Materialize(c) ==
    /\ reload[c].stage = "read" /\ reload[c].code # "?" /\ reload[c].row # "?"
    /\ Step(c, [reload[c] EXCEPT !.stage = "import"])
    /\ disk' = disk \cup ({reload[c].code} \ {None})
    /\ UNCHANGED <<store, runtime, imported, live, faults, blemish>>

\* The module is imported: from memory, or from the disk if it is still there.
Importable(code) == code # None /\ code \notin Broken /\ (code \in imported \/ code \in disk)

Import(c) ==
    /\ reload[c].stage = "import"
    /\ LET ok == Importable(reload[c].code)
       IN /\ Step(c, [reload[c] EXCEPT !.stage = "setup", !.ready = ok,
                        !.by = IF ~ok THEN "load" ELSE IF reload[c].row = "disabled" THEN "config" ELSE "none"])
          /\ imported' = IF ok THEN imported \cup {reload[c].code} ELSE imported
    /\ UNCHANGED <<store, runtime, disk, live, faults, blemish>>

\* setupDefinitions: only code with an active instance is set up.
Setup(c) ==
    /\ reload[c].stage = "setup"
    /\ LET needed == reload[c].ready /\ reload[c].by = "none" IN
       \/ /\ needed
          /\ Step(c, [reload[c] EXCEPT !.stage = "swap", !.setup = TRUE])
          /\ live' = live \cup {reload[c].code} /\ UNCHANGED faults
       \/ /\ needed /\ Fault
          /\ Step(c, [reload[c] EXCEPT !.stage = "swap", !.by = "setup"]) /\ UNCHANGED live
       \/ ~needed /\ Step(c, [reload[c] EXCEPT !.stage = "swap"]) /\ UNCHANGED <<live, faults>>
    /\ UNCHANGED <<store, runtime, disk, imported, blemish>>

Swap(c) ==
    /\ reload[c].stage = "swap"
    /\ loaded' = Loaded(IF reload[c].ready THEN reload[c].code ELSE None, reload[c].row = "enabled",
                        reload[c].setup, reload[c].by)
    /\ calls' = [k \in Calls |-> IF calls[k] = None THEN None ELSE "former"]
    /\ Step(c, [stage |-> "teardown", version |-> reload[c].version, previous |-> reload[c].previous])
    /\ UNCHANGED <<store, loadedAt, modules, faults, blemish>>

\* Mutated form: whatever was loaded before is torn down.
ReplacedAll(previous) == previous.setup

\* Content addressing tells whether the same code is still loaded.
Replaced(previous) == previous.setup /\ previous.code # loaded.code

Teardown(c) ==
    /\ reload[c].stage = "teardown"
    /\ live' = IF Replaced(reload[c].previous) THEN live \ {reload[c].previous.code} ELSE live
    /\ Step(c, [stage |-> "prune", version |-> reload[c].version])
    /\ UNCHANGED <<store, runtime, disk, imported, faults, blemish>>

Prune(c) ==
    /\ reload[c].stage = "prune"
    /\ disk' = disk \cap {loaded.code}
    /\ Step(c, [reload[c] EXCEPT !.stage = "record"])
    /\ UNCHANGED <<store, runtime, imported, live, faults, blemish>>

Over(c) ==
    /\ Step(c, Idle)
    /\ admin' = IF c = "admin" THEN Idle ELSE admin

Record(c) ==
    /\ reload[c].stage = "record"
    /\ loadedAt' = VersionOf(reload[c])
    /\ Over(c)
    /\ UNCHANGED <<db, version, changes, loaded, calls, modules, faults, blemish>>

\* Postgres or the disk fails: what is loaded stays, under its old version.
ReloadFails(c) ==
    /\ reload[c].stage \in {"read", "prune"} /\ Fault
    /\ Over(c)
    /\ UNCHANGED <<db, version, changes, runtime, modules, blemish>>

-----------------------------------------------------------------------------
(* Hooks, and the breaker of the instance. *)

Active == loaded.enabled /\ loaded.by = "none"

\* instancesFor: a request keeps the instance it began with.
Call(k) ==
    /\ calls[k] = None /\ Active
    /\ calls' = [calls EXCEPT ![k] = "loaded"]
    /\ UNCHANGED <<store, reload, loaded, loadedAt, modules, faults, blemish>>

Returns(k) ==
    /\ calls[k] # None
    /\ loaded' = IF calls[k] = "loaded" THEN [loaded EXCEPT !.failures = 0] ELSE loaded
    /\ calls' = [calls EXCEPT ![k] = None]
    /\ UNCHANGED <<store, reload, loadedAt, modules, faults, blemish>>

\* recordFailure: a time-out, an exception, or a client that leaves.
Throws(k) ==
    /\ calls[k] # None /\ Fault
    /\ loaded' = IF calls[k] = "former" THEN loaded
                 ELSE [loaded EXCEPT !.failures = @ + 1,
                                     !.by = IF loaded.failures + 1 >= MaxFailures THEN "breaker" ELSE @]
    /\ calls' = [calls EXCEPT ![k] = None]
    /\ UNCHANGED <<store, reload, loadedAt, modules, blemish>>

\* resetInstance
Reset ==
    /\ loaded.by = "breaker"
    /\ loaded' = [loaded EXCEPT !.by = "none", !.failures = 0]
    /\ UNCHANGED <<store, reload, loadedAt, calls, modules, faults, blemish>>

-----------------------------------------------------------------------------
Reloading(c) ==
    \/ Start(c) \/ ReadArtifacts(c) \/ ReadInstances(c) \/ Materialize(c) \/ Import(c) \/ Setup(c)
    \/ Swap(c) \/ Teardown(c) \/ Prune(c) \/ Record(c)

Next ==
    \/ \E row \in Row, here, upload \in BOOLEAN : Change(row, here, upload)
    \/ Bump \/ BumpLost \/ Reset
    \/ \E c \in Callers : Reloading(c) \/ ReloadFails(c)
    \/ \E k \in Calls : Call(k) \/ Returns(k) \/ Throws(k)

\* The poll is an interval timer; a request of an administrator runs to its end.
Steady == Bump \/ \E c \in Callers : Reloading(c)
Fairness == WF_vars(Steady)
-----------------------------------------------------------------------------
TypeOK ==
    /\ db \in Row /\ version \in 0..MaxChanges /\ loadedAt \in 0..MaxChanges
    /\ loaded.code \in Codes \cup {None} /\ loaded.by \in {"none", "config", "load", "setup", "breaker"}
    /\ disk \subseteq Codes /\ live \subseteq imported /\ loaded.failures \in 0..MaxFaults

Quiet == admin = Idle /\ \A c \in Callers : reload[c] = Idle

\* What the row and the artifact of the database make of the instance.
Wanted(row) == IF row.code \in Broken THEN [row EXCEPT !.code = None] ELSE row

\* A replica that believes it is at the registry's version has loaded what that
\* version says (extensions/runtime.ts:349-376), and "an identical key+path means
\* the same code is still loaded and must keep its setup state" (:405-406): an
\* instance that serves requests has been set up and not torn down.  Two reloads
\* that overlap, and a change whose bump is lost, escape both.
SetCurrent ==
    ~blemish =>
        /\ Quiet /\ loadedAt = version => [code |-> loaded.code, enabled |-> loaded.enabled] = Wanted(db)
        /\ Active => loaded.code \in live

\* A change made on any replica reaches this one.
SetArrives == ~blemish /\ Quiet /\ changes = MaxChanges ~> blemish \/ loadedAt = version
=============================================================================
