------------------------ MODULE ConfigurationProofs ------------------------
(***************************************************************************)
(* What holds of Configuration for every number of replicas, requests and  *)
(* administrators: the three invariants, which are inductive, and from     *)
(* them what the run of this module checks on a small instance.            *)
(***************************************************************************)
EXTENDS Configuration, FiniteSetTheorems, TLAPS

-----------------------------------------------------------------------------
(* The extensions of a replica: a reload makes the set of what it has read, *)
(* and what it has read is what its version stands for.                     *)

Artifacts == Codes \cup {None}
Previous == [code : Artifacts, setup : BOOLEAN]

\* A reload up to the swap, and after it.
Makings ==
    [stage : {"read", "import", "setup", "swap"}, version : Nat, previous : Previous, code : Artifacts \cup {"?"},
     row : {"?", "enabled", "disabled"}, ready : BOOLEAN, by : {"?", "none", "config", "load", "setup"}, setup : BOOLEAN]
Tearings == [stage : {"teardown"}, version : Nat, previous : Previous]
Leavings == [stage : {"prune", "record"}, version : Nat]
Reloads == {X!Idle} \cup Makings \cup Tearings \cup Leavings
Mutations == [stage : {"bump", "reload", "wait"}, here : BOOLEAN]
Sets == [code : Artifacts, enabled : BOOLEAN, setup : BOOLEAN,
         by : {"none", "config", "load", "setup", "breaker"}, failures : Nat]

ExtensionsTyped ==
    /\ db \in X!Row /\ version \in Nat /\ loadedAt \in Nat /\ loadedAt <= version
    /\ admin \in {X!Idle} \cup Mutations /\ reload \in [X!Callers -> Reloads] /\ loaded \in Sets
    /\ disk \subseteq Codes /\ live \subseteq imported
    /\ calls \in [Calls -> {None, "loaded", "former"}]
    /\ changes \in 0..MaxMutations /\ faults \in 0..MaxFaults /\ blemish \in BOOLEAN
    /\ loaded.failures <= faults
    /\ version + (IF admin.stage = "bump" THEN 1 ELSE 0) <= changes

\* What a reload has read and made so far, of the modules imported.
Made(task, known) ==
    /\ task.stage # "read" => task.code # "?" /\ task.row # "?"
    /\ task.stage \in {"setup", "swap"} =>
          /\ task.ready => task.code \in known
          /\ task.by \in {"none", "config", "load", "setup"} /\ (task.by = "none" => task.ready)
Makes == \A c \in X!Callers : reload[c] \in Makings => Made(reload[c], imported)

\* Nothing it has put on the disk or set up was taken from it.
Whole(task, kept, running) ==
    task \in Makings =>
        /\ task.stage = "import" => task.code \in kept \cup {None}
        /\ task.stage \in {"setup", "swap"} => task.ready = (task.code \notin Broken \cup {None})
        /\ task.stage = "swap" /\ task.by = "none" => task.setup /\ task.code \in running

\* Unless something went wrong one reload runs at a time, undisturbed.
Undisturbed ==
    ~blemish =>
        /\ \A c, e \in X!Callers : X!Running(c) /\ X!Running(e) => c = e
        /\ \A c \in X!Callers : Whole(reload[c], disk, live)

\* The administrator's request waits for its reload, which is of the last version;
\* the poll reloads because the set is of an earlier one.
Reloading ==
    /\ \A c \in X!Callers : X!Running(c) => reload[c].version <= version
    /\ X!Running("admin") => admin.stage = "wait" /\ reload["admin"].version = version
    /\ X!Running("poll") /\ ~blemish => loadedAt < version

\* While the version stands for the rows, a reload of that version has them, and
\* so has the set that is recorded as of that version.
Matches == [code |-> loaded.code, enabled |-> loaded.enabled] = X!Wanted(db)
Reads(task) ==
    /\ task.code # "?" => task.code = db.code
    /\ task.row # "?" => (task.row = "enabled" <=> db.enabled)
Current ==
    ~blemish /\ admin.stage # "bump" =>
        /\ loadedAt = version => Matches
        /\ \A c \in X!Callers : X!Running(c) /\ reload[c].version = version =>
              IF reload[c] \in Makings THEN Reads(reload[c]) ELSE Matches

\* An instance that was put to use is set up, also while its breaker is open.
InUse ==
    /\ ~blemish /\ loaded.by \in {"none", "breaker"} => loaded.code \in live
    /\ \A k \in Calls : calls[k] = "loaded" => loaded.by \in {"none", "breaker"}

ExtensionsInv == ExtensionsTyped /\ Makes /\ Undisturbed /\ Reloading /\ Current /\ InUse

LEMMA StringsApart ==
    /\ None \notin Codes /\ None # "loaded" /\ None # "former" /\ "?" \notin Artifacts
    /\ {MaxMutations, MaxFaults} \subseteq Nat
BY ConfigurationAssumption DEF Artifacts

\* What a reload is by its stage.
LEMMA TaskParts ==
    ASSUME NEW w \in Reloads
    PROVE  /\ w.stage \in {"read", "import", "setup", "swap"} => w \in Makings
           /\ w.stage = "teardown" => w \in Tearings
           /\ w.stage \in {"prune", "record"} => w \in Leavings
           /\ w.stage # "idle" => w # X!Idle
BY DEF Reloads, Makings, Tearings, Leavings, X!Idle

LEMMA MakingParts ==
    ASSUME NEW w \in Makings
    PROVE  /\ w \in Reloads /\ w # X!Idle /\ w.stage \in {"read", "import", "setup", "swap"} /\ w.version \in Nat
           /\ w.previous \in Previous /\ w.code \in Artifacts \cup {"?"} /\ w.row \in {"?", "enabled", "disabled"}
           /\ w.ready \in BOOLEAN /\ w.by \in {"?", "none", "config", "load", "setup"} /\ w.setup \in BOOLEAN
BY DEF Reloads, Makings, X!Idle

LEMMA OtherParts ==
    ASSUME NEW w \in Tearings \cup Leavings
    PROVE  w \in Reloads /\ w # X!Idle /\ w \notin Makings /\ w.version \in Nat
BY DEF Reloads, Makings, Tearings, Leavings, X!Idle

LEMMA AdminParts ==
    ASSUME ExtensionsTyped
    PROVE  /\ admin # X!Idle => admin \in Mutations
           /\ admin.stage # "idle" => admin \in Mutations
           /\ admin \in Mutations => admin # X!Idle /\ admin.stage \in {"bump", "reload", "wait"} /\ admin.here \in BOOLEAN
           /\ admin = X!Idle => admin.stage = "idle"
BY DEF ExtensionsTyped, Mutations, X!Idle

\* A step of a reload, before or after the swap.
LEMMA WorksKept ==
    ASSUME ExtensionsInv, NEW c \in X!Callers, NEW w \in Reloads, reload' = [reload EXCEPT ![c] = w],
           reload[c] # X!Idle, w # X!Idle, w.version = reload[c].version,
           UNCHANGED <<db, version, admin, changes, loaded, loadedAt, calls, blemish>>, faults' \in faults..MaxFaults,
           disk' \subseteq Codes, imported \subseteq imported', live' \subseteq imported',
           loaded.code \in live => loaded.code \in live',
           w \in Makings => Made(w, imported'), ~blemish => Whole(w, disk', live'),
           w \in Makings <=> reload[c] \in Makings, w \in Makings /\ Reads(reload[c]) => Reads(w)
    PROVE  ExtensionsInv'
<1>0. ExtensionsTyped
  BY DEF ExtensionsInv
<1>1. reload'[c] = w /\ (\A e \in X!Callers : e # c => reload'[e] = reload[e]) /\ reload' \in [X!Callers -> Reloads]
  BY <1>0 DEF ExtensionsTyped
<1>2. \A e \in X!Callers : reload'[e] # X!Idle <=> reload[e] # X!Idle
  BY <1>1
<1>3. ExtensionsTyped'
  <2>1. faults' \in 0..MaxFaults /\ loaded.failures <= faults'
    BY <1>0, StringsApart DEF ExtensionsTyped, Sets
  <2> QED  BY <1>0, <1>1, <2>1 DEF ExtensionsTyped
<1>4. Makes'
  <2>1. ASSUME NEW e \in X!Callers, reload'[e] \in Makings
        PROVE  /\ reload'[e].stage # "read" => reload'[e].code # "?" /\ reload'[e].row # "?"
               /\ reload'[e].stage \in {"setup", "swap"} =>
                     /\ reload'[e].ready => reload'[e].code \in imported'
                     /\ reload'[e].by \in {"none", "config", "load", "setup"} /\ (reload'[e].by = "none" => reload'[e].ready)
    <3>1. CASE e = c
      BY <1>1, <2>1, <3>1 DEF Made
    <3>2. CASE e # c
      BY <1>1, <2>1, <3>2 DEF ExtensionsInv, Makes, Made
    <3> QED  BY <3>1, <3>2
  <2> QED  BY <2>1 DEF Makes, Made
<1>5. Undisturbed'
  <2> SUFFICES ASSUME ~blemish PROVE Undisturbed'
    BY DEF Undisturbed
  <2>1. \A e \in X!Callers : reload[e] # X!Idle => e = c
    BY DEF ExtensionsInv, Undisturbed, X!Running
  <2>2. \A e \in X!Callers : reload'[e] \in Makings => e = c
    BY <1>2, <2>1, MakingParts
  <2> QED  BY <1>1, <1>2, <2>1, <2>2 DEF Undisturbed, X!Running, Whole
<1>6. Reloading'
  BY <1>1, <1>2 DEF ExtensionsInv, Reloading, X!Running
<1>7. Current'
  <2>1. ASSUME ~blemish, admin.stage # "bump", NEW e \in X!Callers, reload'[e] # X!Idle, reload'[e].version = version
        PROVE  IF reload'[e] \in Makings THEN Reads(reload'[e]) ELSE Matches
    <3>1. CASE e = c
      BY <1>1, <2>1, <3>1 DEF ExtensionsInv, Current, X!Running
    <3>2. CASE e # c
      BY <1>1, <2>1, <3>2 DEF ExtensionsInv, Current, X!Running
    <3> QED  BY <3>1, <3>2
  <2> QED  BY <2>1 DEF ExtensionsInv, Current, Matches, Reads, X!Running, X!Wanted
<1>8. InUse'
  BY DEF ExtensionsInv, InUse
<1> QED  BY <1>3, <1>4, <1>5, <1>6, <1>7, <1>8 DEF ExtensionsInv

LEMMA StageKnown ==
    ASSUME ExtensionsInv, NEW c \in X!Callers, reload[c].stage # "idle"
    PROVE  /\ reload[c] \in Reloads /\ reload[c] # X!Idle
           /\ reload[c].stage \in {"read", "import", "setup", "swap"} => reload[c] \in Makings /\ Made(reload[c], imported)
           /\ reload[c].stage = "teardown" => reload[c] \in Tearings
           /\ reload[c].stage \in {"prune", "record"} => reload[c] \in Leavings
           /\ ~blemish => Whole(reload[c], disk, live)
BY TaskParts DEF ExtensionsInv, ExtensionsTyped, Makes, Undisturbed, Whole

\* The rest of the state stays.
Still ==
    /\ UNCHANGED <<db, version, admin, changes, loaded, loadedAt, calls, blemish>>
    /\ faults' \in faults..MaxFaults /\ disk' \subseteq Codes /\ imported \subseteq imported' /\ live' \subseteq imported'
    /\ loaded.code \in live => loaded.code \in live'

LEMMA StillThen ==
    ASSUME ExtensionsInv, UNCHANGED <<db, version, admin, changes, loaded, loadedAt, calls, blemish, faults, disk, imported, live>>
    PROVE  Still
BY StringsApart DEF ExtensionsInv, ExtensionsTyped, Still

LEMMA ReadsKept ==
    ASSUME ExtensionsInv, NEW c \in X!Callers, X!ReadArtifacts(c) \/ X!ReadInstances(c)
    PROVE  ExtensionsInv'
<1>1. reload[c].stage = "read" /\ UNCHANGED <<db, version, admin, changes, loaded, loadedAt, calls, blemish, faults, disk, imported, live>>
  BY DEF X!ReadArtifacts, X!ReadInstances, X!store, X!runtime, X!modules
<1>2. reload[c] \in Makings /\ reload[c] # X!Idle
  BY <1>1, StageKnown
<1>3. db.code \in Artifacts /\ db.enabled \in BOOLEAN
  BY DEF ExtensionsInv, ExtensionsTyped, X!Row, Artifacts
<1>4. \E w \in Makings : /\ reload' = [reload EXCEPT ![c] = w] /\ w.stage = "read" /\ w.version = reload[c].version
                         /\ Reads(reload[c]) => Reads(w)
  <2>1. CASE X!ReadArtifacts(c)
    <3> DEFINE w == [reload[c] EXCEPT !.code = db.code]
    <3>1. reload' = [reload EXCEPT ![c] = w]
      BY <2>1 DEF X!ReadArtifacts, X!Step
    <3>2. w \in Makings /\ w.stage = "read" /\ w.version = reload[c].version /\ w.code = db.code /\ w.row = reload[c].row
      BY <1>1, <1>2, <1>3 DEF Makings
    <3> QED  BY <3>1, <3>2 DEF Reads
  <2>2. CASE X!ReadInstances(c)
    <3> DEFINE r == IF db.enabled THEN "enabled" ELSE "disabled"
               w == [reload[c] EXCEPT !.row = r]
    <3>1. reload' = [reload EXCEPT ![c] = w]
      BY <2>2 DEF X!ReadInstances, X!Step
    <3>2. w \in Makings /\ w.stage = "read" /\ w.version = reload[c].version /\ w.code = reload[c].code /\ w.row = r
      BY <1>1, <1>2, <1>3 DEF Makings
    <3> HIDE DEF w
    <3>3. r = "enabled" <=> db.enabled
      OBVIOUS
    <3> QED  BY <3>1, <3>2, <3>3 DEF Reads
  <2> QED  BY <2>1, <2>2
<1>5. PICK w \in Makings : /\ reload' = [reload EXCEPT ![c] = w] /\ w.stage = "read" /\ w.version = reload[c].version
                           /\ Reads(reload[c]) => Reads(w)
  BY <1>4
<1>6. Made(w, imported') /\ Whole(w, disk', live')
  BY <1>5 DEF Made, Whole
<1>7. Still
  BY <1>1, StillThen
<1> QED  BY <1>2, <1>5, <1>6, <1>7, MakingParts, WorksKept DEF Still

LEMMA MaterializeKept ==
    ASSUME ExtensionsInv, NEW c \in X!Callers, X!Materialize(c)
    PROVE  ExtensionsInv'
<1> DEFINE w == [reload[c] EXCEPT !.stage = "import"]
<1>1. /\ reload[c].stage = "read" /\ reload[c].code # "?" /\ reload[c].row # "?"
      /\ UNCHANGED <<db, version, admin, changes, loaded, loadedAt, calls, blemish, faults, imported, live>>
      /\ disk' = disk \cup ({reload[c].code} \ {None}) /\ reload' = [reload EXCEPT ![c] = w]
  BY DEF X!Materialize, X!store, X!runtime, X!Step
<1>2. reload[c] \in Makings /\ reload[c] # X!Idle
  BY <1>1, StageKnown
<1>3. w \in Makings /\ w.stage = "import" /\ w.version = reload[c].version /\ w.code = reload[c].code /\ w.row = reload[c].row
  BY <1>2 DEF Makings
<1> HIDE DEF w
<1>4. reload[c].code \in Codes \cup {None}
  BY <1>1, <1>2, MakingParts DEF Artifacts
<1>5. Made(w, imported') /\ Whole(w, disk', live') /\ (Reads(reload[c]) => Reads(w))
  BY <1>1, <1>3 DEF Made, Whole, Reads
<1>6. Still
  BY <1>1, <1>4, StringsApart DEF ExtensionsInv, ExtensionsTyped, Still
<1> QED  BY <1>1, <1>2, <1>3, <1>5, <1>6, MakingParts, WorksKept DEF Still

LEMMA ImportKept ==
    ASSUME ExtensionsInv, NEW c \in X!Callers, X!Import(c)
    PROVE  ExtensionsInv'
<1> DEFINE ok == X!Importable(reload[c].code)
           by == IF ~ok THEN "load" ELSE IF reload[c].row = "disabled" THEN "config" ELSE "none"
           w == [reload[c] EXCEPT !.stage = "setup", !.ready = ok, !.by = by]
<1>1. /\ reload[c].stage = "import" /\ reload' = [reload EXCEPT ![c] = w]
      /\ UNCHANGED <<db, version, admin, changes, loaded, loadedAt, calls, blemish, faults, disk, live>>
      /\ imported' = IF ok THEN imported \cup {reload[c].code} ELSE imported
  BY DEF X!Import, X!store, X!runtime, X!Step
<1>2. reload[c] \in Makings /\ reload[c] # X!Idle /\ Made(reload[c], imported) /\ (~blemish => Whole(reload[c], disk, live))
  BY <1>1, StageKnown
<1>a. ok \in BOOLEAN /\ by \in {"load", "config", "none"} /\ (by = "none" => ok)
  BY DEF X!Importable
<1>b. ~blemish => ok = (reload[c].code \notin Broken \cup {None})
  BY <1>1, <1>2 DEF Whole, X!Importable
<1> HIDE DEF ok, by
<1>3. /\ w \in Makings /\ w.stage = "setup" /\ w.version = reload[c].version /\ w.code = reload[c].code /\ w.row = reload[c].row
      /\ w.ready = ok /\ w.by = by
  BY <1>2, <1>a DEF Makings
<1> HIDE DEF w
<1>5. Made(w, imported') /\ (Reads(reload[c]) => Reads(w))
  BY <1>1, <1>2, <1>3, <1>a DEF Made, Reads
<1>6. ~blemish => Whole(w, disk', live')
  BY <1>3, <1>b DEF Whole
<1>7. Still
  BY <1>1, StringsApart DEF ExtensionsInv, ExtensionsTyped, Still
<1> QED  BY <1>1, <1>2, <1>3, <1>5, <1>6, <1>7, MakingParts, WorksKept DEF Still

LEMMA SetupKept ==
    ASSUME ExtensionsInv, NEW c \in X!Callers, X!Setup(c)
    PROVE  ExtensionsInv'
<1> DEFINE needed == reload[c].ready /\ reload[c].by = "none"
           done == [reload[c] EXCEPT !.stage = "swap", !.setup = TRUE]
           failed == [reload[c] EXCEPT !.stage = "swap", !.by = "setup"]
           passed == [reload[c] EXCEPT !.stage = "swap"]
<1>1. /\ reload[c].stage = "setup" /\ UNCHANGED <<db, version, admin, changes, loaded, loadedAt, calls, blemish, disk, imported>>
      /\ \/ needed /\ reload' = [reload EXCEPT ![c] = done] /\ live' = live \cup {reload[c].code} /\ faults' = faults
         \/ needed /\ faults < MaxFaults /\ faults' = faults + 1 /\ reload' = [reload EXCEPT ![c] = failed] /\ live' = live
         \/ ~needed /\ reload' = [reload EXCEPT ![c] = passed] /\ live' = live /\ faults' = faults
  BY DEF X!Setup, X!store, X!runtime, X!Step, X!Fault
<1>2. reload[c] \in Makings /\ reload[c] # X!Idle /\ Made(reload[c], imported) /\ (~blemish => Whole(reload[c], disk, live))
  BY <1>1, StageKnown
<1>3. /\ reload[c].code # "?" /\ reload[c].row # "?" /\ (reload[c].ready => reload[c].code \in imported)
      /\ reload[c].by \in {"none", "config", "load", "setup"} /\ (reload[c].by = "none" => reload[c].ready)
      /\ ~blemish => reload[c].ready = (reload[c].code \notin Broken \cup {None})
  BY <1>1, <1>2 DEF Made, Whole
<1>4. Still
  <2>1. faults \in 0..MaxFaults /\ MaxFaults \in Nat /\ faults' \in faults..MaxFaults
    BY <1>1, StringsApart DEF ExtensionsInv, ExtensionsTyped
  <2>2. live \subseteq live' /\ live' \subseteq imported
    BY <1>1, <1>3 DEF ExtensionsInv, ExtensionsTyped
  <2> QED  BY <1>1, <2>1, <2>2 DEF ExtensionsInv, ExtensionsTyped, Still
<1>5. \E w \in Makings : /\ reload' = [reload EXCEPT ![c] = w] /\ w.version = reload[c].version /\ Made(w, imported') /\ (~blemish => Whole(w, disk', live'))
                         /\ Reads(reload[c]) => Reads(w)
  <2>1. CASE needed /\ reload' = [reload EXCEPT ![c] = done] /\ live' = live \cup {reload[c].code}
    <3>1. done \in Makings /\ done.stage = "swap" /\ done.version = reload[c].version /\ done.code = reload[c].code
          /\ done.row = reload[c].row /\ done.ready = reload[c].ready /\ done.by = reload[c].by /\ done.setup = TRUE
      BY <1>2 DEF Makings
    <3> HIDE DEF done
    <3>2. Made(done, imported') /\ (~blemish => Whole(done, disk', live')) /\ (Reads(reload[c]) => Reads(done))
      BY <1>1, <1>3, <2>1, <3>1 DEF Made, Whole, Reads
    <3> QED  BY <2>1, <3>1, <3>2
  <2>2. CASE needed /\ reload' = [reload EXCEPT ![c] = failed]
    <3>1. failed \in Makings /\ failed.stage = "swap" /\ failed.version = reload[c].version /\ failed.code = reload[c].code
          /\ failed.row = reload[c].row /\ failed.ready = reload[c].ready /\ failed.by = "setup"
      BY <1>2 DEF Makings
    <3> HIDE DEF failed
    <3>2. Made(failed, imported') /\ (~blemish => Whole(failed, disk', live')) /\ (Reads(reload[c]) => Reads(failed))
      BY <1>1, <1>3, <2>2, <3>1 DEF Made, Whole, Reads
    <3> QED  BY <2>2, <3>1, <3>2
  <2>3. CASE ~needed /\ reload' = [reload EXCEPT ![c] = passed]
    <3>1. passed \in Makings /\ passed.stage = "swap" /\ passed.version = reload[c].version /\ passed.code = reload[c].code
          /\ passed.row = reload[c].row /\ passed.ready = reload[c].ready /\ passed.by = reload[c].by
      BY <1>2 DEF Makings
    <3> HIDE DEF passed
    <3>2. Made(passed, imported') /\ (~blemish => Whole(passed, disk', live')) /\ (Reads(reload[c]) => Reads(passed))
      BY <1>1, <1>3, <2>3, <3>1 DEF Made, Whole, Reads
    <3> QED  BY <2>3, <3>1, <3>2
  <2> QED  BY <1>1, <2>1, <2>2, <2>3
<1>6. PICK w \in Makings : /\ reload' = [reload EXCEPT ![c] = w] /\ w.version = reload[c].version /\ Made(w, imported') /\ (~blemish => Whole(w, disk', live'))
                           /\ Reads(reload[c]) => Reads(w)
  BY <1>5
<1> QED  BY <1>2, <1>4, <1>6, MakingParts, WorksKept DEF Still

LEMMA TeardownKept ==
    ASSUME ExtensionsInv, NEW c \in X!Callers, X!Teardown(c)
    PROVE  ExtensionsInv'
<1> DEFINE w == [stage |-> "prune", version |-> reload[c].version]
<1>1. /\ reload[c].stage = "teardown" /\ reload' = [reload EXCEPT ![c] = w]
      /\ UNCHANGED <<db, version, admin, changes, loaded, loadedAt, calls, blemish, faults, disk, imported>>
      /\ live' \subseteq live /\ (loaded.code \in live => loaded.code \in live')
  BY DEF X!Teardown, X!store, X!runtime, X!Step, X!Replaced
<1>2. reload[c] \in Tearings /\ reload[c] # X!Idle
  BY <1>1, StageKnown
<1>3. w \in Leavings /\ w.version = reload[c].version /\ reload[c] \notin Makings
  BY <1>2, OtherParts DEF Tearings, Leavings
<1> HIDE DEF w
<1>4. w \in Reloads /\ w # X!Idle /\ w \notin Makings
  BY <1>3, OtherParts
<1>5. Still
  BY <1>1, StringsApart DEF ExtensionsInv, ExtensionsTyped, Still
<1> QED  BY <1>1, <1>2, <1>3, <1>4, <1>5, WorksKept DEF Still, Whole

LEMMA PruneKept ==
    ASSUME ExtensionsInv, NEW c \in X!Callers, X!Prune(c)
    PROVE  ExtensionsInv'
<1> DEFINE w == [reload[c] EXCEPT !.stage = "record"]
<1>1. /\ reload[c].stage = "prune" /\ reload' = [reload EXCEPT ![c] = w] /\ disk' = disk \cap {loaded.code}
      /\ UNCHANGED <<db, version, admin, changes, loaded, loadedAt, calls, blemish, faults, imported, live>>
  BY DEF X!Prune, X!store, X!runtime, X!Step
<1>2. reload[c] \in Leavings /\ reload[c] # X!Idle
  BY <1>1, StageKnown
<1>3. w \in Leavings /\ w.version = reload[c].version /\ reload[c] \notin Makings
  BY <1>2, OtherParts DEF Leavings
<1> HIDE DEF w
<1>4. w \in Reloads /\ w # X!Idle /\ w \notin Makings
  BY <1>3, OtherParts
<1>5. Still
  BY <1>1, StringsApart DEF ExtensionsInv, ExtensionsTyped, Still
<1> QED  BY <1>1, <1>2, <1>3, <1>4, <1>5, WorksKept DEF Still, Whole

\* What a reload that swaps has made is what is recorded as of its version.
LEMMA SwapKept ==
    ASSUME ExtensionsInv, NEW c \in X!Callers, X!Swap(c)
    PROVE  ExtensionsInv'
<1> DEFINE t == reload[c]
           x == [stage |-> "teardown", version |-> t.version, previous |-> t.previous]
           code == IF t.ready THEN t.code ELSE None
           new == [code |-> code, enabled |-> t.row = "enabled", setup |-> t.setup, by |-> t.by, failures |-> 0]
<1>0. ExtensionsTyped
  BY DEF ExtensionsInv
<1>1. /\ t.stage = "swap" /\ UNCHANGED <<db, version, admin, changes, loadedAt, disk, imported, live, faults, blemish>>
      /\ loaded' = new /\ calls' = [k \in Calls |-> IF calls[k] = None THEN None ELSE "former"]
      /\ reload' = [reload EXCEPT ![c] = x]
  BY DEF X!Swap, X!Loaded, X!store, X!modules, X!Step
<1>2. t \in Makings /\ t # X!Idle /\ Made(t, imported) /\ (~blemish => Whole(t, disk, live))
  BY <1>1, StageKnown
<1>3. /\ t.code \in Codes \cup {None} /\ t.row \in {"enabled", "disabled"} /\ (t.by = "none" => t.ready)
      /\ t.by \in {"none", "config", "load", "setup"} /\ t.setup \in BOOLEAN /\ t.ready \in BOOLEAN /\ t.version \in Nat
  BY <1>1, <1>2, MakingParts DEF Made, Artifacts
<1>4. ~blemish => t.ready = (t.code \notin Broken \cup {None}) /\ (t.by = "none" => t.code \in live)
  BY <1>1, <1>2 DEF Whole
<1>5. PICK w \in Tearings : w = x
  BY <1>2 DEF Makings, Tearings
<1>6. w.version = t.version /\ w \notin Makings /\ w # X!Idle /\ w \in Reloads
  BY <1>5, OtherParts
<1>7. /\ new \in Sets /\ new.code = code /\ new.enabled = (t.row = "enabled") /\ new.by = t.by /\ new.failures = 0
  BY <1>3 DEF Sets, Artifacts
<1>8. reload'[c] = w /\ (\A e \in X!Callers : e # c => reload'[e] = reload[e]) /\ reload' \in [X!Callers -> Reloads]
  BY <1>0, <1>1, <1>5, <1>6 DEF ExtensionsTyped
<1> HIDE DEF x, new
<1>9. ExtensionsTyped'
  <2>1. calls' \in [Calls -> {None, "loaded", "former"}]
    BY <1>1
  <2>2. loaded' \in Sets /\ loaded'.failures <= faults
    BY <1>0, <1>1, <1>7 DEF ExtensionsTyped
  <2> QED  BY <1>0, <1>1, <1>8, <2>1, <2>2 DEF ExtensionsTyped
<1>10. Makes'
  BY <1>1, <1>6, <1>8 DEF ExtensionsInv, Makes
<1>11. Undisturbed'
  <2> SUFFICES ASSUME ~blemish PROVE Undisturbed'
    BY <1>1 DEF Undisturbed
  <2>1. \A e \in X!Callers : reload[e] # X!Idle => e = c
    BY <1>2 DEF ExtensionsInv, Undisturbed, X!Running
  <2>2. \A e \in X!Callers : reload'[e] # X!Idle => e = c
    BY <1>8, <2>1
  <2>3. \A e \in X!Callers : reload'[e] \notin Makings
    BY <1>6, <1>8, <2>2, MakingParts
  <2> QED  BY <2>2, <2>3 DEF Undisturbed, X!Running, Whole
<1>12. Reloading'
  BY <1>1, <1>2, <1>6, <1>8 DEF ExtensionsInv, Reloading, X!Running
<1>13. Current'
  <2> SUFFICES ASSUME ~blemish, admin.stage # "bump" PROVE Current'
    BY <1>1 DEF Current
  <2>1. \A e \in X!Callers : reload'[e] # X!Idle => e = c
    BY <1>2, <1>8 DEF ExtensionsInv, Undisturbed, X!Running
  <2>2. t.version = version => Matches'
    <3> SUFFICES ASSUME t.version = version PROVE Matches'
      OBVIOUS
    <3>1. t.code = db.code /\ (t.row = "enabled" <=> db.enabled)
      BY <1>2, <1>3, StringsApart DEF ExtensionsInv, Current, X!Running, Reads, Artifacts
    <3>2. db \in [code : Codes \cup {None}, enabled : BOOLEAN]
      BY <1>0 DEF ExtensionsTyped, X!Row
    <3>3. X!Wanted(db) = [code |-> IF db.code \in Broken THEN None ELSE db.code, enabled |-> db.enabled]
      BY <3>2 DEF X!Wanted
    <3>4. code = IF db.code \in Broken THEN None ELSE db.code
      BY <1>4, <3>1
    <3>5. (t.row = "enabled") = db.enabled
      BY <3>1, <3>2
    <3> QED  BY <1>1, <1>7, <3>3, <3>4, <3>5 DEF Matches
  <2>3. loadedAt = version => t.version = version
    BY <1>0, <1>2 DEF ExtensionsInv, ExtensionsTyped, Reloading, X!Running, X!Callers
  <2> QED  BY <1>1, <1>6, <1>8, <2>1, <2>2, <2>3 DEF Current, Reads, X!Running, Matches
<1>14. InUse'
  <2>1. \A k \in Calls : calls'[k] # "loaded"
    BY <1>1, StringsApart
  <2>2. ~blemish /\ loaded'.by \in {"none", "breaker"} => loaded'.code \in live
    BY <1>1, <1>3, <1>4, <1>7
  <2> QED  BY <1>1, <2>1, <2>2 DEF InUse
<1> QED  BY <1>9, <1>10, <1>11, <1>12, <1>13, <1>14 DEF ExtensionsInv

\* A reload begins.
LEMMA StartKept ==
    ASSUME ExtensionsInv, NEW c \in X!Callers, X!Start(c)
    PROVE  ExtensionsInv'
<1> DEFINE x == [stage |-> "read", version |-> version, previous |-> [code |-> loaded.code, setup |-> loaded.setup], code |-> "?", row |-> "?",
                 ready |-> FALSE, by |-> "?", setup |-> FALSE]
<1>0. ExtensionsTyped
  BY DEF ExtensionsInv
<1>1. /\ reload[c] = X!Idle /\ UNCHANGED <<db, version, changes, loaded, loadedAt, calls, disk, imported, live, faults>>
      /\ reload' = [reload EXCEPT ![c] = x]
      /\ \/ c = "poll" /\ version # loadedAt /\ admin' = admin
         \/ c = "admin" /\ admin.stage = "reload" /\ admin' = [admin EXCEPT !.stage = "wait"]
      /\ blemish' = (blemish \/ \E other \in X!Callers : X!Running(other))
  BY DEF X!Start, X!runtime, X!modules, X!Callers
<1>2. PICK w \in Makings : w = x
  BY <1>0 DEF ExtensionsTyped, Makings, Previous, Sets
<1>3. w.version = version /\ w.stage = "read" /\ w.code = "?" /\ w.row = "?" /\ w \in Reloads /\ w # X!Idle
  BY <1>2, MakingParts
<1>4. reload'[c] = w /\ (\A e \in X!Callers : e # c => reload'[e] = reload[e]) /\ reload' \in [X!Callers -> Reloads]
  BY <1>0, <1>1, <1>2, <1>3 DEF ExtensionsTyped
<1> HIDE DEF x
<1>5. /\ admin' \in {X!Idle} \cup Mutations /\ (admin'.stage = "bump" <=> admin.stage = "bump")
      /\ c = "admin" => admin'.stage = "wait"
      /\ c = "poll" => admin' = admin
  BY <1>0, <1>1, AdminParts DEF ExtensionsTyped, Mutations
<1>6. ~blemish' => ~blemish /\ \A e \in X!Callers : reload[e] = X!Idle
  BY <1>1 DEF X!Running
<1>7. ExtensionsTyped'
  <2>1. blemish' \in BOOLEAN
    BY <1>0, <1>1 DEF ExtensionsTyped
  <2> QED  BY <1>0, <1>1, <1>4, <1>5, <2>1 DEF ExtensionsTyped
<1>8. Makes'
  BY <1>1, <1>3, <1>4 DEF ExtensionsInv, Makes, Made
<1>9. Undisturbed'
  BY <1>3, <1>4, <1>6, MakingParts DEF Undisturbed, X!Running, Whole
<1>10. Reloading'
  BY <1>0, <1>1, <1>3, <1>4, <1>5, <1>6 DEF ExtensionsInv, ExtensionsTyped, Reloading, X!Running, X!Callers
<1>11. Current'
  BY <1>1, <1>2, <1>3, <1>4, <1>5, <1>6 DEF ExtensionsInv, Current, Matches, Reads, X!Running, X!Wanted
<1>12. InUse'
  BY <1>1 DEF ExtensionsInv, InUse
<1> QED  BY <1>7, <1>8, <1>9, <1>10, <1>11, <1>12 DEF ExtensionsInv

\* A reload ends: its version is recorded, or it failed.
LEMMA EndsKept ==
    ASSUME ExtensionsInv, NEW c \in X!Callers, X!Record(c) \/ X!ReloadFails(c)
    PROVE  ExtensionsInv'
<1>0. ExtensionsTyped
  BY DEF ExtensionsInv
<1>1. /\ UNCHANGED <<db, version, changes, loaded, calls, disk, imported, live, blemish>>
      /\ reload' = [reload EXCEPT ![c] = X!Idle] /\ admin' = (IF c = "admin" THEN X!Idle ELSE admin)
      /\ \/ reload[c].stage = "record" /\ loadedAt' = reload[c].version /\ faults' = faults
         \/ reload[c].stage \in {"read", "prune"} /\ loadedAt' = loadedAt /\ faults < MaxFaults /\ faults' = faults + 1
  BY DEF X!Record, X!ReloadFails, X!Over, X!Step, X!VersionOf, X!runtime, X!modules, X!Fault
<1>2. reload[c] \in Reloads /\ reload[c] # X!Idle
  BY <1>1, StageKnown
<1>3. reload[c].stage = "record" => reload[c] \in Leavings
  BY StageKnown
<1>4. reload'[c] = X!Idle /\ (\A e \in X!Callers : e # c => reload'[e] = reload[e]) /\ reload' \in [X!Callers -> Reloads]
  BY <1>0, <1>1 DEF ExtensionsTyped, Reloads
<1>5. /\ reload[c].version <= version
      /\ c = "admin" => admin.stage = "wait" /\ reload[c].version = version
      /\ c = "poll" /\ ~blemish => loadedAt < version
  BY <1>2 DEF ExtensionsInv, Reloading, X!Running
<1>6. admin' \in {X!Idle} \cup Mutations /\ (admin'.stage = "bump" <=> admin.stage = "bump")
  <2>1. X!Idle.stage = "idle"
    BY DEF X!Idle
  <2> QED  BY <1>0, <1>1, <1>5, <2>1 DEF ExtensionsTyped
<1>7. loadedAt' \in Nat /\ loadedAt' <= version /\ faults' \in 0..MaxFaults /\ loaded.failures <= faults'
  BY <1>0, <1>1, <1>3, <1>5, OtherParts, StringsApart DEF ExtensionsTyped, Sets
<1>8. ExtensionsTyped'
  BY <1>0, <1>1, <1>4, <1>6, <1>7 DEF ExtensionsTyped
<1>9. Makes'
  BY <1>1, <1>4, MakingParts DEF ExtensionsInv, Makes
<1>10. ~blemish => \A e \in X!Callers : reload'[e] = X!Idle
  BY <1>2, <1>4 DEF ExtensionsInv, Undisturbed, X!Running
<1>11. Undisturbed'
  BY <1>1, <1>10, MakingParts DEF Undisturbed, X!Running, Whole
<1>12. Reloading'
  <2>1. \A e \in X!Callers : reload'[e] # X!Idle => e # c /\ reload[e] # X!Idle /\ reload'[e] = reload[e]
    BY <1>4
  <2>2. "admin" \in X!Callers /\ "poll" \in X!Callers
    BY DEF X!Callers
  <2> QED  BY <1>1, <1>10, <2>1, <2>2 DEF ExtensionsInv, Reloading, X!Running
<1>13. Current'
  <2> SUFFICES ASSUME ~blemish, admin.stage # "bump", loadedAt' = version PROVE Matches
    BY <1>1, <1>6, <1>10 DEF Current, Matches, X!Running, X!Wanted
  <2>1. CASE reload[c].stage = "record" /\ loadedAt' = reload[c].version
    BY <1>2, <1>3, <2>1, OtherParts DEF ExtensionsInv, Current, X!Running
  <2>2. CASE loadedAt' = loadedAt
    BY <2>2 DEF ExtensionsInv, Current
  <2> QED  BY <1>1, <2>1, <2>2
<1>14. InUse'
  BY <1>1 DEF ExtensionsInv, InUse
<1> QED  BY <1>8, <1>9, <1>11, <1>12, <1>13, <1>14 DEF ExtensionsInv

\* An administrator's change, its bump, and the bump that is lost.
LEMMA ChangeKept ==
    ASSUME ExtensionsInv, NEW row \in X!Row, NEW here \in BOOLEAN, NEW upload \in BOOLEAN, X!Change(row, here, upload)
    PROVE  ExtensionsInv'
<1>0. ExtensionsTyped
  BY DEF ExtensionsInv
<1>1. /\ admin = X!Idle /\ changes < MaxMutations /\ db' = row /\ changes' = changes + 1
      /\ admin' = [stage |-> "bump", here |-> here]
      /\ UNCHANGED <<version, reload, loaded, loadedAt, calls, live, faults, blemish>>
  BY DEF X!Change, X!runtime
<1>2. disk \subseteq disk' /\ imported \subseteq imported' /\ disk' \subseteq Codes
  BY <1>0 DEF ExtensionsTyped, X!Change, X!Uploads, X!Row
<1>3. admin' \in Mutations /\ admin'.stage = "bump" /\ reload["admin"] = X!Idle
  BY <1>1, AdminParts DEF ExtensionsInv, Mutations, Reloading, X!Running, X!Idle
<1>4. ExtensionsTyped'
  <2>1. changes' \in 0..MaxMutations /\ version + 1 <= changes'
    BY <1>0, <1>1, AdminParts, StringsApart DEF ExtensionsTyped
  <2> QED  BY <1>0, <1>1, <1>2, <1>3, <2>1 DEF ExtensionsTyped
<1>5. Makes' /\ Undisturbed' /\ Reloading'
  BY <1>1, <1>2, <1>3 DEF ExtensionsInv, Makes, Made, Undisturbed, Whole, Reloading, X!Running
<1>6. Current' /\ InUse'
  BY <1>1, <1>3 DEF ExtensionsInv, Current, InUse
<1> QED  BY <1>4, <1>5, <1>6 DEF ExtensionsInv

LEMMA BumpKept ==
    ASSUME ExtensionsInv, X!Bump \/ X!BumpLost
    PROVE  ExtensionsInv'
<1>0. ExtensionsTyped
  BY DEF ExtensionsInv
<1>1. /\ admin.stage = "bump" /\ UNCHANGED <<db, changes, reload, loaded, loadedAt, calls, disk, imported, live>>
      /\ \/ /\ version' = version + 1 /\ faults' = faults /\ blemish' = blemish
            /\ admin' = IF admin.here THEN [admin EXCEPT !.stage = "reload"] ELSE X!Idle
         \/ version' = version /\ faults < MaxFaults /\ faults' = faults + 1 /\ blemish' = TRUE /\ admin' = X!Idle
  BY DEF X!Bump, X!BumpLost, X!runtime, X!modules, X!Fault
<1>2. reload["admin"] = X!Idle
  BY <1>1 DEF ExtensionsInv, Reloading, X!Running
<1>3. admin' \in {X!Idle} \cup Mutations /\ admin'.stage # "bump"
  BY <1>0, <1>1, AdminParts DEF Mutations, X!Idle
<1>4. version' \in Nat /\ version <= version' /\ version' <= changes /\ loadedAt <= version' /\ faults' \in 0..MaxFaults /\ loaded.failures <= faults'
      /\ (blemish' \/ (blemish' = blemish /\ version < version'))
  BY <1>0, <1>1, StringsApart DEF ExtensionsTyped, Sets
<1>5. ExtensionsTyped'
  <2>1. version' + (IF admin'.stage = "bump" THEN 1 ELSE 0) <= changes
    BY <1>3, <1>4
  <2>2. blemish' \in BOOLEAN
    BY <1>0, <1>1 DEF ExtensionsTyped
  <2> QED  BY <1>0, <1>1, <1>3, <1>4, <2>1, <2>2 DEF ExtensionsTyped
<1>6. Makes' /\ Undisturbed' /\ InUse'
  BY <1>1 DEF ExtensionsInv, Makes, Undisturbed, InUse, X!Running
<1>7. \A c \in X!Callers : reload[c] # X!Idle => reload[c].version \in Nat /\ reload[c].version <= version /\ reload[c].version <= version'
  <2>1. \A w \in Reloads : w # X!Idle => w.version \in Nat
    BY DEF Reloads, Makings, Tearings, Leavings
  <2> QED  BY <1>0, <1>4, <2>1 DEF ExtensionsInv, ExtensionsTyped, Reloading, X!Running
<1>8. Reloading'
  BY <1>0, <1>1, <1>2, <1>4, <1>7 DEF ExtensionsInv, ExtensionsTyped, Reloading, X!Running
<1>9. Current'
  BY <1>0, <1>1, <1>4, <1>7 DEF ExtensionsInv, ExtensionsTyped, Current, X!Running
<1> QED  BY <1>5, <1>6, <1>8, <1>9 DEF ExtensionsInv

\* Hooks, and the breaker of the instance.
Hooked ==
    /\ loaded' \in Sets /\ loaded'.code = loaded.code /\ loaded'.enabled = loaded.enabled
    /\ faults' \in 0..MaxFaults /\ loaded'.failures <= faults'
    /\ calls' \in [Calls -> {None, "loaded", "former"}]
    /\ loaded'.by \in {"none", "breaker"} <=> loaded.by \in {"none", "breaker"}
    /\ \A h \in Calls : calls'[h] = "loaded" => loaded.by \in {"none", "breaker"}

LEMMA HookMoves ==
    ASSUME ExtensionsInv, NEW k \in Calls, X!Call(k) \/ X!Returns(k) \/ X!Throws(k)
    PROVE  Hooked
<1>a. ExtensionsTyped
  BY DEF ExtensionsInv
<1>b. loaded \in Sets /\ calls \in [Calls -> {None, "loaded", "former"}] /\ faults \in 0..MaxFaults /\ MaxFaults \in Nat
  BY <1>a, StringsApart DEF ExtensionsTyped
<1>1. CASE X!Call(k)
  BY <1>a, <1>b, <1>1 DEF Hooked, X!Call, X!Active, ExtensionsInv, ExtensionsTyped, InUse
<1>2. CASE X!Returns(k)
  <2>1. faults' = faults /\ calls' = [calls EXCEPT ![k] = None] /\ (loaded' = loaded \/ loaded' = [loaded EXCEPT !.failures = 0])
    BY <1>2 DEF X!Returns
  <2>2. loaded' \in Sets /\ loaded'.code = loaded.code /\ loaded'.enabled = loaded.enabled /\ loaded'.by = loaded.by
        /\ loaded'.failures <= faults
    BY <1>a, <1>b, <2>1 DEF Sets, ExtensionsTyped
  <2> QED  BY <1>b, <2>1, <2>2, StringsApart DEF Hooked, ExtensionsInv, InUse
<1>3. CASE X!Throws(k)
  <2>1. /\ faults < MaxFaults /\ faults' = faults + 1 /\ calls' = [calls EXCEPT ![k] = None] /\ calls[k] \in {"loaded", "former"}
        /\ loaded' = IF calls[k] = "former" THEN loaded
                     ELSE [loaded EXCEPT !.failures = @ + 1, !.by = IF loaded.failures + 1 >= MaxFailures THEN "breaker" ELSE @]
    BY <1>b, <1>3 DEF X!Throws, X!Fault
  <2>2. CASE calls[k] = "former"
    BY <1>a, <1>b, <2>1, <2>2, StringsApart DEF Hooked, ExtensionsInv, ExtensionsTyped, InUse, Sets
  <2>3. CASE calls[k] = "loaded"
    <3>1. loaded.by \in {"none", "breaker"}
      BY <2>3 DEF ExtensionsInv, InUse
    <3>2. /\ loaded' \in Sets /\ loaded'.code = loaded.code /\ loaded'.enabled = loaded.enabled
          /\ loaded'.by \in {"none", "breaker"} /\ loaded'.failures = loaded.failures + 1
      <4>1. PICK b \in {"none", "breaker"} : b = IF loaded.failures + 1 >= MaxFailures THEN "breaker" ELSE loaded.by
        BY <3>1
      <4>2. PICK f \in Nat : f = loaded.failures + 1
        BY <1>b DEF Sets
      <4>3. loaded' = [loaded EXCEPT !.failures = f, !.by = b]
        BY <2>1, <2>3, <4>1, <4>2, StringsApart
      <4> QED  BY <1>b, <4>1, <4>2, <4>3 DEF Sets
    <3>3. loaded.failures \in Nat /\ loaded.failures <= faults
      BY <1>a, <1>b DEF ExtensionsTyped, Sets
    <3>4. faults' \in 0..MaxFaults /\ loaded'.failures <= faults'
      BY <1>b, <2>1, <3>2, <3>3
    <3>5. calls' \in [Calls -> {None, "loaded", "former"}] /\ \A h \in Calls : calls'[h] = "loaded" => loaded.by \in {"none", "breaker"}
      BY <1>b, <2>1, <3>1
    <3> QED  BY <3>1, <3>2, <3>4, <3>5 DEF Hooked
  <2> QED  BY <2>1, <2>2, <2>3
<1> QED  BY <1>1, <1>2, <1>3

LEMMA HooksKept ==
    ASSUME ExtensionsInv, X!Reset \/ \E k \in Calls : X!Call(k) \/ X!Returns(k) \/ X!Throws(k)
    PROVE  ExtensionsInv'
<1>0. ExtensionsTyped
  BY DEF ExtensionsInv
<1>1. loaded \in Sets /\ calls \in [Calls -> {None, "loaded", "former"}] /\ faults \in 0..MaxFaults /\ MaxFaults \in Nat
  BY <1>0, StringsApart DEF ExtensionsTyped
<1>2. UNCHANGED <<db, version, admin, changes, reload, loadedAt, disk, imported, live, blemish>>
  BY DEF X!Call, X!Returns, X!Throws, X!Reset, X!store, X!modules
<1>3. Hooked
  <2>1. CASE X!Reset
    <3>1. loaded.by = "breaker" /\ loaded' = [loaded EXCEPT !.by = "none", !.failures = 0] /\ UNCHANGED <<faults, calls>>
      BY <2>1 DEF X!Reset
    <3>2. loaded' \in Sets /\ loaded'.code = loaded.code /\ loaded'.enabled = loaded.enabled /\ loaded'.by = "none" /\ loaded'.failures = 0
      BY <1>1, <3>1 DEF Sets
    <3> QED  BY <1>1, <3>1, <3>2 DEF Hooked
  <2> QED  BY <2>1, HookMoves
<1>4. ExtensionsTyped'
  BY <1>0, <1>2, <1>3 DEF ExtensionsTyped, Hooked
<1>5. Makes' /\ Undisturbed' /\ Reloading'
  BY <1>2 DEF ExtensionsInv, Makes, Undisturbed, Reloading, X!Running
<1>6. Current'
  BY <1>2, <1>3 DEF Hooked, ExtensionsInv, Current, Matches, Reads, X!Running, X!Wanted
<1>7. InUse'
  BY <1>2, <1>3 DEF Hooked, ExtensionsInv, InUse
<1> QED  BY <1>4, <1>5, <1>6, <1>7 DEF ExtensionsInv

LEMMA ExtensionsStep == ASSUME ExtensionsInv, X!Next PROVE ExtensionsInv'
<1>1. \A c \in X!Callers : X!Reloading(c) \/ X!ReloadFails(c) => ExtensionsInv'
  BY StartKept, ReadsKept, MaterializeKept, ImportKept, SetupKept, SwapKept, TeardownKept, PruneKept, EndsKept DEF X!Reloading
<1>2. \A row \in X!Row, here, upload \in BOOLEAN : X!Change(row, here, upload) => ExtensionsInv'
  BY ChangeKept
<1> QED  BY <1>1, <1>2, BumpKept, HooksKept DEF X!Next

LEMMA ExtensionsBegin == X!Init => ExtensionsInv
<1> SUFFICES ASSUME X!Init PROVE ExtensionsInv
  OBVIOUS
<1>1. ExtensionsTyped
  <2>1. db \in X!Row /\ loaded \in Sets /\ loaded.failures = 0
    BY DEF X!Init, X!Row, X!Loaded, Sets, Artifacts
  <2>2. reload \in [X!Callers -> Reloads] /\ admin = X!Idle /\ admin.stage = "idle"
    BY DEF X!Init, Reloads, X!Idle
  <2>3. version = 0 /\ loadedAt = 0 /\ changes = 0 /\ faults = 0 /\ blemish = FALSE /\ MaxMutations \in Nat /\ MaxFaults \in Nat
    BY StringsApart DEF X!Init
  <2>4. disk = {} /\ live = {} /\ imported = {} /\ calls \in [Calls -> {None, "loaded", "former"}]
    BY DEF X!Init
  <2>5. changes \in 0..MaxMutations /\ faults \in 0..MaxFaults
    BY <2>3
  <2>6. version + (IF admin.stage = "bump" THEN 1 ELSE 0) <= changes /\ loaded.failures <= faults /\ loadedAt <= version
    BY <2>1, <2>2, <2>3
  <2>7. version \in Nat /\ loadedAt \in Nat
    BY <2>3
  <2>8. blemish \in BOOLEAN
    BY <2>3
  <2> QED  BY <2>1, <2>2, <2>4, <2>5, <2>6, <2>7, <2>8 DEF ExtensionsTyped
<1>2. \A c \in X!Callers : ~X!Running(c) /\ reload[c] \notin Makings
  BY MakingParts DEF X!Init, X!Running
<1>3. Makes /\ Undisturbed /\ Reloading
  BY <1>2 DEF Makes, Undisturbed, Reloading, Whole, X!Callers
<1>4. Current
  <2>1. Matches
    BY DEF X!Init, X!Loaded, Matches, X!Wanted
  <2> QED  BY <1>2, <2>1 DEF Current
<1>5. InUse
  BY StringsApart DEF X!Init, X!Loaded, InUse
<1> QED  BY <1>1, <1>3, <1>4, <1>5 DEF ExtensionsInv

\* What the invariant is for.
LEMMA ExtensionsShown == ExtensionsInv => X!TypeOK /\ X!SetCurrent
<1> SUFFICES ASSUME ExtensionsInv PROVE X!TypeOK /\ X!SetCurrent
  OBVIOUS
<1>1. X!TypeOK
  <2>1. version + (IF admin.stage = "bump" THEN 1 ELSE 0) <= changes /\ version \in Nat /\ loadedAt \in Nat /\ loadedAt <= version
        /\ changes \in 0..MaxMutations /\ MaxMutations \in Nat
    BY StringsApart DEF ExtensionsInv, ExtensionsTyped
  <2>2. version \in 0..MaxMutations /\ loadedAt \in 0..MaxMutations
    BY <2>1
  <2>3. loaded.code \in Codes \cup {None} /\ loaded.by \in {"none", "config", "load", "setup", "breaker"} /\ loaded.failures \in 0..MaxFaults
    BY StringsApart DEF ExtensionsInv, ExtensionsTyped, Sets, Artifacts
  <2> QED  BY <2>2, <2>3 DEF ExtensionsInv, ExtensionsTyped, X!TypeOK
<1>2. X!SetCurrent
  BY DEF ExtensionsInv, Current, Matches, InUse, X!SetCurrent, X!Quiet, X!Active, X!Idle
<1> QED  BY <1>1, <1>2

-----------------------------------------------------------------------------
(* Administrators: who holds which lock, and what the locks keep true.      *)

Chains == [Models -> SUBSET Models]
Updates == [op : {"update", "lock", "check", "write"}, d : Deployments, new : Nat, patched : BOOLEAN,
            next : Models, was : Models \cup {None}, pending : SUBSET Models]
Deletions == [op : {"lock", "delete", "clean"}, d : Deployments, was : Models, pending : SUBSET Models, chains : Chains]
Upserts == [op : {"upsert"}, d : {None}, primary : Models, targets : SUBSET Models]
Envelopes == [secret : Nat, active : BOOLEAN]

AdministrationTyped ==
    /\ model \in [Deployments -> Models \cup {None}] /\ chain \in Chains /\ lock \in [Models -> Jobs \cup {None}]
    /\ job \in [Jobs -> {A!Idle} \cup Updates \cup Deletions \cup Upserts]
    /\ secret \in [Deployments -> Nat] /\ envelope \in [Deployments -> Envelopes]
    /\ rotation \in {A!Idle} \cup [op : {"seal"}, d : Deployments, read : Envelopes]
    /\ made \in 0..MaxJobs /\ raced \in BOOLEAN

\* The locks a request needs, and those it has, which are the least of them.
Needs(w) == IF w \in Updates THEN {w.was, w.next} ELSE {w.was}
Has(w) ==
    CASE w.op = "lock" -> Needs(w) \ w.pending
      [] w.op \in {"check", "write", "delete", "clean"} -> Needs(w)
      [] OTHER -> {}
Ordered(w) ==
    /\ w.op \in {"lock", "check", "write"} => w.was # None
    /\ w.op = "lock" => /\ w.pending # {} /\ w.pending \subseteq Needs(w)
                        /\ \A m \in Has(w), q \in w.pending : m < q
LocksHeld == \A j \in Jobs : Ordered(job[j]) /\ \A m \in Models : lock[m] = j <=> m \in Has(job[j])

\* The row of a deployment is being deleted by one request, and stays until then.
RowsLocked ==
    \A j \in Jobs : job[j].op = "clean" =>
        /\ ~raced => model[job[j].d] = job[j].was
        /\ \A k \in Jobs : job[k].op = "clean" /\ job[k].d = job[j].d => k = j

\* Whoever is about to rename a deployment leaves another, or nothing refers to it.
Renames ==
    ~raced => \A j \in Jobs : job[j].op = "write" /\ job[j].next # job[j].was =>
        ~A!Referenced(job[j].was) \/ \E e \in A!Of(job[j].was) : e # job[j].d

Sealed == \A d \in Deployments : envelope[d].secret = secret[d]

AdministrationInv ==
    AdministrationTyped /\ LocksHeld /\ RowsLocked /\ Renames /\ A!ChainsResolve /\ Sealed

\* What a request is by its stage.
LEMMA WorkParts ==
    ASSUME AdministrationTyped, NEW j \in Jobs
    PROVE  /\ job[j].op \in {"update", "check", "write"} => job[j] \in Updates
           /\ job[j].op \in {"delete", "clean"} => job[j] \in Deletions
           /\ job[j].op = "upsert" => job[j] \in Upserts
           /\ job[j].op = "lock" => job[j] \in Updates \cup Deletions
           /\ job[j] \in Updates => job[j].op \in {"update", "lock", "check", "write"}
           /\ job[j] \in Deletions => job[j].op \in {"lock", "delete", "clean"}
           /\ job[j] # A!Idle => job[j].op # "idle"
BY DEF AdministrationTyped, A!Idle, Updates, Deletions, Upserts

LEMMA Apart ==
    /\ \A w \in Updates : "next" \in DOMAIN w /\ "chains" \notin DOMAIN w /\ w \notin Deletions
    /\ \A w \in Deletions : "next" \notin DOMAIN w /\ "chains" \in DOMAIN w /\ w \notin Updates
    /\ "next" \notin DOMAIN A!Idle /\ "chains" \notin DOMAIN A!Idle /\ A!Idle \notin Updates \cup Deletions
    /\ \A w \in Upserts : "next" \notin DOMAIN w /\ "chains" \notin DOMAIN w
BY DEF Updates, Deletions, Upserts, A!Idle

LEMMA UpdateParts ==
    ASSUME NEW w \in Updates
    PROVE  /\ w.d \in Deployments /\ w.new \in Nat /\ w.patched \in BOOLEAN /\ w.next \in Models /\ w.was \in Models \cup {None}
           /\ w.pending \subseteq Models /\ Needs(w) = {w.was, w.next}
BY DEF Updates, Needs

LEMMA DeletionParts ==
    ASSUME NEW w \in Deletions
    PROVE  /\ w.d \in Deployments /\ w.was \in Models /\ w.pending \subseteq Models /\ w.chains \in Chains /\ Needs(w) = {w.was}
BY Apart DEF Deletions, Needs

LEMMA NamesApart == None \notin Models /\ None \notin Jobs /\ None \notin Deployments /\ Models \subseteq Nat
BY ConfigurationAssumption

\* One request's step keeps who holds which lock.
LEMMA LocksKept ==
    ASSUME AdministrationTyped, LocksHeld, NEW j \in Jobs, NEW w, job' = [job EXCEPT ![j] = w], Ordered(w),
           \A m \in Models : lock'[m] = j <=> m \in Has(w),
           \A m \in Models, k \in Jobs : k # j => (lock'[m] = k <=> lock[m] = k)
    PROVE  LocksHeld'
<1>1. job'[j] = w /\ \A k \in Jobs : k # j => job'[k] = job[k]
  BY DEF AdministrationTyped
<1>2. ASSUME NEW k \in Jobs
      PROVE  Ordered(job'[k]) /\ \A m \in Models : lock'[m] = k <=> m \in Has(job'[k])
  <2>1. CASE k = j
    BY <1>1, <2>1
  <2>2. CASE k # j
    BY <1>1, <2>2 DEF LocksHeld
  <2> QED  BY <2>1, <2>2
<1> QED  BY <1>2 DEF LocksHeld, Ordered, Has, Needs

LEMMA IdleHasNone == Ordered(A!Idle) /\ Has(A!Idle) = {}
BY DEF A!Idle, Ordered, Has

LEMMA LocksLeft ==
    ASSUME AdministrationTyped, LocksHeld, NEW j \in Jobs, job' = [job EXCEPT ![j] = A!Idle], lock' = A!Unlocked(j)
    PROVE  LocksHeld' /\ lock' \in [Models -> Jobs \cup {None}]
<1>1. \A m \in Models : lock'[m] = IF lock[m] = j THEN None ELSE lock[m]
  BY DEF A!Unlocked
<1>2. \A m \in Models : (lock'[m] = j <=> m \in Has(A!Idle)) /\ \A k \in Jobs : k # j => (lock'[m] = k <=> lock[m] = k)
  BY <1>1, IdleHasNone, NamesApart
<1> QED  BY <1>2, IdleHasNone, LocksKept DEF AdministrationTyped, A!Unlocked

LEMMA LockTaken ==
    ASSUME AdministrationTyped, LocksHeld, NEW j \in Jobs, NEW then \in {"check", "delete"}, A!Locks(j, then),
           then = "check" => job[j] \in Updates, then = "delete" => job[j] \in Deletions
    PROVE  /\ LocksHeld' /\ lock' \in [Models -> Jobs \cup {None}]
           /\ \E w \in Updates \cup Deletions :
                 /\ job' = [job EXCEPT ![j] = w] /\ w.op \in {"lock", then} /\ w.was = job[j].was /\ w.d = job[j].d
<1> DEFINE m == CHOOSE p \in job[j].pending : \A q \in job[j].pending : p <= q
           w == [job[j] EXCEPT !.pending = @ \ {m}, !.op = IF job[j].pending = {m} THEN then ELSE "lock"]
<1>1. /\ job[j].op = "lock" /\ job[j].pending # {} /\ lock[m] = None /\ lock' = [lock EXCEPT ![m] = j]
      /\ job' = [job EXCEPT ![j] = w]
  BY DEF A!Locks, A!Goes
<1>2. /\ job[j].was # None /\ job[j].pending \subseteq Needs(job[j]) /\ \A h \in Has(job[j]), q \in job[j].pending : h < q
      /\ Has(job[j]) = Needs(job[j]) \ job[j].pending
  BY <1>1 DEF LocksHeld, Ordered, Has
<1>3. Needs(job[j]) \subseteq Models /\ \E a, b \in Models : Needs(job[j]) = {a, b}
  <2>1. CASE job[j] \in Updates
    BY <1>2, <2>1, UpdateParts
  <2>2. CASE job[j] \in Deletions
    BY <1>2, <2>2, DeletionParts
  <2> QED  BY <2>1, <2>2
<1>4. m \in job[j].pending /\ \A q \in job[j].pending : m <= q
  <2>1. \E p \in job[j].pending : \A q \in job[j].pending : p <= q
    BY <1>1, <1>2, <1>3, NamesApart
  <2> QED  BY <2>1
<1>5. m \in Models
  BY <1>2, <1>3, <1>4
<1> HIDE DEF m
<1>6. /\ w \in Updates \cup Deletions /\ w.op \in {"lock", then} /\ w.was = job[j].was /\ w.d = job[j].d
      /\ w.pending = job[j].pending \ {m} /\ Needs(w) = Needs(job[j])
      /\ (w.op = "lock" <=> w.pending # {})
  <2>1. CASE job[j] \in Updates /\ then = "check"
    <3>1. w \in Updates /\ w.was = job[j].was /\ w.d = job[j].d /\ w.next = job[j].next /\ w.pending = job[j].pending \ {m}
          /\ w.op = IF job[j].pending = {m} THEN then ELSE "lock"
      BY <2>1 DEF Updates
    <3> HIDE DEF w
    <3>2. Needs(w) = Needs(job[j])
      BY <2>1, <3>1, UpdateParts
    <3>3. w.op = "lock" <=> w.pending # {}
      BY <1>4, <2>1, <3>1
    <3> QED  BY <2>1, <3>1, <3>2, <3>3
  <2>2. CASE job[j] \in Deletions /\ then = "delete"
    <3>1. w \in Deletions /\ w.was = job[j].was /\ w.d = job[j].d /\ w.pending = job[j].pending \ {m}
          /\ w.op = IF job[j].pending = {m} THEN then ELSE "lock"
      BY <2>2 DEF Deletions
    <3> HIDE DEF w
    <3>2. Needs(w) = Needs(job[j])
      BY <2>2, <3>1, DeletionParts
    <3>3. w.op = "lock" <=> w.pending # {}
      BY <1>4, <2>2, <3>1
    <3> QED  BY <2>2, <3>1, <3>2, <3>3
  <2> QED  BY <2>1, <2>2
<1> HIDE DEF w
<1>7. Has(w) = Has(job[j]) \cup {m}
  BY <1>1, <1>2, <1>4, <1>6 DEF Has
<1>8. Ordered(w)
  <2>1. \A h \in Has(w), q \in w.pending : h < q
    BY <1>2, <1>3, <1>4, <1>5, <1>6, <1>7, NamesApart
  <2> QED  BY <1>2, <1>6, <2>1 DEF Ordered
<1>9. lock' \in [Models -> Jobs \cup {None}] /\ \A h \in Models : lock'[h] = IF h = m THEN j ELSE lock[h]
  BY <1>1, <1>5 DEF AdministrationTyped
<1>10. \A h \in Models : lock[h] = j <=> h \in Has(job[j])
  BY DEF LocksHeld
<1>11. /\ \A h \in Models : lock'[h] = j <=> h \in Has(w)
       /\ \A h \in Models, k \in Jobs : k # j => (lock'[h] = k <=> lock[h] = k)
  BY <1>1, <1>7, <1>9, <1>10, NamesApart
<1>12. LocksHeld'
  BY <1>1, <1>8, <1>11, LocksKept
<1> QED  BY <1>1, <1>6, <1>9, <1>12

\* A finite set of numbers has a greatest one.
LEMMA Greatest ==
    ASSUME NEW S, S \subseteq Nat, IsFiniteSet(S), S # {}
    PROVE  \E x \in S : \A y \in S : y <= x
<1> DEFINE Above(x) == {y \in S : x < y}
           T == {Above(x) : x \in S}
<1>1. T \subseteq FiniteSubsetsOf(S) /\ T # {}
  <2>1. \A x \in S : Above(x) \in FiniteSubsetsOf(S)
    BY FS_Subset DEF FiniteSubsetsOf
  <2> QED  BY <2>1
<1>2. PICK U \in T : \A V \in T : <<V, U>> \notin StrictSubsetOrdering(S)
  <2> HIDE DEF T
  <2> QED  BY <1>1, WFMin, FS_StrictSubsetOrderingWellFounded
<1>3. PICK x \in S : U = Above(x)
  OBVIOUS
<1>4. ASSUME NEW y \in S, x < y PROVE FALSE
  <2>1. \A z \in S : z \in Nat
    OBVIOUS
  <2>2. Above(y) \in T
    OBVIOUS
  <2> HIDE DEF T
  <2>3. \A z \in S : y < z => x < z
    BY <1>4, <2>1
  <2>4. y \in Above(x) /\ y \notin Above(y)
    BY <1>4, <2>1
  <2>5. <<Above(y), Above(x)>> \in StrictSubsetOrdering(S)
    BY <2>3, <2>4 DEF StrictSubsetOrdering
  <2> QED  BY <1>2, <1>3, <2>2, <2>5
<1>5. \A y \in S : y \in Nat /\ x \in Nat
  OBVIOUS
<1> HIDE DEF T
<1> QED  BY <1>4, <1>5

\* No request waits in a circle.
LEMMA NoneInCircle == AdministrationTyped /\ LocksHeld => A!NoCircle
<1> SUFFICES ASSUME AdministrationTyped, LocksHeld, \E j \in Jobs : job[j] # A!Idle,
                    \A j \in Jobs : job[j] # A!Idle => A!Waits(j)
             PROVE  FALSE
  BY DEF A!NoCircle
<1>1. \A j \in Jobs : job[j].op # "clean"
  <2> SUFFICES ASSUME NEW j \in Jobs, job[j].op = "clean" PROVE FALSE
    OBVIOUS
  <2> QED  BY DEF A!Waits, A!Idle
<1>2. \A j \in Jobs : job[j] # A!Idle =>
        job[j].op = "lock" /\ \E m \in job[j].pending : lock[m] # None /\ \A q \in job[j].pending : m <= q
  BY <1>1 DEF A!Waits, A!RowFree
<1> DEFINE Awaited(j, m) == job[j].op = "lock" /\ m \in job[j].pending /\ lock[m] # None
           S == {m \in Models : \E j \in Jobs : Awaited(j, m)}
<1>3. \A j \in Jobs : job[j].op = "lock" => job[j].pending \subseteq Models
  BY WorkParts, UpdateParts, DeletionParts
<1>4. S # {}
  BY <1>2, <1>3
<1>5. S \subseteq Nat /\ IsFiniteSet(S)
  BY NamesApart, ConfigurationAssumption, FS_Subset
<1>6. PICK m \in S : \A q \in S : q <= m
  <2> HIDE DEF S
  <2> QED  BY <1>4, <1>5, Greatest
<1>7. m \in Models /\ lock[m] # None
  OBVIOUS
<1>8. PICK k \in Jobs : k = lock[m]
  BY <1>7 DEF AdministrationTyped
<1>9. m \in Has(job[k]) /\ job[k] # A!Idle
  BY <1>7, <1>8, IdleHasNone DEF LocksHeld
<1>10. PICK q \in job[k].pending : lock[q] # None /\ job[k].op = "lock"
  BY <1>2, <1>9
<1>11. m < q
  BY <1>9, <1>10 DEF LocksHeld, Ordered
<1>12. q \in S
  BY <1>3, <1>10
<1>13. q <= m /\ q \in Nat /\ m \in Nat
  <2> HIDE DEF S
  <2> QED  BY <1>5, <1>6, <1>12
<1> QED  BY <1>11, <1>13

\* A step of one request that writes no row and no chain.
LEMMA MovesKept ==
    ASSUME AdministrationInv, NEW j \in Jobs, NEW w, job' = [job EXCEPT ![j] = w],
           UNCHANGED <<model, chain, raced, envelope, secret>>, w.op # "clean",
           w.op = "write" /\ ~raced /\ w.next # w.was => ~A!Referenced(w.was) \/ \E e \in A!Of(w.was) : e # w.d
    PROVE  RowsLocked' /\ Renames' /\ A!ChainsResolve' /\ Sealed'
<1>1. job'[j] = w /\ \A k \in Jobs : k # j => job'[k] = job[k]
  BY DEF AdministrationInv, AdministrationTyped
<1>2. RowsLocked'
  BY <1>1 DEF AdministrationInv, RowsLocked
<1>3. A!ChainsResolve' /\ Sealed'
  BY DEF AdministrationInv, A!ChainsResolve, A!Exists, A!Of, Sealed
<1>4. ASSUME ~raced, NEW k \in Jobs, job'[k].op = "write", job'[k].next # job'[k].was
      PROVE  ~A!Referenced(job'[k].was) \/ \E e \in A!Of(job'[k].was) : e # job'[k].d
  <2>1. CASE k = j
    BY <1>1, <1>4, <2>1
  <2>2. CASE k # j
    BY <1>1, <1>4, <2>2 DEF AdministrationInv, Renames
  <2> QED  BY <2>1, <2>2
<1>5. Renames'
  BY <1>4 DEF Renames, A!Referenced, A!Of
<1> QED  BY <1>2, <1>3, <1>5

\* A request that begins, or goes on without a lock.
LEMMA BeginsWork ==
    ASSUME AdministrationInv, NEW j \in Jobs, NEW w \in {A!Idle} \cup Updates \cup Deletions \cup Upserts, job' = [job EXCEPT ![j] = w],
           UNCHANGED <<model, chain, raced, envelope, secret, lock, rotation>>, made' \in 0..MaxJobs,
           w.op \in {"idle", "update", "lock", "upsert"}, Ordered(w), Has(w) = Has(job[j])
    PROVE  AdministrationInv'
<1>1. AdministrationTyped'
  BY DEF AdministrationInv, AdministrationTyped
<1>2. RowsLocked' /\ Renames' /\ A!ChainsResolve' /\ Sealed'
  BY MovesKept
<1>3. LocksHeld'
  <2>1. \A m \in Models : lock'[m] = j <=> m \in Has(w)
    BY DEF AdministrationInv, LocksHeld
  <2> QED  BY <2>1, LocksKept DEF AdministrationInv
<1> QED  BY <1>1, <1>2, <1>3 DEF AdministrationInv

LEMMA UpdateReadsKept ==
    ASSUME AdministrationInv, NEW j \in Jobs, NEW d \in Deployments, NEW patch \in A!Patches, A!UpdateReads(j, d, patch)
    PROVE  AdministrationInv'
<1> DEFINE w == [op |-> "update", d |-> d, new |-> made + 1, patched |-> patch.credentials,
                 next |-> IF patch.model = None THEN model[d] ELSE patch.model, was |-> None, pending |-> {}]
<1>1. /\ job' = [job EXCEPT ![j] = w] /\ job[j] = A!Idle /\ made < MaxJobs /\ made' = made + 1 /\ model[d] # None
      /\ UNCHANGED <<model, chain, raced, envelope, secret, lock, rotation>>
  BY DEF A!UpdateReads, A!Begin, A!rows
<1>2. made \in 0..MaxJobs /\ MaxJobs \in Nat /\ model[d] \in Models
  BY <1>1, ConfigurationAssumption DEF AdministrationInv, AdministrationTyped
<1>3. w \in Updates /\ w.op = "update"
  BY <1>2 DEF Updates, A!Patches
<1> HIDE DEF w
<1>4. Ordered(w) /\ Has(w) = {} /\ Has(job[j]) = {}
  BY <1>1, <1>3, IdleHasNone DEF Ordered, Has
<1>5. made' \in 0..MaxJobs
  BY <1>1, <1>2
<1> QED  BY <1>1, <1>3, <1>4, <1>5, BeginsWork

LEMMA DeleteBeginsKept ==
    ASSUME AdministrationInv, NEW j \in Jobs, NEW d \in Deployments, A!DeleteBegins(j, d)
    PROVE  AdministrationInv'
<1> DEFINE w == [op |-> "lock", d |-> d, was |-> model[d], pending |-> {model[d]}, chains |-> chain]
<1>1. /\ job' = [job EXCEPT ![j] = w] /\ job[j] = A!Idle /\ made < MaxJobs /\ made' = made + 1 /\ model[d] # None
      /\ UNCHANGED <<model, chain, raced, envelope, secret, lock, rotation>>
  BY DEF A!DeleteBegins, A!Begin, A!rows
<1>2. made \in 0..MaxJobs /\ MaxJobs \in Nat /\ model[d] \in Models /\ chain \in Chains
  BY <1>1, ConfigurationAssumption DEF AdministrationInv, AdministrationTyped
<1>3. w \in Deletions /\ w.op = "lock" /\ w.was = model[d] /\ w.pending = {model[d]}
  BY <1>2 DEF Deletions
<1> HIDE DEF w
<1>4. Ordered(w) /\ Has(w) = {} /\ Has(job[j]) = {}
  BY <1>1, <1>2, <1>3, IdleHasNone, DeletionParts, NamesApart DEF Ordered, Has
<1>5. made' \in 0..MaxJobs
  BY <1>1, <1>2
<1> QED  BY <1>1, <1>3, <1>4, <1>5, BeginsWork

LEMMA FallbackChecksKept ==
    ASSUME AdministrationInv, NEW j \in Jobs, NEW p \in Models, NEW targets \in SUBSET Models, A!FallbackChecks(j, p, targets)
    PROVE  AdministrationInv'
<1> DEFINE w == [op |-> "upsert", d |-> None, primary |-> p, targets |-> targets]
<1>1. /\ job' = [job EXCEPT ![j] = w] /\ job[j] = A!Idle /\ made < MaxJobs /\ made' = made + 1
      /\ UNCHANGED <<model, chain, raced, envelope, secret, lock, rotation>>
  BY DEF A!FallbackChecks, A!Begin, A!rows
<1>2. made \in 0..MaxJobs /\ MaxJobs \in Nat
  BY ConfigurationAssumption DEF AdministrationInv, AdministrationTyped
<1>3. w \in Upserts /\ w.op = "upsert"
  BY DEF Upserts
<1> HIDE DEF w
<1>4. Ordered(w) /\ Has(w) = {} /\ Has(job[j]) = {}
  BY <1>1, <1>3, IdleHasNone DEF Ordered, Has
<1>5. made' \in 0..MaxJobs
  BY <1>1, <1>2
<1> QED  BY <1>1, <1>3, <1>4, <1>5, BeginsWork

LEMMA UpdateBeginsKept ==
    ASSUME AdministrationInv, NEW j \in Jobs, A!UpdateBegins(j)
    PROVE  AdministrationInv'
<1> DEFINE was == model[job[j].d]
           w == IF was = None THEN A!Idle
                ELSE [job[j] EXCEPT !.was = was, !.pending = {was, job[j].next}, !.op = "lock"]
<1>1. /\ job' = [job EXCEPT ![j] = w] /\ job[j].op = "update" /\ made' = made
      /\ UNCHANGED <<model, chain, raced, envelope, secret, lock, rotation>>
  BY DEF A!UpdateBegins, A!Goes, A!LockedByUpdate, A!rows
<1>2. made \in 0..MaxJobs /\ job[j] \in Updates /\ Has(job[j]) = {}
  BY <1>1, WorkParts DEF AdministrationInv, AdministrationTyped, Has
<1>3. was \in Models \cup {None} /\ job[j].next \in Models
  BY <1>2, UpdateParts DEF AdministrationInv, AdministrationTyped
<1>4. CASE was = None
  <2>1. w = A!Idle /\ w.op = "idle"
    BY <1>4 DEF A!Idle
  <2> HIDE DEF w
  <2> QED  BY <1>1, <1>2, <2>1, IdleHasNone, BeginsWork
<1>5. CASE was # None
  <2> HIDE DEF was
  <2>1. w \in Updates /\ w.op = "lock" /\ w.was = was /\ w.next = job[j].next /\ w.pending = {was, job[j].next}
    BY <1>2, <1>3, <1>5 DEF Updates
  <2> HIDE DEF w
  <2>2. Ordered(w) /\ Has(w) = {}
    BY <1>5, <2>1, UpdateParts DEF Ordered, Has
  <2> QED  BY <1>1, <1>2, <2>1, <2>2, BeginsWork
<1> QED  BY <1>4, <1>5

LEMMA LocksStep ==
    ASSUME AdministrationInv, NEW j \in Jobs, A!UpdateLocks(j) \/ A!DeleteLocks(j)
    PROVE  AdministrationInv'
<1>1. UNCHANGED <<model, chain, raced, envelope, secret, rotation, made>>
  BY DEF A!UpdateLocks, A!DeleteLocks, A!rows, A!Locks, A!Goes
<1>2. \E w \in Updates \cup Deletions : /\ job' = [job EXCEPT ![j] = w] /\ w.op \in {"lock", "check", "delete"}
         /\ LocksHeld' /\ lock' \in [Models -> Jobs \cup {None}]
  <2>1. job[j].op = "lock" /\ job[j] \in Updates \cup Deletions
    BY WorkParts DEF A!UpdateLocks, A!DeleteLocks, A!Locks, AdministrationInv
  <2>2. CASE A!UpdateLocks(j)
    <3>1. A!Locks(j, "check") /\ job[j] \in Updates
      BY <2>1, <2>2, Apart DEF A!UpdateLocks
    <3> QED  BY <3>1, LockTaken DEF AdministrationInv
  <2>3. CASE A!DeleteLocks(j)
    <3>1. A!Locks(j, "delete") /\ job[j] \in Deletions
      BY <2>1, <2>3, Apart DEF A!DeleteLocks
    <3> QED  BY <3>1, LockTaken DEF AdministrationInv
  <2> QED  BY <2>2, <2>3
<1>3. PICK w \in Updates \cup Deletions : job' = [job EXCEPT ![j] = w] /\ w.op \in {"lock", "check", "delete"}
  BY <1>2
<1>4. RowsLocked' /\ Renames' /\ A!ChainsResolve' /\ Sealed'
  BY <1>1, <1>3, MovesKept
<1>5. AdministrationTyped'
  BY <1>1, <1>2, <1>3 DEF AdministrationInv, AdministrationTyped
<1> QED  BY <1>2, <1>4, <1>5 DEF AdministrationInv

LEMMA UpdateChecksKept ==
    ASSUME AdministrationInv, NEW j \in Jobs, A!UpdateChecks(j)
    PROVE  AdministrationInv'
<1>1. /\ UNCHANGED <<model, chain, raced, envelope, secret, rotation, made>> /\ job[j].op = "check"
      /\ \/ job' = [job EXCEPT ![j] = A!Idle] /\ lock' = A!Unlocked(j)
         \/ /\ ~(job[j].next # job[j].was /\ A!LastReferenced(job[j].was)) /\ lock' = lock
            /\ job' = [job EXCEPT ![j] = [job[j] EXCEPT !.op = "write"]]
  BY DEF A!UpdateChecks, A!Ends, A!Goes, A!rows
<1>2. job[j] \in Updates /\ Ordered(job[j]) /\ Has(job[j]) = Needs(job[j]) /\ job[j].was # None
  BY <1>1, WorkParts DEF AdministrationInv, LocksHeld, Has, Ordered
<1>3. CASE job' = [job EXCEPT ![j] = A!Idle] /\ lock' = A!Unlocked(j)
  <2>1. LocksHeld' /\ lock' \in [Models -> Jobs \cup {None}]
    BY <1>3, LocksLeft DEF AdministrationInv
  <2>2. RowsLocked' /\ Renames' /\ A!ChainsResolve' /\ Sealed'
    <3>1. A!Idle.op = "idle"
      BY DEF A!Idle
    <3> QED  BY <1>1, <1>3, <3>1, MovesKept
  <2>3. AdministrationTyped'
    BY <1>1, <1>3, <2>1 DEF AdministrationInv, AdministrationTyped
  <2> QED  BY <2>1, <2>2, <2>3 DEF AdministrationInv
<1>4. CASE /\ ~(job[j].next # job[j].was /\ A!LastReferenced(job[j].was)) /\ lock' = lock
           /\ job' = [job EXCEPT ![j] = [job[j] EXCEPT !.op = "write"]]
  <2> DEFINE w == [job[j] EXCEPT !.op = "write"]
  <2>1. w \in Updates /\ w.op = "write" /\ w.was = job[j].was /\ w.next = job[j].next /\ w.d = job[j].d
    BY <1>2 DEF Updates
  <2>2. job' = [job EXCEPT ![j] = w]
    BY <1>4
  <2> HIDE DEF w
  <2>3. Has(w) = Has(job[j]) /\ Ordered(w)
    BY <1>2, <2>1, UpdateParts DEF Has, Ordered
  <2>4. LocksHeld'
    <3>1. \A m \in Models : lock'[m] = j <=> m \in Has(w)
      BY <1>4, <2>3 DEF AdministrationInv, LocksHeld
    <3> QED  BY <1>4, <2>2, <2>3, <3>1, LocksKept DEF AdministrationInv
  <2>5. ASSUME ~raced, w.next # w.was, A!Referenced(w.was) PROVE \E e \in A!Of(w.was) : e # w.d
    <3>1. w.was \in Models
      BY <1>2, <2>1, UpdateParts
    <3>2. A!Of(w.was) # {}
      BY <2>5, <3>1 DEF AdministrationInv, A!ChainsResolve, A!Referenced, A!Exists
    <3>3. \A d \in Deployments : A!Of(job[j].was) # {d}
      <4>1. job[j].next # job[j].was
        BY <2>1, <2>5
      <4>2. ~A!LastReferenced(job[j].was)
        BY <1>4, <4>1
      <4> QED  BY <2>1, <2>5, <4>2 DEF A!LastReferenced
    <3>4. A!Of(w.was) # {w.d}
      BY <1>2, <2>1, <3>3, UpdateParts
    <3> QED  BY <3>2, <3>4
  <2>6. RowsLocked' /\ Renames' /\ A!ChainsResolve' /\ Sealed'
    BY <1>1, <2>1, <2>2, <2>5, MovesKept
  <2>7. AdministrationTyped'
    BY <1>1, <1>4, <2>1, <2>2 DEF AdministrationInv, AdministrationTyped
  <2> QED  BY <2>4, <2>6, <2>7 DEF AdministrationInv
<1> QED  BY <1>1, <1>3, <1>4

\* Whoever has a lock has it alone.
LEMMA LockAlone ==
    ASSUME AdministrationInv, NEW j \in Jobs, NEW k \in Jobs, NEW m \in Models, m \in Has(job[j]), m \in Has(job[k])
    PROVE  j = k
BY DEF AdministrationInv, LocksHeld

LEMMA WriterHas ==
    ASSUME AdministrationInv, NEW j \in Jobs, job[j].op \in {"write", "delete", "clean"}
    PROVE  job[j].was \in Models /\ job[j].was \in Has(job[j]) /\ lock[job[j].was] = j
<1>1. job[j].op = "write" => job[j] \in Updates /\ job[j].was # None
  BY WorkParts DEF AdministrationInv, LocksHeld, Ordered
<1>2. job[j].op \in {"delete", "clean"} => job[j] \in Deletions
  BY WorkParts DEF AdministrationInv
<1>3. job[j].was \in Models
  BY <1>1, <1>2, UpdateParts, DeletionParts
<1>4. job[j].was \in Has(job[j])
  BY <1>1, <1>2, UpdateParts, DeletionParts DEF Has
<1> QED  BY <1>3, <1>4 DEF AdministrationInv, LocksHeld

\* A deployment appears.
LEMMA CreateKept ==
    ASSUME AdministrationInv, NEW j \in Jobs, NEW d \in Deployments, NEW m \in Models, A!Create(j, d, m)
    PROVE  AdministrationInv'
<1>1. /\ model[d] = None /\ model' = [model EXCEPT ![d] = m] /\ UNCHANGED <<chain, lock, job, rotation, raced>>
      /\ made < MaxJobs /\ made' = made + 1 /\ secret' = [secret EXCEPT ![d] = made']
      /\ \E active \in BOOLEAN : envelope' = [envelope EXCEPT ![d] = [secret |-> made', active |-> active]]
  BY DEF A!Create
<1>2. model' \in [Deployments -> Models \cup {None}] /\ \A e \in Deployments : model'[e] = IF e = d THEN m ELSE model[e]
  BY <1>1 DEF AdministrationInv, AdministrationTyped
<1>3. made' \in 0..MaxJobs /\ made' \in Nat
  BY <1>1, ConfigurationAssumption DEF AdministrationInv, AdministrationTyped
<1>4. AdministrationTyped'
  BY <1>1, <1>2, <1>3 DEF AdministrationInv, AdministrationTyped, Envelopes
<1>5. Sealed'
  BY <1>1, <1>3 DEF AdministrationInv, AdministrationTyped, Envelopes, Sealed
<1>6. \A q \in Models : A!Of(q) \subseteq A!Of(q)'
  BY <1>1, <1>2, NamesApart DEF A!Of
<1>7. LocksHeld'
  BY <1>1 DEF AdministrationInv, LocksHeld
<1>8. RowsLocked'
  <2>1. \A k \in Jobs : job[k].op = "clean" => job[k] \in Deletions /\ job[k].was \in Models
    BY WorkParts, DeletionParts DEF AdministrationInv
  <2> QED  BY <1>1, <1>2, <2>1, NamesApart DEF AdministrationInv, RowsLocked
<1>9. Renames'
  <2>1. \A k \in Jobs : job[k].op = "write" => job[k].was \in Models
    BY WriterHas
  <2> QED  BY <1>1, <1>6, <2>1 DEF AdministrationInv, Renames, A!Referenced
<1>10. A!ChainsResolve'
  <2>1. ~raced => \A p \in Models : chain[p] # {} => A!Of(p) # {} /\ \A t \in chain[p] : t \in Models /\ A!Of(t) # {}
    BY DEF AdministrationInv, AdministrationTyped, Chains, A!ChainsResolve, A!Exists
  <2> QED  BY <1>1, <1>6, <2>1 DEF A!ChainsResolve, A!Exists
<1> QED  BY <1>4, <1>5, <1>7, <1>8, <1>9, <1>10 DEF AdministrationInv

\* A chain goes.
LEMMA FallbackDeletesKept ==
    ASSUME AdministrationInv, NEW p \in Models, A!FallbackDeletes(p)
    PROVE  AdministrationInv'
<1>1. /\ chain' = [chain EXCEPT ![p] = {}] /\ UNCHANGED <<model, envelope, secret, lock, job, rotation, raced>>
      /\ made < MaxJobs /\ made' = made + 1
  BY DEF A!FallbackDeletes, A!rows
<1>2. made' \in 0..MaxJobs
  BY <1>1, ConfigurationAssumption DEF AdministrationInv, AdministrationTyped
<1>3. chain' \in Chains /\ \A q \in Models : chain'[q] \subseteq chain[q]
  BY <1>1 DEF AdministrationInv, AdministrationTyped, Chains
<1>4. AdministrationTyped'
  BY <1>1, <1>2, <1>3 DEF AdministrationInv, AdministrationTyped
<1>5. LocksHeld' /\ RowsLocked' /\ Sealed'
  BY <1>1 DEF AdministrationInv, LocksHeld, RowsLocked, Sealed
<1>6. \A q \in Models : A!Referenced(q)' => A!Referenced(q)
  BY <1>3 DEF A!Referenced
<1>7. Renames'
  <2>1. \A k \in Jobs : job[k].op = "write" => job[k].was \in Models
    BY WriterHas
  <2> QED  BY <1>1, <1>6, <2>1 DEF AdministrationInv, Renames, A!Of
<1>8. A!ChainsResolve'
  BY <1>1, <1>3 DEF AdministrationInv, A!ChainsResolve, A!Exists, A!Of
<1> QED  BY <1>4, <1>5, <1>7, <1>8 DEF AdministrationInv

\* A chain is written, without a lock.
LEMMA FallbackWritesKept ==
    ASSUME AdministrationInv, NEW j \in Jobs, A!FallbackWrites(j)
    PROVE  AdministrationInv'
<1>1. /\ job[j].op = "upsert" /\ chain' = [chain EXCEPT ![job[j].primary] = job[j].targets]
      /\ raced' = (raced \/ \E m \in {job[j].primary} \cup job[j].targets : ~A!Exists(m) \/ lock[m] # None)
      /\ job' = [job EXCEPT ![j] = A!Idle] /\ UNCHANGED <<model, envelope, secret, lock, rotation, made>>
  BY DEF A!FallbackWrites, A!Goes, A!rows
<1>2. job[j] \in Upserts
  BY <1>1, WorkParts DEF AdministrationInv
<1>3. job[j].primary \in Models /\ job[j].targets \subseteq Models
  BY <1>2 DEF Upserts
<1>4. chain' \in Chains /\ \A q \in Models : chain'[q] = IF q = job[j].primary THEN job[j].targets ELSE chain[q]
  BY <1>1, <1>3 DEF AdministrationInv, AdministrationTyped, Chains
<1>5. AdministrationTyped'
  BY <1>1, <1>4 DEF AdministrationInv, AdministrationTyped
<1>6. job'[j] = A!Idle /\ A!Idle.op = "idle" /\ \A k \in Jobs : k # j => job'[k] = job[k]
  BY <1>1 DEF AdministrationInv, AdministrationTyped, A!Idle
<1>7. LocksHeld'
  <2>1. Has(job[j]) = {}
    BY <1>1 DEF Has
  <2>2. \A m \in Models : lock'[m] = j <=> m \in Has(A!Idle)
    BY <1>1, <2>1, IdleHasNone DEF AdministrationInv, LocksHeld
  <2> QED  BY <1>1, <2>2, IdleHasNone, LocksKept DEF AdministrationInv
<1>8. RowsLocked' /\ Sealed'
  BY <1>1, <1>6 DEF AdministrationInv, RowsLocked, Sealed
<1>9. ASSUME ~raced' PROVE ~raced /\ \A m \in {job[j].primary} \cup job[j].targets : A!Exists(m) /\ lock[m] = None
  BY <1>1, <1>9
<1>10. Renames'
  <2>1. ASSUME ~raced', NEW k \in Jobs, job'[k].op = "write", job'[k].next # job'[k].was,
               chain'[job'[k].was] # {} \/ \E p \in Models : job'[k].was \in chain'[p]
        PROVE  \E e \in A!Of(job'[k].was) : e # job'[k].d
    <3>1. job'[k] = job[k] /\ k # j
      BY <1>6, <2>1
    <3>2. job[k].was \in Models /\ lock[job[k].was] = k
      BY <2>1, <3>1, WriterHas
    <3>3. job[k].was \notin {job[j].primary} \cup job[j].targets
      BY <1>9, <2>1, <3>2, NamesApart
    <3>4. A!Referenced(job[k].was)
      <4>1. chain'[job[k].was] # {} \/ \E p \in Models : job[k].was \in chain'[p]
        BY <2>1, <3>1
      <4>2. chain'[job[k].was] = chain[job[k].was]
        BY <1>4, <3>2, <3>3
      <4>3. \A p \in Models : job[k].was \in chain'[p] => job[k].was \in chain[p]
        BY <1>4, <3>3
      <4> QED  BY <4>1, <4>2, <4>3 DEF A!Referenced
    <3> QED  BY <1>9, <2>1, <3>1, <3>4 DEF AdministrationInv, Renames
  <2> QED  BY <1>1, <2>1 DEF Renames, A!Of, A!Referenced
<1>11. A!ChainsResolve'
  <2>1. ASSUME ~raced', NEW p \in Models, chain'[p] # {}
        PROVE  A!Exists(p) /\ \A t \in chain'[p] : A!Exists(t)
    BY <1>4, <1>9, <2>1 DEF AdministrationInv, A!ChainsResolve
  <2> QED  BY <1>1, <2>1 DEF A!ChainsResolve, A!Exists, A!Of
<1> QED  BY <1>5, <1>7, <1>8, <1>10, <1>11 DEF AdministrationInv

LEMMA RotatesKept ==
    ASSUME AdministrationInv, A!Rotates
    PROVE  AdministrationInv'
<1>1. UNCHANGED <<model, secret, chain, lock, job, made, raced>>
  BY DEF A!Rotates, A!RotationReads, A!RotationWrites, A!rows
<1>2. /\ rotation' \in {A!Idle} \cup [op : {"seal"}, d : Deployments, read : Envelopes]
      /\ envelope' \in [Deployments -> Envelopes]
      /\ \A d \in Deployments : envelope'[d].secret = envelope[d].secret
  <2>1. CASE \E d \in Deployments : A!RotationReads(d)
    BY <2>1 DEF A!RotationReads, A!rows, AdministrationInv, AdministrationTyped
  <2>2. CASE A!RotationWrites
    <3>1. rotation.d \in Deployments
      BY <2>2 DEF A!RotationWrites, AdministrationInv, AdministrationTyped, A!Idle
    <3>2. envelope \in [Deployments -> Envelopes]
      BY DEF AdministrationInv, AdministrationTyped
    <3>3. envelope' = envelope \/ envelope' = [envelope EXCEPT ![rotation.d] = [envelope[rotation.d] EXCEPT !.active = TRUE]]
      BY <2>2 DEF A!RotationWrites
    <3>4. [envelope[rotation.d] EXCEPT !.active = TRUE] \in Envelopes
          /\ [envelope[rotation.d] EXCEPT !.active = TRUE].secret = envelope[rotation.d].secret
      BY <3>1, <3>2 DEF Envelopes
    <3> QED  BY <2>2, <3>1, <3>2, <3>3, <3>4 DEF A!RotationWrites
  <2> QED  BY <2>1, <2>2 DEF A!Rotates
<1>3. AdministrationTyped'
  BY <1>1, <1>2 DEF AdministrationInv, AdministrationTyped
<1>4. Sealed'
  BY <1>1, <1>2 DEF AdministrationInv, Sealed
<1> QED  BY <1>1, <1>3, <1>4 DEF AdministrationInv, LocksHeld, RowsLocked, Renames, A!ChainsResolve, A!Referenced, A!Exists, A!Of

\* Who has the lock of a deployment's model writes its row, and ends.
LEMMA RowWritten ==
    ASSUME AdministrationInv, NEW j \in Jobs, NEW d \in Deployments, NEW v \in Models \cup {None}, NEW old \in Models,
           job' = [job EXCEPT ![j] = A!Idle], lock' = A!Unlocked(j), model' = [model EXCEPT ![d] = v], lock[old] = j,
           \A k \in Jobs : k # j => ~(job[k].op = "clean" /\ job[k].d = d),
           ~raced' => ~raced /\ model[d] = old /\ \A p \in Models : chain'[p] \subseteq chain[p]
    PROVE  /\ LocksHeld' /\ RowsLocked' /\ Renames'
           /\ job' \in [Jobs -> {A!Idle} \cup Updates \cup Deletions \cup Upserts]
           /\ lock' \in [Models -> Jobs \cup {None}] /\ model' \in [Deployments -> Models \cup {None}]
<1>1. LocksHeld' /\ lock' \in [Models -> Jobs \cup {None}]
  BY LocksLeft DEF AdministrationInv
<1>2. /\ job'[j] = A!Idle /\ A!Idle.op = "idle" /\ \A k \in Jobs : k # j => job'[k] = job[k]
      /\ job' \in [Jobs -> {A!Idle} \cup Updates \cup Deletions \cup Upserts]
  BY DEF AdministrationInv, AdministrationTyped, A!Idle
<1>3. model' \in [Deployments -> Models \cup {None}] /\ \A e \in Deployments : model'[e] = IF e = d THEN v ELSE model[e]
  BY DEF AdministrationInv, AdministrationTyped
<1>4. RowsLocked'
  <2>1. ASSUME NEW k \in Jobs, job'[k].op = "clean"
        PROVE  k # j /\ job[k].op = "clean" /\ job'[k] = job[k] /\ job[k].d # d /\ job[k].d \in Deployments
    BY <1>2, <2>1, WorkParts, DeletionParts DEF AdministrationInv
  <2> QED  BY <1>3, <2>1 DEF AdministrationInv, RowsLocked
<1>5. ASSUME ~raced', NEW k \in Jobs, job'[k].op = "write", job'[k].next # job'[k].was,
             chain'[job'[k].was] # {} \/ \E p \in Models : job'[k].was \in chain'[p]
      PROVE  \E e \in Deployments : model'[e] = job'[k].was /\ e # job'[k].d
  <2>1. job'[k] = job[k] /\ k # j
    BY <1>2, <1>5
  <2>2. job[k].was \in Models /\ lock[job[k].was] = k /\ job[k].was # old
    BY <1>5, <2>1, WriterHas
  <2>3. A!Referenced(job[k].was)
    BY <1>5, <2>1, <2>2 DEF A!Referenced
  <2>4. PICK e \in A!Of(job[k].was) : e # job[k].d
    BY <1>5, <2>1, <2>3 DEF AdministrationInv, Renames
  <2> QED  BY <1>3, <1>5, <2>1, <2>2, <2>4 DEF A!Of
<1>6. Renames'
  BY <1>5 DEF Renames, A!Of, A!Referenced
<1> QED  BY <1>1, <1>2, <1>3, <1>4, <1>6

LEMMA UpdateWritesKept ==
    ASSUME AdministrationInv, NEW j \in Jobs, A!UpdateWrites(j)
    PROVE  AdministrationInv'
<1> DEFINE d == job[j].d
           old == job[j].was
<1>1. /\ job[j].op = "write" /\ A!RowFree(d) /\ job' = [job EXCEPT ![j] = A!Idle] /\ lock' = A!Unlocked(j)
      /\ UNCHANGED <<chain, rotation, made>>
      /\ \/ model[d] = None /\ UNCHANGED <<model, envelope, secret, raced>>
         \/ /\ model[d] # None /\ model' = [model EXCEPT ![d] = job[j].next] /\ raced' = (raced \/ model[d] # old)
            /\ \/ /\ secret' = [secret EXCEPT ![d] = job[j].new]
                  /\ envelope' = [envelope EXCEPT ![d] = [secret |-> job[j].new, active |-> TRUE]]
               \/ UNCHANGED <<secret, envelope>>
  BY DEF A!UpdateWrites, A!Ends, A!Goes, A!rows
<1>2. job[j] \in Updates /\ d \in Deployments /\ job[j].next \in Models /\ job[j].new \in Nat
  BY <1>1, WorkParts, UpdateParts DEF AdministrationInv
<1>3. old \in Models /\ lock[old] = j
  BY <1>1, WriterHas
<1>4. /\ secret' \in [Deployments -> Nat] /\ envelope' \in [Deployments -> Envelopes] /\ Sealed'
  <2>1. /\ secret \in [Deployments -> Nat] /\ envelope \in [Deployments -> Envelopes]
        /\ \A e \in Deployments : envelope[e].secret = secret[e]
    BY DEF AdministrationInv, AdministrationTyped, Sealed
  <2>2. CASE UNCHANGED <<secret, envelope>>
    BY <2>1, <2>2 DEF Sealed
  <2>3. CASE /\ secret' = [secret EXCEPT ![d] = job[j].new]
             /\ envelope' = [envelope EXCEPT ![d] = [secret |-> job[j].new, active |-> TRUE]]
    <3> DEFINE x == [secret |-> job[j].new, active |-> TRUE]
    <3>1. x \in Envelopes /\ x.secret = job[j].new
      BY <1>2 DEF Envelopes
    <3> HIDE DEF x, d
    <3>2. secret' \in [Deployments -> Nat] /\ envelope' \in [Deployments -> Envelopes]
      BY <1>2, <2>1, <2>3, <3>1 DEF x
    <3>3. \A e \in Deployments : envelope'[e].secret = secret'[e]
      <4>1. envelope' = [envelope EXCEPT ![d] = x]
        BY <2>3 DEF x
      <4> QED  BY <1>2, <2>1, <2>3, <3>1, <4>1
    <3> QED  BY <3>2, <3>3 DEF Sealed
  <2> QED  BY <1>1, <2>2, <2>3
<1>5. CASE model[d] = None
  <2>1. UNCHANGED <<model, envelope, secret, raced>>
    BY <1>1, <1>5
  <2>2. LocksHeld' /\ lock' \in [Models -> Jobs \cup {None}]
    BY <1>1, LocksLeft DEF AdministrationInv
  <2>3. A!Idle.op = "idle"
    BY DEF A!Idle
  <2>4. RowsLocked' /\ Renames' /\ A!ChainsResolve' /\ Sealed'
    BY <1>1, <2>1, <2>3, MovesKept
  <2>5. AdministrationTyped'
    BY <1>1, <2>1, <2>2 DEF AdministrationInv, AdministrationTyped
  <2> QED  BY <2>2, <2>4, <2>5 DEF AdministrationInv
<1>6. CASE model[d] # None
  <2>1. model' = [model EXCEPT ![d] = job[j].next] /\ raced' = (raced \/ model[d] # old)
    BY <1>1, <1>6
  <2>2. \A k \in Jobs : k # j => ~(job[k].op = "clean" /\ job[k].d = d)
    BY <1>1 DEF A!RowFree
  <2>3. ~raced' => ~raced /\ model[d] = old /\ \A p \in Models : chain'[p] \subseteq chain[p]
    BY <1>1, <2>1
  <2> HIDE DEF d, old
  <2>4. /\ LocksHeld' /\ RowsLocked' /\ Renames'
        /\ job' \in [Jobs -> {A!Idle} \cup Updates \cup Deletions \cup Upserts]
        /\ lock' \in [Models -> Jobs \cup {None}] /\ model' \in [Deployments -> Models \cup {None}]
    <3>1. job' = [job EXCEPT ![j] = A!Idle] /\ lock' = A!Unlocked(j)
      BY <1>1
    <3>2. PICK v \in Models \cup {None} : v = job[j].next
      BY <1>2
    <3>3. model' = [model EXCEPT ![d] = v]
      BY <2>1, <3>2
    <3>4. d \in Deployments
      BY <1>2
    <3> QED  BY <1>3, <2>2, <2>3, <3>1, <3>3, <3>4, RowWritten
  <2>5. AdministrationTyped'
    <3>1. raced' \in BOOLEAN
      BY <2>1 DEF AdministrationInv, AdministrationTyped
    <3> QED  BY <1>1, <1>4, <2>4, <3>1 DEF AdministrationInv, AdministrationTyped
  <2>6. ASSUME ~raced', NEW m \in Models, A!Referenced(m) PROVE \E e \in Deployments : model'[e] = m
    <3>1. ~raced /\ model[d] = old
      BY <2>3, <2>6
    <3>2. \A e \in Deployments : e # d => model'[e] = model[e]
      BY <2>1 DEF AdministrationInv, AdministrationTyped
    <3>3. model'[d] = job[j].next
      BY <1>2, <2>1 DEF AdministrationInv, AdministrationTyped
    <3>4. CASE m = old /\ job[j].next # old
      <4>1. \E e \in A!Of(old) : e # d
        BY <1>1, <2>6, <3>1, <3>4 DEF AdministrationInv, Renames, d, old
      <4> QED  BY <3>2, <3>4, <4>1 DEF A!Of
    <3>5. CASE m = old /\ job[j].next = old
      BY <1>2, <3>3, <3>5
    <3>6. CASE m # old
      <4>1. A!Exists(m)
        BY <2>6, <3>1 DEF AdministrationInv, A!ChainsResolve, A!Referenced
      <4> QED  BY <3>1, <3>2, <3>6, <4>1 DEF A!Exists, A!Of
    <3> QED  BY <3>4, <3>5, <3>6
  <2>7. A!ChainsResolve'
    <3>1. ASSUME ~raced', NEW p \in Models, chain[p] # {}
          PROVE  (\E e \in Deployments : model'[e] = p) /\ \A t \in chain[p] : \E e \in Deployments : model'[e] = t
      <4>1. chain[p] \subseteq Models
        BY DEF AdministrationInv, AdministrationTyped, Chains
      <4> QED  BY <2>6, <3>1, <4>1 DEF A!Referenced
    <3>2. chain' = chain
      BY <1>1
    <3> QED  BY <3>1, <3>2 DEF A!ChainsResolve, A!Exists, A!Of
  <2> QED  BY <1>4, <2>4, <2>5, <2>7 DEF AdministrationInv
<1> QED  BY <1>5, <1>6

LEMMA DeleteRowKept ==
    ASSUME AdministrationInv, NEW j \in Jobs, A!DeleteRow(j)
    PROVE  AdministrationInv'
<1> DEFINE d == job[j].d
           old == job[j].was
<1>1. /\ job[j].op = "delete" /\ A!RowFree(d)
      /\ UNCHANGED <<chain, rotation, made, envelope, secret>> /\ raced' = (raced \/ model[d] # old)
      /\ \/ /\ A!Of(old) \ {d} # {} /\ model' = [model EXCEPT ![d] = None]
            /\ job' = [job EXCEPT ![j] = A!Idle] /\ lock' = A!Unlocked(j)
         \/ job' = [job EXCEPT ![j] = [job[j] EXCEPT !.op = "clean", !.chains = chain]] /\ UNCHANGED <<model, lock>>
  BY DEF A!DeleteRow, A!Ends, A!Goes
<1>2. job[j] \in Deletions /\ d \in Deployments /\ raced' \in BOOLEAN
  BY <1>1, WorkParts, DeletionParts DEF AdministrationInv, AdministrationTyped
<1>3. old \in Models /\ lock[old] = j
  BY <1>1, WriterHas
<1>4. \A k \in Jobs : ~(job[k].op = "clean" /\ job[k].d = d)
  BY <1>1 DEF A!RowFree
<1>5. Sealed'
  BY <1>1 DEF AdministrationInv, Sealed
<1>6. CASE /\ A!Of(old) \ {d} # {} /\ model' = [model EXCEPT ![d] = None]
           /\ job' = [job EXCEPT ![j] = A!Idle] /\ lock' = A!Unlocked(j)
  <2>1. ~raced' => ~raced /\ model[d] = old /\ \A p \in Models : chain'[p] \subseteq chain[p]
    BY <1>1
  <2> HIDE DEF d, old
  <2>2. /\ LocksHeld' /\ RowsLocked' /\ Renames'
        /\ job' \in [Jobs -> {A!Idle} \cup Updates \cup Deletions \cup Upserts]
        /\ lock' \in [Models -> Jobs \cup {None}] /\ model' \in [Deployments -> Models \cup {None}]
    BY <1>2, <1>3, <1>4, <1>6, <2>1, RowWritten
  <2>3. AdministrationTyped'
    BY <1>1, <1>2, <2>2 DEF AdministrationInv, AdministrationTyped
  <2>4. \A e \in Deployments : e # d => model'[e] = model[e]
    BY <1>6 DEF AdministrationInv, AdministrationTyped
  <2>5. ASSUME ~raced', NEW m \in Models, A!Exists(m) PROVE \E e \in Deployments : model'[e] = m
    <3>1. CASE m = old
      BY <1>6, <2>4, <3>1 DEF A!Of
    <3>2. CASE m # old
      BY <2>1, <2>4, <2>5, <3>2 DEF A!Exists, A!Of
    <3> QED  BY <3>1, <3>2
  <2>6. A!ChainsResolve'
    <3>1. \A p \in Models : chain[p] \subseteq Models
      BY DEF AdministrationInv, AdministrationTyped, Chains
    <3>2. ASSUME ~raced', NEW p \in Models, chain[p] # {}
          PROVE  (\E e \in Deployments : model'[e] = p) /\ \A t \in chain[p] : \E e \in Deployments : model'[e] = t
      BY <2>1, <2>5, <3>1, <3>2 DEF AdministrationInv, A!ChainsResolve
    <3>3. chain' = chain
      BY <1>1
    <3> QED  BY <3>2, <3>3 DEF A!ChainsResolve, A!Exists, A!Of
  <2> QED  BY <1>5, <2>2, <2>3, <2>6 DEF AdministrationInv
<1>7. CASE job' = [job EXCEPT ![j] = [job[j] EXCEPT !.op = "clean", !.chains = chain]] /\ UNCHANGED <<model, lock>>
  <2> DEFINE w == [job[j] EXCEPT !.op = "clean", !.chains = chain]
  <2>1. w \in Deletions /\ w.op = "clean" /\ w.was = old /\ w.d = d /\ job' = [job EXCEPT ![j] = w]
    BY <1>2, <1>7 DEF Deletions, AdministrationInv, AdministrationTyped
  <2> HIDE DEF w, d, old
  <2>2. Ordered(w)
    BY <2>1 DEF Ordered
  <2>3. Has(w) = Has(job[j])
    BY <1>1, <1>2, <2>1, DeletionParts DEF Has, old
  <2>4. LocksHeld'
    <3>1. \A m \in Models : lock'[m] = j <=> m \in Has(w)
      BY <1>7, <2>3 DEF AdministrationInv, LocksHeld
    <3> QED  BY <1>7, <2>1, <2>2, <3>1, LocksKept DEF AdministrationInv
  <2>5. job'[j] = w /\ \A k \in Jobs : k # j => job'[k] = job[k]
    BY <2>1 DEF AdministrationInv, AdministrationTyped
  <2>6. RowsLocked'
    <3>1. ASSUME NEW k \in Jobs, job'[k].op = "clean"
          PROVE  /\ ~raced' => model'[job'[k].d] = job'[k].was
                 /\ \A h \in Jobs : job'[h].op = "clean" /\ job'[h].d = job'[k].d => h = k
      <4>1. CASE k = j
        BY <1>1, <1>4, <1>7, <2>1, <2>5, <3>1, <4>1 DEF d, old
      <4>2. CASE k # j
        <5>1. job'[k] = job[k] /\ job[k].d # d
          BY <1>4, <2>5, <3>1, <4>2
        <5>2. job[k].op = "clean"
          BY <3>1, <5>1
        <5>3. ~raced' => model'[job'[k].d] = job'[k].was
          BY <1>1, <1>7, <5>1, <5>2 DEF AdministrationInv, RowsLocked
        <5>4. \A h \in Jobs : job'[h].op = "clean" /\ job'[h].d = job'[k].d => h # j /\ job[h].op = "clean" /\ job[h].d = job[k].d
          BY <2>1, <2>5, <5>1
        <5> QED  BY <5>2, <5>3, <5>4 DEF AdministrationInv, RowsLocked
      <4> QED  BY <4>1, <4>2
    <3> QED  BY <3>1 DEF RowsLocked
  <2>7. Renames'
    <3>1. \A k \in Jobs : job'[k].op = "write" => k # j /\ job'[k] = job[k]
      BY <2>1, <2>5
    <3>2. ~raced' => ~raced
      BY <1>1
    <3> QED  BY <1>1, <1>7, <3>1, <3>2 DEF AdministrationInv, Renames, A!Referenced, A!Of
  <2>8. A!ChainsResolve'
    BY <1>1, <1>7 DEF AdministrationInv, A!ChainsResolve, A!Exists, A!Of
  <2>9. AdministrationTyped'
    BY <1>1, <1>2, <1>7, <2>1 DEF AdministrationInv, AdministrationTyped
  <2> QED  BY <1>5, <2>4, <2>6, <2>7, <2>8, <2>9 DEF AdministrationInv
<1> QED  BY <1>1, <1>6, <1>7

LEMMA DeleteCleansKept ==
    ASSUME AdministrationInv, NEW j \in Jobs, A!DeleteCleans(j)
    PROVE  AdministrationInv'
<1> DEFINE d == job[j].d
           old == job[j].was
<1>1. /\ job[j].op = "clean" /\ model' = [model EXCEPT ![d] = None] /\ chain' = [p \in Models |-> A!Cleaned(j, p)]
      /\ raced' = (raced \/ chain # job[j].chains)
      /\ job' = [job EXCEPT ![j] = A!Idle] /\ lock' = A!Unlocked(j) /\ UNCHANGED <<rotation, made, envelope, secret>>
  BY DEF A!DeleteCleans, A!Ends, A!Goes
<1>2. job[j] \in Deletions /\ d \in Deployments /\ raced' \in BOOLEAN /\ job[j].chains \in Chains
  BY <1>1, WorkParts, DeletionParts DEF AdministrationInv, AdministrationTyped
<1>3. old \in Models /\ lock[old] = j
  BY <1>1, WriterHas
<1>4. \A k \in Jobs : k # j => ~(job[k].op = "clean" /\ job[k].d = d)
  BY <1>1 DEF AdministrationInv, RowsLocked
<1>5. Sealed'
  BY <1>1 DEF AdministrationInv, Sealed
<1>6. chain' \in Chains
  BY <1>1, <1>2 DEF A!Cleaned, Chains, AdministrationInv, AdministrationTyped
<1>7. ~raced' => /\ ~raced /\ model[d] = old /\ chain = job[j].chains
                 /\ \A p \in Models : chain'[p] = IF p = old THEN {} ELSE chain[p] \ {old}
  <2>1. ~raced' => ~raced /\ chain = job[j].chains /\ model[d] = old
    BY <1>1 DEF AdministrationInv, RowsLocked
  <2> QED  BY <1>1, <2>1 DEF A!Cleaned
<1> HIDE DEF d, old
<1>8. /\ LocksHeld' /\ RowsLocked' /\ Renames'
      /\ job' \in [Jobs -> {A!Idle} \cup Updates \cup Deletions \cup Upserts]
      /\ lock' \in [Models -> Jobs \cup {None}] /\ model' \in [Deployments -> Models \cup {None}]
  <2>1. ~raced' => ~raced /\ model[d] = old /\ \A p \in Models : chain'[p] \subseteq chain[p]
    BY <1>7
  <2> QED  BY <1>1, <1>2, <1>3, <1>4, <2>1, RowWritten
<1>9. AdministrationTyped'
  BY <1>1, <1>2, <1>6, <1>8 DEF AdministrationInv, AdministrationTyped
<1>10. A!ChainsResolve'
  <2>1. \A e \in Deployments : e # d => model'[e] = model[e]
    BY <1>1 DEF AdministrationInv, AdministrationTyped
  <2>2. ASSUME ~raced', NEW p \in Models, chain'[p] # {}
        PROVE  (\E e \in Deployments : model'[e] = p) /\ \A t \in chain'[p] : \E e \in Deployments : model'[e] = t
    <3>1. p # old /\ chain[p] # {} /\ chain'[p] = chain[p] \ {old} /\ ~raced /\ model[d] = old
      BY <1>7, <2>2
    <3>2. A!Exists(p) /\ \A t \in chain[p] : A!Exists(t)
      BY <3>1 DEF AdministrationInv, A!ChainsResolve
    <3> QED  BY <2>1, <3>1, <3>2 DEF A!Exists, A!Of
  <2> QED  BY <2>2 DEF A!ChainsResolve, A!Exists, A!Of
<1> QED  BY <1>5, <1>8, <1>9, <1>10 DEF AdministrationInv

LEMMA AdministrationStep == ASSUME AdministrationInv, A!Next PROVE AdministrationInv'
<1>1. \A j \in Jobs : A!Requested(j) => AdministrationInv'
  BY CreateKept, UpdateReadsKept, DeleteBeginsKept, FallbackChecksKept DEF A!Requested
<1>2. \A j \in Jobs : A!Works(j) => AdministrationInv'
  BY UpdateBeginsKept, LocksStep, UpdateChecksKept, UpdateWritesKept, DeleteRowKept, DeleteCleansKept, FallbackWritesKept DEF A!Works
<1> QED  BY <1>1, <1>2, FallbackDeletesKept, RotatesKept DEF A!Next

LEMMA AdministrationBegins == A!Init => AdministrationInv
<1> SUFFICES ASSUME A!Init PROVE AdministrationInv
  OBVIOUS
<1>0. \A j \in Jobs : job[j] = A!Idle /\ A!Idle.op = "idle"
  BY DEF A!Init, A!Idle
<1>1. AdministrationTyped
  <2>1. chain \in Chains
    BY DEF A!Init, Chains
  <2>2. model \in [Deployments -> Models \cup {None}]
    BY DEF A!Init
  <2>3. envelope \in [Deployments -> Envelopes] /\ secret \in [Deployments -> Nat]
    BY DEF A!Init, Envelopes
  <2>4. lock \in [Models -> Jobs \cup {None}] /\ job \in [Jobs -> {A!Idle} \cup Updates \cup Deletions \cup Upserts]
    BY DEF A!Init
  <2>5. rotation = A!Idle /\ made = 0 /\ raced = FALSE /\ MaxJobs \in Nat
    BY ConfigurationAssumption DEF A!Init
  <2>6. made \in 0..MaxJobs
    BY <2>5
  <2> QED  BY <2>1, <2>2, <2>3, <2>4, <2>5, <2>6 DEF AdministrationTyped
<1>2. LocksHeld
  BY <1>0, IdleHasNone, NamesApart DEF A!Init, LocksHeld
<1>3. RowsLocked /\ Renames
  BY <1>0 DEF RowsLocked, Renames
<1>4. A!ChainsResolve
  <2>1. \A p \in Models : chain[p] # {} => \A t \in chain[p] : \E d \in Deployments : model[d] = t
    BY DEF A!Init
  <2>2. \A p \in Models : chain[p] # {} => \E d \in Deployments : model[d] = p
    BY DEF A!Init
  <2> QED  BY <2>1, <2>2 DEF A!ChainsResolve, A!Exists, A!Of
<1>5. Sealed
  BY DEF A!Init, Sealed
<1> QED  BY <1>1, <1>2, <1>3, <1>4, <1>5 DEF AdministrationInv

-----------------------------------------------------------------------------
(* Caches: what is due is stored, and nothing older is cached or about to be. *)

Versions == 0..MaxChanges
Epochs == 0..2 * MaxChanges
Stages == {"getKey", "putKey", "open", "look", "hit", "settings", "putSettings", "route", "store"}
Begun == [at : Stages, r : Replicas, due : [key : Versions, settings : Versions, deployments : Versions],
          seen : Versions, key : Versions, epoch : Epochs, with : [settings : Versions, deployments : Versions]]
Invalidations == [at : {"commit", "invalidate", "advance"}, thing : C!Things, r : Replicas, version : Versions]
Dues == [key : Versions, settings : [Replicas -> Versions], deployments : Versions]

CachesTyped ==
    /\ stored \in [C!Things -> Versions] /\ cChanges \in Versions /\ epoch \in Epochs
    /\ cAdmin \in {C!Idle} \cup Invalidations /\ request \in [Requests -> {C!Idle} \cup Begun]
    /\ entries \in [Epochs -> Versions \cup {None}] /\ keyCache \in Versions \cup {None}
    /\ settings \in [Replicas -> Versions \cup {None}] /\ due \in Dues

\* A change is one version and at most two epochs.
Counted ==
    /\ \A t \in C!Things : stored[t] + (IF cAdmin.at = "commit" THEN 1 ELSE 0) <= cChanges
    /\ epoch + (IF cAdmin = C!Idle THEN 0 ELSE 1) <= 2 * cChanges

\* What is due was stored before, and what a request must see was due before.
Stored ==
    /\ cAdmin # C!Idle => cAdmin.version <= stored[cAdmin.thing]
    /\ due.key <= stored["key"] /\ due.deployments <= stored["deployments"]
    /\ \A r \in Replicas : due.settings[r] <= stored["settings"]
    /\ \A k \in Requests : request[k] # C!Idle =>
          /\ request[k].due.key <= due.key /\ request[k].due.deployments <= due.deployments
          /\ request[k].due.settings <= due.settings[request[k].r]
          /\ request[k].epoch <= epoch

\* What is cached, or read and about to be, is as new as is due.
KeyFresh ==
    /\ keyCache # None => keyCache >= due.key
    /\ \A k \in Requests : request[k].at = "putKey" => request[k].seen >= due.key
SettingsFresh ==
    /\ \A r \in Replicas : settings[r] # None => settings[r] >= due.settings[r]
    /\ \A k \in Requests : request[k].at = "putSettings" => request[k].seen >= due.settings[request[k].r]

\* Whatever is or will be stored under an epoch was made with these deployments or later ones.
Yields(e, v) ==
    /\ entries[e] # None => entries[e] >= v
    /\ \A k \in Requests : request[k].at = "store" /\ request[k].epoch = e => request[k].with.deployments >= v
EntriesFresh ==
    /\ \A e \in Epochs : e > epoch => entries[e] = None
    /\ Yields(epoch, due.deployments)
    /\ \A k \in Requests : request[k].at = "look" => Yields(request[k].epoch, request[k].due.deployments)

CachesInv == CachesTyped /\ Counted /\ Stored /\ KeyFresh /\ SettingsFresh /\ EntriesFresh /\ C!CachesKept

LEMMA CachesBegin == C!Init => CachesInv
<1> SUFFICES ASSUME C!Init PROVE CachesInv
  OBVIOUS
<1> USE ConfigurationAssumption DEF C!Init, C!Idle, C!Things, Versions, Epochs
<1>1. CachesTyped
  BY DEF CachesTyped, Dues
<1>2. Counted
  BY DEF Counted
<1>3. Stored
  BY DEF Stored
<1>4. KeyFresh /\ SettingsFresh
  BY DEF KeyFresh, SettingsFresh
<1>5. EntriesFresh
  BY DEF EntriesFresh, Yields
<1>6. C!CachesKept
  BY DEF C!CachesKept, C!HitsCurrent, C!KeyCurrent, C!SettingsCurrent
<1> QED  BY <1>1, <1>2, <1>3, <1>4, <1>5, <1>6 DEF CachesInv

\* A version or None, told apart.
LEMMA VersionsApart == MaxChanges \in Nat /\ None \notin Versions /\ Versions \subseteq Nat /\ Epochs \subseteq Nat
BY ConfigurationAssumption DEF Versions, Epochs

LEMMA ArrivesKept ==
    ASSUME CachesInv, NEW t \in C!Things, NEW r \in Replicas, C!Arrives(t, r)
    PROVE  CachesInv'
<1> USE VersionsApart DEF C!Arrives, C!Idle, C!Things, Versions, Epochs
<1>0. CachesTyped
  BY DEF CachesInv
<1>1. CachesTyped'
  BY <1>0 DEF CachesInv, CachesTyped, Counted, Invalidations, Begun, Dues, Stages
<1>2. Counted'
  BY <1>0 DEF CachesInv, CachesTyped, Counted, Invalidations
<1>3. Stored'
  BY <1>0, <1>1 DEF CachesInv, CachesTyped, Stored, Invalidations, Begun, Dues
<1>4. KeyFresh'
  BY <1>0, <1>1 DEF CachesInv, CachesTyped, KeyFresh, Stored, Begun, Dues, Invalidations
<1>5. SettingsFresh'
  BY <1>0, <1>1 DEF CachesInv, CachesTyped, SettingsFresh, Stored, Begun, Dues, Invalidations
<1>6. EntriesFresh'
  BY <1>0, <1>1 DEF CachesInv, CachesTyped, EntriesFresh, Yields, Stored, Begun, Dues, Invalidations
<1>7. C!CachesKept'
  BY <1>0, <1>1 DEF CachesInv, CachesTyped, C!CachesKept, C!HitsCurrent, C!KeyCurrent, C!SettingsCurrent, EntriesFresh, Yields, KeyFresh, SettingsFresh, Stored, Begun, Dues
<1> QED  BY <1>1, <1>2, <1>3, <1>4, <1>5, <1>6, <1>7 DEF CachesInv

LEMMA FailsKept ==
    ASSUME CachesInv, C!Fails
    PROVE  CachesInv'
<1> USE VersionsApart DEF C!Fails, C!Idle, C!Things, Versions, Epochs
<1>0. CachesTyped
  BY DEF CachesInv
<1>1. CachesTyped'
  BY <1>0 DEF CachesInv, CachesTyped, Counted, Invalidations, Begun, Dues, Stages
<1>2. Counted'
  BY <1>0 DEF CachesInv, CachesTyped, Counted, Invalidations
<1>3. Stored'
  BY <1>0, <1>1 DEF CachesInv, CachesTyped, Stored, Invalidations, Begun, Dues
<1>4. KeyFresh'
  BY <1>0, <1>1 DEF CachesInv, CachesTyped, KeyFresh, Stored, Begun, Dues, Invalidations
<1>5. SettingsFresh'
  BY <1>0, <1>1 DEF CachesInv, CachesTyped, SettingsFresh, Stored, Begun, Dues, Invalidations
<1>6. EntriesFresh'
  BY <1>0, <1>1 DEF CachesInv, CachesTyped, EntriesFresh, Yields, Stored, Begun, Dues, Invalidations
<1>7. C!CachesKept'
  BY <1>0, <1>1 DEF CachesInv, CachesTyped, C!CachesKept, C!HitsCurrent, C!KeyCurrent, C!SettingsCurrent, EntriesFresh, Yields, KeyFresh, SettingsFresh, Stored, Begun, Dues
<1> QED  BY <1>1, <1>2, <1>3, <1>4, <1>5, <1>6, <1>7 DEF CachesInv

\* The parts of what is typed.
LEMMA RequestParts ==
    ASSUME CachesTyped, NEW k \in Requests
    PROVE  /\ request[k] = C!Idle \/ request[k] \in Begun
           /\ request[k] # C!Idle => request[k] \in Begun
           /\ request[k].at # "idle" => request[k] \in Begun
           /\ request[k] \in Begun => request[k].at # "idle"
BY DEF CachesTyped, C!Idle, Begun, Stages

LEMMA BegunParts ==
    ASSUME NEW q \in Begun
    PROVE  /\ q.at \in Stages /\ q.r \in Replicas /\ {q.seen, q.key} \subseteq Versions /\ q.epoch \in Epochs
           /\ {q.due.key, q.due.settings, q.due.deployments, q.with.settings, q.with.deployments} \subseteq Versions
           /\ q # C!Idle
BY DEF Begun, C!Idle

LEMMA CacheParts ==
    ASSUME CachesTyped
    PROVE  /\ {stored["key"], stored["settings"], stored["deployments"], due.key, due.deployments} \subseteq Versions
           /\ \A r \in Replicas : due.settings[r] \in Versions /\ settings[r] \in Versions \cup {None}
           /\ keyCache \in Versions \cup {None} /\ epoch \in Epochs
           /\ \A e \in Epochs : entries[e] \in Versions \cup {None}
BY DEF CachesTyped, C!Things, Dues

\* A step of one request, which may also fill a cache.
Fits(q) ==
    /\ q \in {C!Idle} \cup Begun
    /\ q \in Begun =>
          /\ q.due.key <= due.key /\ q.due.deployments <= due.deployments /\ q.due.settings <= due.settings[q.r]
          /\ q.epoch <= epoch
          /\ q.at = "putKey" => q.seen >= due.key
          /\ q.at = "open" => q.key >= q.due.key
          /\ q.at = "putSettings" => q.seen >= due.settings[q.r]
          /\ q.at = "route" => q.with.settings >= q.due.settings
          /\ q.at = "look" => Yields(q.epoch, q.due.deployments)
          /\ q.at = "hit" => q.with.deployments >= q.due.deployments
          /\ q.at = "store" => q.with.deployments >= due.deployments
Fills ==
    /\ keyCache' \in Versions \cup {None} /\ (keyCache' # None => keyCache' >= due.key)
    /\ settings' \in [Replicas -> Versions \cup {None}]
    /\ \A r \in Replicas : settings'[r] # None => settings'[r] >= due.settings[r]
    /\ entries' \in [Epochs -> Versions \cup {None}] /\ (\A e \in Epochs : e > epoch => entries'[e] = None)
    /\ \A e \in Epochs : \A v \in Versions : Yields(e, v) /\ entries'[e] # None => entries'[e] >= v

LEMMA ServesKept ==
    ASSUME CachesInv, NEW k \in Requests, NEW q, Fits(q), request' = [request EXCEPT ![k] = q], Fills,
           UNCHANGED <<stored, epoch, cAdmin, cChanges, due>>
    PROVE  CachesInv'
<1>0. CachesTyped
  BY DEF CachesInv
<1>1. /\ request'[k] = q /\ \A l \in Requests : l # k => request'[l] = request[l]
      /\ CachesTyped'
  BY <1>0 DEF CachesTyped, Fits, Fills
<1>2. Counted'
  BY DEF CachesInv, Counted
<1>3. \A l \in Requests : request'[l] = C!Idle \/ request'[l] \in Begun
  BY <1>1 DEF CachesTyped
<1>4. q # C!Idle => q \in Begun
  BY DEF Fits
<1>5. C!Idle.at = "idle" /\ (q = C!Idle => q.at = "idle")
  BY DEF C!Idle
<1>6. Stored'
  BY <1>1, <1>4 DEF CachesInv, Stored, Fits
<1>7. KeyFresh' /\ SettingsFresh'
  BY <1>1, <1>4, <1>5 DEF CachesInv, KeyFresh, SettingsFresh, Fits, Fills
<1>8. ASSUME NEW e \in Epochs, NEW v \in Versions, v <= due.deployments, Yields(e, v)
      PROVE  /\ entries'[e] # None => entries'[e] >= v
             /\ \A l \in Requests : request'[l].at = "store" /\ request'[l].epoch = e => request'[l].with.deployments >= v
  <2>1. entries'[e] # None => entries'[e] >= v
    BY <1>8 DEF Fills
  <2>2. q.at = "store" => q.with.deployments >= v
    <3>1. CASE q \in Begun
      BY <1>0, <1>8, <3>1, BegunParts, CacheParts, VersionsApart DEF Fits, Versions
    <3> QED  BY <1>4, <1>5, <3>1
  <2> QED  BY <1>1, <1>8, <2>1, <2>2 DEF Yields
<1>9. EntriesFresh'
  <2>1. \A e \in Epochs : e > epoch' => entries'[e] = None
    BY DEF Fills
  <2>2. /\ entries'[epoch] # None => entries'[epoch] >= due.deployments
        /\ \A l \in Requests : request'[l].at = "store" /\ request'[l].epoch = epoch => request'[l].with.deployments >= due.deployments
    <3>1. epoch \in Epochs /\ due.deployments \in Versions /\ due.deployments <= due.deployments
      BY <1>0, CacheParts, VersionsApart DEF Versions
    <3> QED  BY <1>8, <3>1 DEF CachesInv, EntriesFresh
  <2>3. ASSUME NEW l \in Requests, request'[l].at = "look"
        PROVE  /\ entries'[request'[l].epoch] # None => entries'[request'[l].epoch] >= request'[l].due.deployments
               /\ \A h \in Requests : request'[h].at = "store" /\ request'[h].epoch = request'[l].epoch =>
                     request'[h].with.deployments >= request'[l].due.deployments
    <3> DEFINE e == request'[l].epoch
               v == request'[l].due.deployments
    <3>1. e \in Epochs /\ v \in Versions /\ Yields(e, v) /\ v <= due.deployments
      <4>1. CASE l = k
        <5>1. request'[l] = q /\ q \in Begun /\ q.at = "look"
          BY <1>1, <1>4, <1>5, <2>3, <4>1
        <5>2. Yields(q.epoch, q.due.deployments) /\ q.due.deployments <= due.deployments
          BY <5>1 DEF Fits
        <5> QED  BY <5>1, <5>2, BegunParts
      <4>2. CASE l # k
        <5>1. request'[l] = request[l] /\ request[l] # C!Idle /\ request[l] \in Begun
          BY <1>0, <1>1, <1>5, <2>3, <4>2, RequestParts
        <5>2. Yields(request[l].epoch, request[l].due.deployments) /\ request[l].due.deployments <= due.deployments
          BY <2>3, <5>1 DEF CachesInv, EntriesFresh, Stored
        <5> QED  BY <5>1, <5>2, BegunParts
      <4> QED  BY <4>1, <4>2
    <3> HIDE DEF e, v
    <3>2. /\ entries'[e] # None => entries'[e] >= v
          /\ \A h \in Requests : request'[h].at = "store" /\ request'[h].epoch = e => request'[h].with.deployments >= v
      BY <1>8, <3>1
    <3> QED  BY <3>2 DEF e, v
  <2> QED  BY <2>1, <2>2, <2>3 DEF EntriesFresh, Yields
<1>10. C!CachesKept'
  BY <1>1, <1>4, <1>5 DEF CachesInv, C!CachesKept, C!HitsCurrent, C!KeyCurrent, C!SettingsCurrent, Fits
<1> QED  BY <1>1, <1>2, <1>6, <1>7, <1>9, <1>10 DEF CachesInv

\* What the caches hold fits, and stays as it is.
LEMMA FillsNothing ==
    ASSUME CachesInv, UNCHANGED <<keyCache, settings, entries>>
    PROVE  Fills
BY CacheParts, VersionsApart DEF CachesInv, CachesTyped, KeyFresh, SettingsFresh, EntriesFresh, Yields, Fills

\* What a request that has come so far carries.
LEMMA Carries ==
    ASSUME CachesInv, NEW k \in Requests, request[k].at \in Stages
    PROVE  /\ request[k] \in Begun /\ request[k].at \in Stages /\ request[k].r \in Replicas
           /\ {request[k].seen, request[k].key, request[k].due.key, request[k].due.settings, request[k].due.deployments,
               request[k].with.settings, request[k].with.deployments} \subseteq Versions
           /\ request[k].epoch \in Epochs
           /\ request[k].due \in [key : Versions, settings : Versions, deployments : Versions]
           /\ request[k].with \in [settings : Versions, deployments : Versions]
           /\ request[k].due.key <= due.key /\ request[k].due.deployments <= due.deployments
           /\ request[k].due.settings <= due.settings[request[k].r] /\ request[k].epoch <= epoch
<1>1. request[k] \in Begun /\ request[k] # C!Idle
  BY RequestParts DEF CachesInv, Stages, C!Idle
<1> QED  BY <1>1 DEF CachesInv, Stored, Begun

\* The records a request goes through.
LEMMA BegunOpens ==
    ASSUME NEW b \in Begun, NEW e \in Epochs
    PROVE  LET q == [b EXCEPT !.epoch = e, !.at = "look", !.key = 0, !.due.key = 0]
           IN  /\ q \in Begun /\ q.at = "look" /\ q.epoch = e /\ q.r = b.r /\ q.due.key = 0 /\ q.due.settings = b.due.settings
               /\ q.due.deployments = b.due.deployments
<1>1. [b.due EXCEPT !.key = 0] = [key |-> 0, settings |-> b.due.settings, deployments |-> b.due.deployments]
  BY DEF Begun
<1>2. 0 \in Versions
  BY VersionsApart DEF Versions
<1> QED  BY <1>1, <1>2 DEF Begun, Stages

LEMMA BegunMisses ==
    ASSUME NEW b \in Begun
    PROVE  LET q == [b EXCEPT !.at = "settings", !.due.deployments = 0]
           IN  /\ q \in Begun /\ q.at = "settings" /\ q.epoch = b.epoch /\ q.r = b.r /\ q.due.key = b.due.key
               /\ q.due.settings = b.due.settings /\ q.due.deployments = 0
<1>1. [b.due EXCEPT !.deployments = 0] = [key |-> b.due.key, settings |-> b.due.settings, deployments |-> 0]
  BY DEF Begun
<1>2. 0 \in Versions
  BY VersionsApart DEF Versions
<1> QED  BY <1>1, <1>2 DEF Begun, Stages

LEMMA BegunSettles ==
    ASSUME NEW b \in Begun
    PROVE  LET q == [b EXCEPT !.with.settings = b.seen, !.seen = 0, !.at = "route"]
           IN  q \in Begun /\ q.at = "route" /\ q.epoch = b.epoch /\ q.r = b.r /\ q.due = b.due /\ q.with.settings = b.seen
<1>1. [b.with EXCEPT !.settings = b.seen] = [settings |-> b.seen, deployments |-> b.with.deployments]
  BY DEF Begun
<1>2. 0 \in Versions
  BY VersionsApart DEF Versions
<1> QED  BY <1>1, <1>2 DEF Begun, Stages

LEMMA BegunRoutes ==
    ASSUME NEW b \in Begun, NEW v \in Versions
    PROVE  LET q == [b EXCEPT !.with = [settings |-> 0, deployments |-> v], !.due.settings = 0, !.at = "store"]
           IN  /\ q \in Begun /\ q.at = "store" /\ q.epoch = b.epoch /\ q.r = b.r /\ q.due.key = b.due.key /\ q.due.settings = 0
               /\ q.due.deployments = b.due.deployments /\ q.with.deployments = v
<1>1. [b.due EXCEPT !.settings = 0] = [key |-> b.due.key, settings |-> 0, deployments |-> b.due.deployments]
  BY DEF Begun
<1>2. 0 \in Versions
  BY VersionsApart DEF Versions
<1> QED  BY <1>1, <1>2 DEF Begun, Stages

LEMMA BeginsKept ==
    ASSUME CachesInv, NEW k \in Requests, NEW r \in Replicas, C!Begins(k, r)
    PROVE  CachesInv'
<1> DEFINE q == [at |-> "getKey", r |-> r, due |-> [due EXCEPT !.settings = due.settings[r]],
                 seen |-> 0, key |-> 0, epoch |-> 0, with |-> [settings |-> 0, deployments |-> 0]]
<1>1. request' = [request EXCEPT ![k] = q] /\ UNCHANGED <<stored, epoch, entries, keyCache, settings, cAdmin, cChanges, due>>
  BY DEF C!Begins, C!Goes
<1>2. q.due = [key |-> due.key, settings |-> due.settings[r], deployments |-> due.deployments]
  BY DEF CachesInv, CachesTyped, Dues
<1>3. q \in Begun
  BY <1>2, CacheParts, VersionsApart DEF CachesInv, Begun, Stages, Versions, Epochs
<1>4. q.due.key = due.key /\ q.due.settings = due.settings[r] /\ q.due.deployments = due.deployments /\ q.r = r /\ q.epoch = 0 /\ q.at = "getKey"
  BY <1>2
<1> HIDE DEF q
<1>5. Fits(q)
  BY <1>3, <1>4, CacheParts, VersionsApart DEF CachesInv, Fits, Versions, Epochs
<1> QED  BY <1>1, <1>5, FillsNothing, ServesKept

LEMMA GetsKeyKept ==
    ASSUME CachesInv, NEW k \in Requests, C!GetsKey(k)
    PROVE  CachesInv'
<1> DEFINE q == IF keyCache # None THEN [request[k] EXCEPT !.key = keyCache, !.at = "open"]
                ELSE [request[k] EXCEPT !.seen = stored["key"], !.at = "putKey"]
<1>1. request' = [request EXCEPT ![k] = q] /\ UNCHANGED <<stored, epoch, entries, keyCache, settings, cAdmin, cChanges, due>>
      /\ request[k].at \in Stages
  BY DEF C!GetsKey, C!Goes, Stages
<1>2. stored["key"] >= due.key /\ stored["key"] \in Versions /\ keyCache \in Versions \cup {None} /\ (keyCache # None => keyCache >= due.key)
  BY <1>1, CacheParts, VersionsApart DEF CachesInv, Stored, KeyFresh, Versions
<1>3. /\ q \in Begun /\ q.epoch = request[k].epoch /\ q.r = request[k].r /\ q.due = request[k].due
      /\ \/ q.at = "open" /\ q.key \in Versions /\ q.key >= due.key
         \/ q.at = "putKey" /\ q.seen \in Versions /\ q.seen >= due.key
  <2>1. CASE keyCache # None
    BY <1>1, <1>2, <2>1, Carries DEF Begun, Stages
  <2>2. CASE keyCache = None
    BY <1>1, <1>2, <2>2, Carries DEF Begun, Stages
  <2> QED  BY <2>1, <2>2
<1> HIDE DEF q
<1>4. Fits(q)
  BY <1>1, <1>3, Carries, CacheParts, VersionsApart DEF CachesInv, Fits, Versions
<1> QED  BY <1>1, <1>4, FillsNothing, ServesKept

LEMMA PutsKeyKept ==
    ASSUME CachesInv, NEW k \in Requests, C!PutsKey(k)
    PROVE  CachesInv'
<1> DEFINE q == [request[k] EXCEPT !.key = request[k].seen, !.seen = 0, !.at = "open"]
<1>1. request' = [request EXCEPT ![k] = q] /\ keyCache' = request[k].seen /\ UNCHANGED <<stored, epoch, entries, settings, cAdmin, cChanges, due>>
      /\ request[k].at \in Stages /\ request[k].at = "putKey"
  BY DEF C!PutsKey, C!Goes, Stages
<1>a. request[k].seen \in Versions /\ request[k].seen >= due.key /\ request[k] \in Begun /\ 0 \in Versions
  BY <1>1, Carries, VersionsApart DEF CachesInv, KeyFresh, Versions
<1>b. q \in Begun /\ q.epoch = request[k].epoch /\ q.r = request[k].r /\ q.due = request[k].due /\ q.at = "open" /\ q.key = request[k].seen
  BY <1>a DEF Begun, Stages
<1> HIDE DEF q
<1>2. Fits(q)
  BY <1>1, <1>a, <1>b, Carries, CacheParts, VersionsApart DEF CachesInv, Fits, Versions
<1>3. Fills
  BY <1>1, Carries, CacheParts, VersionsApart DEF CachesInv, CachesTyped, KeyFresh, SettingsFresh, EntriesFresh, Yields, Fills
<1> QED  BY <1>1, <1>2, <1>3, ServesKept

LEMMA OpensKept ==
    ASSUME CachesInv, NEW k \in Requests, C!Opens(k)
    PROVE  CachesInv'
<1> DEFINE q == [request[k] EXCEPT !.epoch = epoch, !.at = "look", !.key = 0, !.due.key = 0]
<1>1. request' = [request EXCEPT ![k] = q] /\ UNCHANGED <<stored, epoch, entries, keyCache, settings, cAdmin, cChanges, due>>
      /\ request[k].at \in Stages
  BY DEF C!Opens, C!Goes, Stages
<1>a. request[k] \in Begun /\ epoch \in Epochs /\ 0 \in Versions
  BY <1>1, Carries, CacheParts, VersionsApart DEF CachesInv, Versions
<1>2. q \in Begun /\ q.at = "look" /\ q.epoch = epoch /\ q.r = request[k].r /\ q.due.key = 0 /\ q.due.settings = request[k].due.settings
      /\ q.due.deployments = request[k].due.deployments
  BY <1>a, BegunOpens
<1> HIDE DEF q
<1>3. Yields(q.epoch, q.due.deployments)
  <2>1. Yields(epoch, due.deployments) /\ request[k].due.deployments <= due.deployments
    BY <1>1, Carries DEF CachesInv, EntriesFresh
  <2>2. \A l \in Requests : request[l].at = "store" => request[l].with.deployments \in Versions
    BY Carries DEF Stages
  <2>3. request[k].due.deployments \in Versions /\ due.deployments \in Versions /\ entries[epoch] \in Versions \cup {None}
    BY <1>1, Carries, CacheParts DEF CachesInv
  <2>4. Yields(epoch, request[k].due.deployments)
    BY <2>1, <2>2, <2>3, VersionsApart DEF Yields, Versions
  <2> QED  BY <1>2, <2>4
<1>4. Fits(q)
  BY <1>1, <1>2, <1>3, Carries, CacheParts, VersionsApart DEF CachesInv, Fits, Versions, Epochs
<1> QED  BY <1>1, <1>4, FillsNothing, ServesKept

LEMMA LooksKept ==
    ASSUME CachesInv, NEW k \in Requests, C!Looks(k)
    PROVE  CachesInv'
<1> DEFINE entry == entries[request[k].epoch]
           q == IF entry # None THEN [request[k] EXCEPT !.with.deployments = entry, !.at = "hit"]
                ELSE [request[k] EXCEPT !.at = "settings", !.due.deployments = 0]
<1>1. request' = [request EXCEPT ![k] = q] /\ UNCHANGED <<stored, epoch, entries, keyCache, settings, cAdmin, cChanges, due>>
      /\ request[k].at \in Stages /\ request[k].at = "look"
  BY DEF C!Looks, C!Goes, Stages
<1>2. entry # None => entry \in Versions /\ entry >= request[k].due.deployments
  BY <1>1, Carries, CacheParts DEF CachesInv, EntriesFresh, Yields
<1>3. CASE entry # None
  <2> HIDE DEF entry
  <2>1. q \in Begun /\ q.at = "hit" /\ q.epoch = request[k].epoch /\ q.r = request[k].r /\ q.due = request[k].due /\ q.with.deployments = entry
    BY <1>1, <1>2, <1>3, Carries DEF Begun, Stages
  <2> HIDE DEF q
  <2>2. Fits(q)
    BY <1>1, <1>2, <1>3, <2>1, Carries DEF Fits
  <2> QED  BY <1>1, <2>2, FillsNothing, ServesKept
<1>4. CASE entry = None
  <2>1. q \in Begun /\ q.at = "settings" /\ q.epoch = request[k].epoch /\ q.r = request[k].r
        /\ q.due.key = request[k].due.key /\ q.due.settings = request[k].due.settings /\ q.due.deployments = 0
    <3>1. request[k] \in Begun /\ q = [request[k] EXCEPT !.at = "settings", !.due.deployments = 0]
      BY <1>1, <1>4, Carries
    <3> HIDE DEF q
    <3> QED  BY <3>1, BegunMisses
  <2> HIDE DEF q, entry
  <2>2. Fits(q)
    BY <1>1, <2>1, Carries, CacheParts, VersionsApart DEF CachesInv, Fits, Versions
  <2> QED  BY <1>1, <2>2, FillsNothing, ServesKept
<1> QED  BY <1>3, <1>4

LEMMA GetsSettingsKept ==
    ASSUME CachesInv, NEW k \in Requests, C!GetsSettings(k)
    PROVE  CachesInv'
<1> DEFINE held == settings[request[k].r]
           q == IF held # None THEN [request[k] EXCEPT !.with.settings = held, !.at = "route"]
                ELSE [request[k] EXCEPT !.seen = stored["settings"], !.at = "putSettings"]
<1>1. request' = [request EXCEPT ![k] = q] /\ UNCHANGED <<stored, epoch, entries, keyCache, settings, cAdmin, cChanges, due>>
      /\ request[k].at \in Stages
  BY DEF C!GetsSettings, C!Goes, Stages
<1>2. held # None => held \in Versions /\ held >= due.settings[request[k].r]
  BY <1>1, Carries, CacheParts DEF CachesInv, SettingsFresh
<1>3. stored["settings"] >= due.settings[request[k].r] /\ stored["settings"] \in Versions
  BY <1>1, Carries, CacheParts, VersionsApart DEF CachesInv, Stored, Versions
<1>4. CASE held # None
  <2> HIDE DEF held
  <2>1. q \in Begun /\ q.at = "route" /\ q.epoch = request[k].epoch /\ q.r = request[k].r /\ q.due = request[k].due /\ q.with.settings = held
    BY <1>1, <1>2, <1>4, Carries DEF Begun, Stages
  <2> HIDE DEF q
  <2>2. Fits(q)
    BY <1>1, <1>2, <1>4, <2>1, Carries, CacheParts, VersionsApart DEF CachesInv, Fits, Versions
  <2> QED  BY <1>1, <2>2, FillsNothing, ServesKept
<1>5. CASE held = None
  <2>1. q \in Begun /\ q.at = "putSettings" /\ q.epoch = request[k].epoch /\ q.r = request[k].r /\ q.due = request[k].due
        /\ q.seen = stored["settings"]
    BY <1>1, <1>3, <1>5, Carries DEF Begun, Stages
  <2> HIDE DEF q, held
  <2>2. Fits(q)
    BY <1>1, <1>3, <2>1, Carries DEF Fits
  <2> QED  BY <1>1, <2>2, FillsNothing, ServesKept
<1> QED  BY <1>4, <1>5

LEMMA PutsSettingsKept ==
    ASSUME CachesInv, NEW k \in Requests, C!PutsSettings(k)
    PROVE  CachesInv'
<1> DEFINE q == [request[k] EXCEPT !.with.settings = request[k].seen, !.seen = 0, !.at = "route"]
<1>1. request' = [request EXCEPT ![k] = q] /\ settings' = [settings EXCEPT ![request[k].r] = request[k].seen]
      /\ UNCHANGED <<stored, epoch, entries, keyCache, cAdmin, cChanges, due>>
      /\ request[k].at \in Stages /\ request[k].at = "putSettings"
  BY DEF C!PutsSettings, C!Goes, Stages
<1>2. request[k].seen \in Versions /\ request[k].seen >= due.settings[request[k].r] /\ request[k].r \in Replicas
  BY <1>1, Carries DEF CachesInv, SettingsFresh
<1>3. q \in Begun /\ q.at = "route" /\ q.epoch = request[k].epoch /\ q.r = request[k].r /\ q.due = request[k].due
      /\ q.with.settings = request[k].seen
  <2>1. request[k] \in Begun
    BY <1>1, Carries
  <2> QED  BY <1>2, <2>1, BegunSettles
<1> HIDE DEF q
<1>4. Fits(q)
  BY <1>1, <1>2, <1>3, Carries, CacheParts, VersionsApart DEF CachesInv, Fits, Versions
<1>5. Fills
  <2>1. settings' \in [Replicas -> Versions \cup {None}] /\ \A r \in Replicas : settings'[r] # None => settings'[r] >= due.settings[r]
    BY <1>1, <1>2 DEF CachesInv, CachesTyped, SettingsFresh
  <2> QED  BY <1>1, <2>1 DEF CachesInv, CachesTyped, KeyFresh, EntriesFresh, Yields, Fills
<1> QED  BY <1>1, <1>4, <1>5, ServesKept

LEMMA RoutesKept ==
    ASSUME CachesInv, NEW k \in Requests, C!Routes(k)
    PROVE  CachesInv'
<1> DEFINE q == [request[k] EXCEPT !.with = [settings |-> 0, deployments |-> stored["deployments"]],
                                   !.due.settings = 0, !.at = "store"]
<1>1. request' = [request EXCEPT ![k] = q] /\ UNCHANGED <<stored, epoch, entries, keyCache, settings, cAdmin, cChanges, due>>
      /\ request[k].at \in Stages
  BY DEF C!Routes, C!Goes, Stages
<1>2. q \in Begun /\ q.at = "store" /\ q.epoch = request[k].epoch /\ q.r = request[k].r
      /\ q.due.key = request[k].due.key /\ q.due.settings = 0 /\ q.due.deployments = request[k].due.deployments
      /\ q.with.deployments = stored["deployments"]
  <2>1. request[k] \in Begun /\ stored["deployments"] \in Versions
    BY <1>1, Carries, CacheParts DEF CachesInv
  <2> QED  BY <2>1, BegunRoutes
<1> HIDE DEF q
<1>3. Fits(q)
  BY <1>1, <1>2, Carries, CacheParts, VersionsApart DEF CachesInv, Fits, Stored, Versions
<1> QED  BY <1>1, <1>3, FillsNothing, ServesKept

LEMMA LeavesKept ==
    ASSUME CachesInv, NEW k \in Requests, C!Leaves(k)
    PROVE  CachesInv'
<1>1. request' = [request EXCEPT ![k] = C!Idle] /\ UNCHANGED <<stored, epoch, entries, keyCache, settings, cAdmin, cChanges, due>>
  BY DEF C!Leaves, C!Goes
<1>2. Fits(C!Idle)
  BY BegunParts DEF Fits
<1> QED  BY <1>1, <1>2, FillsNothing, ServesKept

LEMMA StoresKept ==
    ASSUME CachesInv, NEW k \in Requests, C!Stores(k)
    PROVE  CachesInv'
<1>1. request' = [request EXCEPT ![k] = C!Idle] /\ UNCHANGED <<stored, epoch, keyCache, settings, cAdmin, cChanges, due>>
      /\ entries' = [entries EXCEPT ![request[k].epoch] = request[k].with.deployments]
      /\ request[k].at \in Stages /\ request[k].at = "store"
  BY DEF C!Stores, C!Goes, Stages
<1>2. Fits(C!Idle)
  BY BegunParts DEF Fits
<1>3. request[k].with.deployments \in Versions /\ request[k].epoch \in Epochs /\ request[k].epoch <= epoch
  BY <1>1, Carries
<1>4. Fills
  <2>1. entries' \in [Epochs -> Versions \cup {None}]
    BY <1>1, <1>3 DEF CachesInv, CachesTyped
  <2>2. \A e \in Epochs : e > epoch => entries'[e] = None
    BY <1>1, <1>3, VersionsApart, CacheParts DEF CachesInv, CachesTyped, EntriesFresh, Epochs
  <2>3. \A e \in Epochs : \A v \in Versions : Yields(e, v) /\ entries'[e] # None => entries'[e] >= v
    BY <1>1, <1>3 DEF CachesInv, CachesTyped, Yields
  <2> QED  BY <1>1, <2>1, <2>2, <2>3 DEF CachesInv, CachesTyped, KeyFresh, SettingsFresh, Fills
<1> QED  BY <1>1, <1>2, <1>4, ServesKept

LEMMA ExpiresKept ==
    ASSUME CachesInv, C!ExpireKey \/ (\E r \in Replicas : C!ExpireSettings(r)) \/ (\E e \in Epochs : C!ExpireEntry(e))
    PROVE  CachesInv'
<1>0. /\ UNCHANGED <<stored, epoch, cAdmin, request, cChanges, due>>
      /\ keyCache' = keyCache \/ keyCache' = None
      /\ settings' = settings \/ \E r \in Replicas : settings' = [settings EXCEPT ![r] = None]
      /\ entries' = entries \/ \E e \in Epochs : entries' = [entries EXCEPT ![e] = None]
  BY DEF C!ExpireKey, C!ExpireSettings, C!SettingsExpire, C!ExpireEntry
<1>1. CachesTyped'
  BY <1>0 DEF CachesInv, CachesTyped
<1>2. \A e \in Epochs : entries'[e] = entries[e] \/ entries'[e] = None
  BY <1>0 DEF CachesInv, CachesTyped
<1>3. \A r \in Replicas : settings'[r] = settings[r] \/ settings'[r] = None
  BY <1>0 DEF CachesInv, CachesTyped
<1>4. Counted' /\ Stored'
  BY <1>0 DEF CachesInv, Counted, Stored
<1>5. KeyFresh' /\ SettingsFresh'
  BY <1>0, <1>3 DEF CachesInv, KeyFresh, SettingsFresh
<1>6. EntriesFresh'
  <2>1. epoch \in Epochs /\ \A k \in Requests : request[k].at = "look" => request[k].epoch \in Epochs
    BY CacheParts, Carries DEF CachesInv, Stages
  <2> QED  BY <1>0, <1>2, <2>1 DEF CachesInv, EntriesFresh, Yields
<1>7. C!CachesKept'
  BY <1>0 DEF CachesInv, C!CachesKept, C!HitsCurrent, C!KeyCurrent, C!SettingsCurrent
<1> QED  BY <1>1, <1>4, <1>5, <1>6, <1>7 DEF CachesInv

\* A mutation in progress.
LEMMA Mutating ==
    ASSUME CachesInv, cAdmin.at \in {"commit", "invalidate", "advance"}
    PROVE  /\ cAdmin \in Invalidations /\ cAdmin # C!Idle /\ cAdmin.thing \in C!Things /\ cAdmin.r \in Replicas /\ cAdmin.version \in Versions
           /\ cAdmin.version <= stored[cAdmin.thing] /\ stored[cAdmin.thing] \in Versions
<1>1. cAdmin \in Invalidations /\ cAdmin # C!Idle
  BY DEF CachesInv, CachesTyped, C!Idle
<1> QED  BY <1>1 DEF CachesInv, CachesTyped, Stored, Invalidations

LEMMA CommitsKept ==
    ASSUME CachesInv, C!Commits
    PROVE  CachesInv'
<1> DEFINE t == cAdmin.thing
<1>0. /\ stored' = [stored EXCEPT ![t] = @ + 1] /\ cAdmin' = [cAdmin EXCEPT !.at = "invalidate", !.version = stored'[t]]
      /\ UNCHANGED <<epoch, entries, keyCache, settings, request, cChanges, due>> /\ cAdmin.at = "commit"
  BY DEF C!Commits
<1>1. cAdmin \in Invalidations /\ cAdmin # C!Idle /\ t \in C!Things /\ stored[t] \in Versions /\ stored[t] + 1 \in Versions
  <2>1. stored[t] + 1 <= cChanges /\ cChanges \in Versions
    BY <1>0, Mutating DEF CachesInv, Counted, CachesTyped
  <2> QED  BY <1>0, <2>1, Mutating, VersionsApart DEF Versions
<1> HIDE DEF t
<1>2. stored' \in [C!Things -> Versions] /\ stored'[t] = stored[t] + 1 /\ \A o \in C!Things : o # t => stored'[o] = stored[o]
  BY <1>0, <1>1 DEF CachesInv, CachesTyped
<1>3. cAdmin' \in Invalidations /\ cAdmin'.version = stored'[cAdmin'.thing] /\ cAdmin'.at = "invalidate" /\ cAdmin' # C!Idle
  BY <1>0, <1>1, <1>2 DEF Invalidations, C!Idle, t
<1>4. CachesTyped'
  BY <1>0, <1>2, <1>3 DEF CachesInv, CachesTyped
<1>5. \A o \in C!Things : stored'[o] \in Nat /\ stored[o] \in Nat /\ stored'[o] >= stored[o] /\ stored'[o] <= cChanges
  BY <1>0, <1>1, <1>2, VersionsApart DEF CachesInv, CachesTyped, Counted, Versions
<1>6. Counted'
  BY <1>0, <1>1, <1>3, <1>5, VersionsApart DEF CachesInv, Counted, CachesTyped, Versions
<1>7. Stored'
  <2>1. cAdmin'.version <= stored'[cAdmin'.thing]
    BY <1>2, <1>3, VersionsApart DEF Invalidations, Versions
  <2>2. "key" \in C!Things /\ "settings" \in C!Things /\ "deployments" \in C!Things
    BY DEF C!Things
  <2>3. due.key <= stored'["key"] /\ due.deployments <= stored'["deployments"] /\ \A r \in Replicas : due.settings[r] <= stored'["settings"]
    BY <1>5, <2>2, CacheParts, VersionsApart DEF CachesInv, Stored, Versions
  <2> QED  BY <1>0, <2>1, <2>3 DEF CachesInv, Stored
<1>8. KeyFresh' /\ SettingsFresh' /\ EntriesFresh'
  BY <1>0 DEF CachesInv, KeyFresh, SettingsFresh, EntriesFresh, Yields
<1>9. C!CachesKept'
  BY <1>0 DEF CachesInv, C!CachesKept, C!HitsCurrent, C!KeyCurrent, C!SettingsCurrent
<1> QED  BY <1>4, <1>6, <1>7, <1>8, <1>9 DEF CachesInv

LEMMA CompletesKept ==
    ASSUME CachesInv, C!Completes
    PROVE  CachesInv'
<1>0. /\ epoch' = epoch + 1 /\ cAdmin' = C!Idle
      /\ UNCHANGED <<stored, entries, keyCache, settings, request, cChanges>> /\ cAdmin.at = "advance"
      /\ due' = IF cAdmin.thing = "deployments" THEN [due EXCEPT !.deployments = C!Larger(@, cAdmin.version)] ELSE due
  BY DEF C!Completes, C!EpochAfter
<1>1. cAdmin # C!Idle /\ cAdmin.version \in Versions /\ cAdmin.version <= stored[cAdmin.thing]
  BY <1>0, Mutating
<1>2. epoch' \in Epochs /\ epoch' <= 2 * cChanges /\ epoch < epoch' /\ epoch \in Nat
  BY <1>0, <1>1, VersionsApart, CacheParts DEF CachesInv, CachesTyped, Counted, Epochs, Versions
<1>3. /\ due' \in Dues /\ due'.key = due.key /\ due'.settings = due.settings
      /\ due'.deployments \in Versions /\ due'.deployments >= due.deployments /\ due'.deployments <= stored["deployments"]
  <2>1. due \in Dues
    BY DEF CachesInv, CachesTyped
  <2>2. C!Larger(due.deployments, cAdmin.version) \in Versions /\ C!Larger(due.deployments, cAdmin.version) >= due.deployments
    BY <1>1, <2>1, VersionsApart DEF C!Larger, Dues, Versions
  <2>3. cAdmin.thing = "deployments" => C!Larger(due.deployments, cAdmin.version) <= stored["deployments"]
    BY <1>1 DEF C!Larger, CachesInv, Stored
  <2> QED  BY <1>0, <2>1, <2>2, <2>3, CacheParts, VersionsApart DEF CachesInv, Dues, Stored, Versions
<1>4. CachesTyped'
  BY <1>0, <1>2, <1>3 DEF CachesInv, CachesTyped
<1>5. Counted'
  BY <1>0, <1>1, <1>2, VersionsApart DEF CachesInv, CachesTyped, Counted, C!Idle, Versions
<1>6. \A k \in Requests : request[k] # C!Idle => request[k].epoch <= epoch /\ request[k].epoch < epoch' /\ request[k].epoch \in Epochs
             /\ request[k].due.deployments <= due'.deployments
  <2> SUFFICES ASSUME NEW k \in Requests, request[k] # C!Idle
               PROVE  request[k].epoch <= epoch /\ request[k].epoch < epoch' /\ request[k].epoch \in Epochs
                      /\ request[k].due.deployments <= due'.deployments
    OBVIOUS
  <2>1. request[k].at \in Stages
    BY RequestParts, BegunParts DEF CachesInv
  <2> QED  BY <2>1, <1>2, <1>3, Carries, CacheParts, VersionsApart DEF CachesInv, Epochs, Versions
<1>7. Stored'
  BY <1>0, <1>3, <1>6, <1>2 DEF CachesInv, Stored, Epochs
<1>8. KeyFresh' /\ SettingsFresh'
  BY <1>0, <1>3 DEF CachesInv, KeyFresh, SettingsFresh
<1>9. EntriesFresh'
  <2>1. \A e \in Epochs : e > epoch' => entries'[e] = None
    BY <1>0, <1>2, VersionsApart DEF CachesInv, EntriesFresh
  <2>2. entries'[epoch'] = None
    BY <1>0, <1>2, VersionsApart DEF CachesInv, EntriesFresh
  <2>3. \A k \in Requests : request[k].at = "store" => request[k].epoch # epoch'
    BY <1>0, <1>2, <1>6, VersionsApart DEF C!Idle
  <2>4. \A k \in Requests : request[k].at = "look" => Yields(request[k].epoch, request[k].due.deployments)
    BY DEF CachesInv, EntriesFresh
  <2> QED  BY <1>0, <2>1, <2>2, <2>3, <2>4 DEF EntriesFresh, Yields
<1>10. C!CachesKept'
  BY <1>0 DEF CachesInv, C!CachesKept, C!HitsCurrent, C!KeyCurrent, C!SettingsCurrent
<1> QED  BY <1>4, <1>5, <1>7, <1>8, <1>9, <1>10 DEF CachesInv

LEMMA InvalidatesKept ==
    ASSUME CachesInv, C!Invalidates
    PROVE  CachesInv'
<1>0. /\ cAdmin' = [cAdmin EXCEPT !.at = "advance"] /\ cAdmin.at = "invalidate"
      /\ UNCHANGED <<stored, epoch, entries, request, cChanges>>
  BY DEF C!Invalidates
<1>1. /\ cAdmin # C!Idle /\ cAdmin.thing \in C!Things /\ cAdmin.version \in Versions /\ cAdmin.r \in Replicas
      /\ cAdmin.version <= stored[cAdmin.thing] /\ cAdmin \in Invalidations
  BY <1>0, Mutating
<1>2. cAdmin' \in Invalidations /\ cAdmin' # C!Idle /\ cAdmin'.at = "advance" /\ cAdmin'.thing = cAdmin.thing /\ cAdmin'.version = cAdmin.version
  BY <1>0, <1>1 DEF Invalidations, C!Idle
<1>3. due \in Dues /\ due.key \in Versions /\ due.settings \in [Replicas -> Versions]
  BY DEF CachesInv, CachesTyped, Dues
<1>4. /\ (keyCache' = keyCache \/ keyCache' = None) /\ (due'.key # due.key => keyCache' = None)
      /\ due' \in Dues /\ due'.deployments = due.deployments
      /\ due'.key >= due.key /\ due'.key <= stored["key"]
      /\ \A k \in Requests : request[k].at = "putKey" => request[k].seen >= due'.key
      /\ settings' \in [Replicas -> Versions \cup {None}]
      /\ \A r \in Replicas : /\ settings'[r] # None => settings'[r] >= due'.settings[r]
                             /\ due'.settings[r] >= due.settings[r] /\ due'.settings[r] <= stored["settings"]
      /\ \A k \in Requests : request[k].at = "putSettings" => request[k].seen >= due'.settings[request[k].r]
  <2>0. /\ \A k \in Requests : request[k].at = "putKey" => request[k].seen >= due.key /\ request[k].seen \in Versions
        /\ \A k \in Requests : request[k].at = "putSettings" =>
              request[k].seen >= due.settings[request[k].r] /\ request[k].seen \in Versions /\ request[k].r \in Replicas
    BY Carries DEF CachesInv, KeyFresh, SettingsFresh, Stages
  <2>1. CASE cAdmin.thing = "key"
    <3>1. /\ keyCache' = None /\ settings' = settings
          /\ due' = due \/ (due' = [due EXCEPT !.key = C!Larger(@, cAdmin.version)] /\ ~C!InFlight("putKey", cAdmin.version))
      BY <2>1 DEF C!Invalidates
    <3>2. due' \in Dues /\ due'.deployments = due.deployments /\ due'.settings = due.settings
          /\ (due'.key = due.key \/ (due'.key = C!Larger(due.key, cAdmin.version) /\ ~C!InFlight("putKey", cAdmin.version)))
      <4>1. C!Larger(due.key, cAdmin.version) \in Versions
        BY <1>1, <1>3 DEF C!Larger
      <4> QED  BY <3>1, <1>3, <4>1 DEF Dues
    <3>3. due.key <= stored["key"] /\ cAdmin.version <= stored["key"]
      BY <1>1, <2>1 DEF CachesInv, Stored
    <3>4. due'.key >= due.key /\ due'.key <= stored["key"]
      BY <1>1, <1>3, <3>2, <3>3, VersionsApart DEF C!Larger, Versions
    <3>5. \A k \in Requests : request[k].at = "putKey" => request[k].seen >= due'.key
      BY <1>1, <1>3, <2>0, <3>2, VersionsApart DEF C!Larger, C!InFlight, Versions
    <3>6. \A r \in Replicas : due.settings[r] >= due.settings[r] /\ due.settings[r] <= stored["settings"]
      BY <1>3, VersionsApart DEF CachesInv, Stored, Versions
    <3> QED  BY <2>0, <3>1, <3>2, <3>4, <3>5, <3>6 DEF CachesInv, CachesTyped, SettingsFresh
  <2>2. CASE cAdmin.thing = "settings"
    <3>1. /\ keyCache' = keyCache /\ settings' = [settings EXCEPT ![cAdmin.r] = None]
          /\ due' = due \/ (due' = [due EXCEPT !.settings[cAdmin.r] = C!Larger(@, cAdmin.version)] /\ ~C!InFlight("putSettings", cAdmin.version))
      BY <2>2 DEF C!Invalidates, C!SettingsWithout
    <3>2. due' \in Dues /\ due'.deployments = due.deployments /\ due'.key = due.key
          /\ \/ due'.settings = due.settings
             \/ due'.settings = [due.settings EXCEPT ![cAdmin.r] = C!Larger(@, cAdmin.version)] /\ ~C!InFlight("putSettings", cAdmin.version)
      <4>1. C!Larger(due.settings[cAdmin.r], cAdmin.version) \in Versions
        BY <1>1, <1>3 DEF C!Larger
      <4>2. [due.settings EXCEPT ![cAdmin.r] = C!Larger(@, cAdmin.version)] \in [Replicas -> Versions]
        BY <1>3, <4>1
      <4> QED  BY <3>1, <1>3, <4>2 DEF Dues
    <3>3. \A r \in Replicas : due'.settings[r] = due.settings[r]
             \/ (r = cAdmin.r /\ due'.settings[r] = C!Larger(due.settings[r], cAdmin.version) /\ ~C!InFlight("putSettings", cAdmin.version))
      BY <1>1, <1>3, <3>2
    <3>4. \A r \in Replicas : due.settings[r] <= stored["settings"] /\ cAdmin.version <= stored["settings"] /\ due.settings[r] \in Versions
      BY <1>1, <1>3, <2>2 DEF CachesInv, Stored
    <3>5. \A r \in Replicas : due'.settings[r] >= due.settings[r] /\ due'.settings[r] <= stored["settings"]
      BY <1>1, <3>3, <3>4, VersionsApart DEF C!Larger, Versions
    <3>6. settings' \in [Replicas -> Versions \cup {None}] /\ \A r \in Replicas : settings'[r] # None => settings'[r] >= due'.settings[r]
      BY <1>1, <3>1, <3>3 DEF CachesInv, CachesTyped, SettingsFresh
    <3>7. \A k \in Requests : request[k].at = "putSettings" => request[k].seen >= due'.settings[request[k].r]
      BY <1>1, <2>0, <3>3, <3>4, VersionsApart DEF C!Larger, C!InFlight, Versions
    <3>8. due.key >= due.key /\ due.key <= stored["key"]
      BY <1>3, VersionsApart DEF CachesInv, Stored, Versions
    <3> QED  BY <2>0, <3>1, <3>2, <3>5, <3>6, <3>7, <3>8
  <2>3. CASE cAdmin.thing \notin {"key", "settings"}
    <3>1. UNCHANGED <<keyCache, settings, due>>
      BY <2>3 DEF C!Invalidates
    <3>2. due.key >= due.key /\ due.key <= stored["key"] /\ \A r \in Replicas : due.settings[r] >= due.settings[r] /\ due.settings[r] <= stored["settings"]
      BY <1>3, VersionsApart DEF CachesInv, Stored, Versions
    <3> QED  BY <1>3, <2>0, <3>1, <3>2 DEF CachesInv, CachesTyped, SettingsFresh
  <2> QED  BY <2>1, <2>2, <2>3
<1>5. CachesTyped'
  BY <1>0, <1>2, <1>4 DEF CachesInv, CachesTyped
<1>6. Counted'
  BY <1>0, <1>1, <1>2, VersionsApart DEF CachesInv, CachesTyped, Counted, Versions
<1>7. Stored'
  <2>1. \A k \in Requests : request[k] # C!Idle =>
          /\ request[k].due.key <= due'.key /\ request[k].due.deployments <= due'.deployments
          /\ request[k].due.settings <= due'.settings[request[k].r] /\ request[k].epoch <= epoch
    <3> SUFFICES ASSUME NEW k \in Requests, request[k] # C!Idle
                 PROVE  /\ request[k].due.key <= due'.key /\ request[k].due.deployments <= due'.deployments
                        /\ request[k].due.settings <= due'.settings[request[k].r] /\ request[k].epoch <= epoch
      OBVIOUS
    <3>1. request[k].at \in Stages
      BY RequestParts, BegunParts DEF CachesInv
    <3>2. due'.key \in Versions /\ due'.settings[request[k].r] \in Versions /\ due.settings[request[k].r] \in Versions
      BY <1>3, <1>4, <3>1, Carries DEF Dues
    <3> QED  BY <1>3, <1>4, <3>1, <3>2, Carries, VersionsApart DEF Versions
  <2> QED  BY <1>0, <1>1, <1>2, <1>4, <2>1 DEF CachesInv, Stored
<1>8. KeyFresh' /\ SettingsFresh'
  BY <1>0, <1>4 DEF CachesInv, KeyFresh, SettingsFresh
<1>9. EntriesFresh'
  BY <1>0, <1>4 DEF CachesInv, EntriesFresh, Yields
<1>10. C!CachesKept'
  BY <1>0 DEF CachesInv, C!CachesKept, C!HitsCurrent, C!KeyCurrent, C!SettingsCurrent
<1> QED  BY <1>5, <1>6, <1>7, <1>8, <1>9, <1>10 DEF CachesInv

\* Every step of the caches keeps it.
LEMMA CachesStep == ASSUME CachesInv, C!Next PROVE CachesInv'
<1>1. \A t \in C!Things, r \in Replicas : C!Arrives(t, r) => CachesInv'
  BY ArrivesKept
<1>2. \A k \in Requests : C!Serves(k) => CachesInv'
  BY GetsKeyKept, PutsKeyKept, OpensKept, LooksKept, GetsSettingsKept, PutsSettingsKept, RoutesKept, StoresKept, LeavesKept DEF C!Serves
<1>3. \A k \in Requests, r \in Replicas : C!Begins(k, r) => CachesInv'
  BY BeginsKept
<1>4. \A e \in DOMAIN entries : C!ExpireEntry(e) => CachesInv'
  BY ExpiresKept DEF CachesInv, CachesTyped
<1> QED  BY <1>1, <1>2, <1>3, <1>4, CommitsKept, InvalidatesKept, CompletesKept, FailsKept, ExpiresKept DEF C!Next

-----------------------------------------------------------------------------
(* The three side by side.                                                  *)

ConfigurationInv == ExtensionsInv /\ AdministrationInv /\ CachesInv

LEMMA ConfigurationBegins == Init => ConfigurationInv
BY ExtensionsBegin, AdministrationBegins, CachesBegin DEF Init, ConfigurationInv

\* The parts that are not of the behaviour's kind stay.
LEMMA ExtensionsUnmoved == ASSUME ExtensionsInv, UNCHANGED extensions PROVE ExtensionsInv'
BY DEF extensions, ExtensionsInv, ExtensionsTyped, Makes, Undisturbed, Reloading, Current, Matches, Reads, InUse, X!Running, X!Wanted

LEMMA AdministrationUnmoved == ASSUME AdministrationInv, UNCHANGED deployments PROVE AdministrationInv'
BY DEF deployments, AdministrationInv, AdministrationTyped, LocksHeld, RowsLocked, Renames, Sealed,
       A!ChainsResolve, A!Referenced, A!Exists, A!Of

LEMMA CachesUnmoved == ASSUME CachesInv, UNCHANGED caches PROVE CachesInv'
BY DEF caches, CachesInv, CachesTyped, Counted, Stored, KeyFresh, SettingsFresh, EntriesFresh, Yields,
       C!CachesKept, C!HitsCurrent, C!KeyCurrent, C!SettingsCurrent

LEMMA ConfigurationStep == ASSUME ConfigurationInv, [Next]_vars PROVE ConfigurationInv'
<1>1. CASE Extending
  BY <1>1, ExtensionsStep, AdministrationUnmoved, CachesUnmoved DEF Extending, ConfigurationInv
<1>2. CASE Deploying
  BY <1>2, AdministrationStep, ExtensionsUnmoved, CachesUnmoved DEF Deploying, ConfigurationInv
<1>3. CASE Caching
  BY <1>3, CachesStep, ExtensionsUnmoved, AdministrationUnmoved DEF Caching, ConfigurationInv
<1>4. CASE UNCHANGED vars
  BY <1>4, ExtensionsUnmoved, AdministrationUnmoved, CachesUnmoved DEF vars, ConfigurationInv
<1> QED  BY <1>1, <1>2, <1>3, <1>4 DEF Next

LEMMA AdministrationShown == AdministrationInv => A!TypeOK /\ A!AdministrationKept
<1> SUFFICES ASSUME AdministrationInv PROVE A!TypeOK /\ A!AdministrationKept
  OBVIOUS
<1>1. \A m \in Models : lock[m] # None => job[lock[m]] # A!Idle
  <2> SUFFICES ASSUME NEW m \in Models, NEW j \in Jobs, lock[m] = j PROVE job[j] # A!Idle
    BY DEF AdministrationInv, AdministrationTyped
  <2> QED  BY IdleHasNone DEF AdministrationInv, LocksHeld
<1>2. A!TypeOK
  BY <1>1 DEF AdministrationInv, AdministrationTyped, Chains, A!TypeOK
<1>3. A!SecretsLast
  BY DEF AdministrationInv, Sealed, A!SecretsLast
<1> QED  BY <1>2, <1>3, NoneInCircle DEF AdministrationInv, A!AdministrationKept

LEMMA CachesShown == CachesInv => C!TypeOK /\ C!CachesKept
BY DEF CachesInv, CachesTyped, C!TypeOK, Versions, Epochs

LEMMA ConfigurationShown == ConfigurationInv => ConfigurationKept
BY ExtensionsShown, AdministrationShown, CachesShown DEF ConfigurationInv, ConfigurationKept, TypeOK

\* The three parts have the values they should have (extensions/runtime.ts,
\* deployments and fallbacks services, the caches).
THEOREM ConfigurationTyped == Spec => []TypeOK
<1>1. ConfigurationInv => TypeOK
  BY ConfigurationShown DEF ConfigurationKept
<1> QED  BY <1>1, ConfigurationBegins, ConfigurationStep, PTL DEF Spec

\* A replica that believes it is at the registry's version runs the set of that
\* version, and what it runs is set up, unless reloads overlapped or a bump was lost.
THEOREM SetsStayCurrent == Spec => []X!SetCurrent
<1>1. ConfigurationInv => X!SetCurrent
  BY ConfigurationShown DEF ConfigurationKept
<1> QED  BY <1>1, ConfigurationBegins, ConfigurationStep, PTL DEF Spec

\* However renames, deletions, creations and fallbacks overlap, chains name models
\* that have deployments, credentials are those given last, and the requests never
\* wait for each other in a circle.
THEOREM AdministrationStays == Spec => []A!AdministrationKept
<1>1. ConfigurationInv => A!AdministrationKept
  BY ConfigurationShown DEF ConfigurationKept
<1> QED  BY <1>1, ConfigurationBegins, ConfigurationStep, PTL DEF Spec

\* No cache answers with what was changed before: the response cache by its epoch,
\* the key's and the settings' by invalidation.
THEOREM CachesStayCurrent == Spec => []C!CachesKept
<1>1. ConfigurationInv => C!CachesKept
  BY ConfigurationShown DEF ConfigurationKept
<1> QED  BY <1>1, ConfigurationBegins, ConfigurationStep, PTL DEF Spec

\* What the run checks, for every value of the constants.
THEOREM ConfigurationStays == Spec => []ConfigurationKept
BY ConfigurationShown, ConfigurationBegins, ConfigurationStep, PTL DEF Spec
=============================================================================
