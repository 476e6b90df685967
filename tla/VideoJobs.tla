------------------------------ MODULE VideoJobs ------------------------------
(***************************************************************************)
(* The life of one video job: its row and the row of its stored video in   *)
(* Postgres, the video itself in the object store, the job at the provider *)
(* (videos/service.ts, db/repos/videos.ts, endpoints/videos.ts).           *)
(*                                                                         *)
(* Pollers run in every replica, Viewers are requests that look the job up *)
(* or download it, one request may delete it, one collector removes what   *)
(* has expired. Each await between a read and a write is a step.           *)
(***************************************************************************)
EXTENDS Naturals, FiniteSets

CONSTANTS Pollers, Viewers,
          MaxVideoFaults \* bound on failed calls and on crashes

ASSUME VideoAssumption ==
    /\ Pollers \cap Viewers = {}
    /\ MaxVideoFaults \in Nat

Actors == Pollers \cup Viewers
Terminal == {"completed", "failed", "deleted"}

VARIABLES
    job,       \* the row: [status, deleted, next, old, expired]
    upstream,  \* the provider's job
    served,    \* the deployment that runs the job still exists
    asset,     \* the row of the stored video: "none", "live", "expired" or "deleted"
    object,    \* the video is in the object store
    create,    \* the request that creates the job
    actor,     \* per poller or viewer: [step, seen, answer, expired]
    deletion,  \* the request that deletes the job: [step, found]
    collector, \* the collector of expired videos: its step
    astray,   \* auxiliary: an ingestion ran beside another or beside a removal, or
               \* died between its put and its row
    videoFaults \* failed calls and crashes so far

rows == <<job, asset>>
videoVars == <<job, upstream, served, asset, object, create, actor, deletion, collector, astray, videoFaults>>

JobStatuses == {"in_progress", "completed", "failed", "deleted"}
Idle == [step |-> "idle", seen |-> "in_progress", answer |-> "in_progress",
         wants |-> "look", expired |-> FALSE]

VideoTypeOK ==
    /\ job \in [status : JobStatuses \cup {"none"}, deleted : BOOLEAN,
                next : {"null", "future", "past"}, old : BOOLEAN, expired : BOOLEAN]
    /\ upstream \in {"none", "running", "completed", "failed", "removed"}
    /\ asset \in {"none", "live", "expired", "deleted"}
    /\ object \in BOOLEAN /\ served \in BOOLEAN /\ astray \in BOOLEAN
    /\ create \in {"idle", "submitted", "compensating", "done", "lost", "died"}
    /\ actor \in [Actors -> [step : {"idle", "refresh", "answered", "ensure", "download", "put"},
                             seen : JobStatuses, answer : JobStatuses,
                             wants : {"look", "content"}, expired : BOOLEAN]]
    /\ deletion \in [step : {"idle", "object", "mark", "upstream", "done"}, found : BOOLEAN]
    /\ collector \in {"idle", "object", "mark"}
    /\ videoFaults \in 0..MaxVideoFaults

VideoInit ==
    /\ job = [status |-> "none", deleted |-> FALSE, next |-> "null", old |-> FALSE,
              expired |-> FALSE]
    /\ upstream = "none" /\ served = TRUE /\ asset = "none" /\ object = FALSE /\ create = "idle"
    /\ actor = [a \in Actors |-> Idle]
    /\ deletion = [step |-> "idle", found |-> FALSE]
    /\ collector = "idle" /\ astray = FALSE /\ videoFaults = 0

Fault == videoFaults < MaxVideoFaults /\ videoFaults' = videoFaults + 1

-----------------------------------------------------------------------------
\* Creation: the provider has the job before the row exists.

Submit ==
    /\ create = "idle"
    /\ upstream' = "running" /\ create' = "submitted"
    /\ UNCHANGED <<rows, object, actor, deletion, collector, astray, videoFaults, served>>

Persist ==
    /\ create = "submitted"
    /\ \E status \in {"in_progress"} \cup ({upstream} \cap Terminal) :
         job' = [job EXCEPT !.status = status,
                            !.next = IF status \in Terminal THEN "null" ELSE "future"]
    /\ create' = "done"
    /\ UNCHANGED <<upstream, asset, object, actor, deletion, collector, astray, videoFaults, served>>

PersistFails ==
    /\ create = "submitted" /\ Fault
    /\ create' = "compensating"
    /\ UNCHANGED <<rows, upstream, object, actor, deletion, collector, astray, served>>

\* A job that could not be persisted is removed at the provider.
Compensate ==
    /\ create = "compensating"
    /\ \/ upstream' = "removed" /\ create' = "done" /\ UNCHANGED videoFaults
       \/ Fault /\ create' = "lost" /\ UNCHANGED upstream
    /\ UNCHANGED <<rows, object, actor, deletion, collector, astray, served>>

CreateDies ==
    /\ create \in {"submitted", "compensating"} /\ Fault
    /\ create' = "died"
    /\ UNCHANGED <<rows, upstream, object, actor, deletion, collector, astray, served>>

Provider ==
    /\ upstream = "running"
    /\ upstream' \in {"completed", "failed"}
    /\ UNCHANGED <<rows, object, create, actor, deletion, collector, astray, videoFaults, served>>

-----------------------------------------------------------------------------
\* Refreshing a job: what was read before the provider's answer is used after.

Due == job.next # "future"

NextPoll(status) == IF status \in Terminal THEN "null" ELSE "future"

\* updateVideoJobState: the row is written by its id alone.
Updated(status) == [job EXCEPT !.status = status, !.next = NextPoll(status)]

\* claimDueVideoJobs: one statement takes the job for an interval.
Claim(p) ==
    /\ actor[p].step = "idle"
    /\ job.status = "in_progress" /\ ~job.deleted /\ Due
    /\ job' = [job EXCEPT !.next = "future"]
    /\ actor' = [actor EXCEPT ![p] = [Idle EXCEPT !.step = "refresh", !.wants = "content",
                                                  !.expired = job.expired]]
    /\ UNCHANGED <<upstream, asset, object, create, deletion, collector, astray, videoFaults, served>>

\* loadAndRefreshVideo: a request refreshes a job that is due, unclaimed; one
\* that wants the content refreshes any job that has not ended.
Load(v, wants) ==
    /\ actor[v].step = "idle"
    /\ job.status # "none" /\ ~job.deleted
    /\ actor' = [actor EXCEPT ![v] =
         [step |-> IF job.status \notin Terminal /\ (Due \/ wants = "content") THEN "refresh"
                   ELSE IF wants = "content" THEN "ensure" ELSE "idle",
          seen |-> job.status, answer |-> "in_progress", wants |-> wants,
          expired |-> job.expired]]
    /\ UNCHANGED <<rows, upstream, object, create, deletion, collector, astray, videoFaults, served>>

After(a, status) ==
    [actor[a] EXCEPT !.step = IF /\ actor[a].wants = "content"
                                 /\ a \in Viewers \/ status = "completed"
                              THEN "ensure" ELSE "idle",
                     !.seen = status]

\* candidateFromJob: the deployment is looked up again for every call.
Reachable == served /\ upstream # "removed"

\* Mutated form: an overdue job is put off again.
TimeOutPutsOff(a) ==
    /\ actor[a].step = "refresh" /\ job.old
    /\ job' = [job EXCEPT !.next = "future"]
    /\ actor' = [actor EXCEPT ![a] = Idle]
    /\ UNCHANGED <<upstream, asset, object, create, deletion, collector, astray, videoFaults, served>>

\* A job past its runtime limit fails without asking the provider.
TimeOut(a) ==
    /\ actor[a].step = "refresh" /\ job.old
    /\ job' = Updated("failed")
    /\ actor' = [actor EXCEPT ![a] = After(a, "failed")]
    /\ UNCHANGED <<upstream, asset, object, create, deletion, collector, astray, videoFaults, served>>

Ask(a) ==
    /\ actor[a].step = "refresh" /\ ~job.old
    /\ Reachable
    /\ actor' = [actor EXCEPT ![a].step = "answered",
                              ![a].answer = IF upstream = "running" THEN "in_progress" ELSE upstream]
    /\ UNCHANGED <<rows, upstream, object, create, deletion, collector, astray, videoFaults, served>>

\* applyProviderJob, whatever happened to the row since it was read.
Apply(a) ==
    /\ actor[a].step = "answered"
    /\ job' = Updated(actor[a].answer)
    /\ actor' = [actor EXCEPT ![a] = After(a, actor[a].answer)]
    /\ UNCHANGED <<upstream, asset, object, create, deletion, collector, astray, videoFaults, served>>

\* The provider no longer knows the job: the row is left as it is.
AskFails(a) ==
    /\ actor[a].step = "refresh" /\ ~job.old /\ ~Reachable
    /\ actor' = [actor EXCEPT ![a] = Idle]
    /\ UNCHANGED <<rows, upstream, object, create, deletion, collector, astray, videoFaults, served>>

\* A call to the provider or a store fails; or the replica dies. Either way
\* the work is abandoned, and a claimed job becomes due again.
GivesUp(a) ==
    /\ actor[a].step # "idle" /\ Fault
    /\ actor' = [actor EXCEPT ![a] = Idle]
    /\ astray' = (astray \/ actor[a].step = "put")
    /\ UNCHANGED <<rows, upstream, object, create, deletion, collector, served>>

-----------------------------------------------------------------------------
\* ensureVideoAsset: download, put the object, write its row.

Ingesting == {a \in Actors : actor[a].step \in {"download", "put"}}
Removing == deletion.step \in {"object", "mark"} \/ collector # "idle"

\* Mutated form: the row of the video is written before the video is stored.
EnsureRowFirst(a) ==
    /\ actor[a].step = "ensure"
    /\ LET ends == actor[a].expired \/ asset = "live" \/ actor[a].seen # "completed"
       IN /\ actor' = [actor EXCEPT ![a] = IF ends THEN Idle ELSE [@ EXCEPT !.step = "put"]]
          /\ astray' = (astray \/ (~ends /\ (Ingesting # {} \/ Removing)))
    /\ UNCHANGED <<rows, upstream, object, create, deletion, collector, videoFaults, served>>

Ensure(a) ==
    /\ actor[a].step = "ensure"
    /\ LET ends == actor[a].expired \/ asset = "live" \/ actor[a].seen # "completed"
       IN /\ actor' = [actor EXCEPT ![a] = IF ends THEN Idle ELSE [@ EXCEPT !.step = "download"]]
          /\ astray' = (astray \/ (~ends /\ (Ingesting # {} \/ Removing)))
    /\ UNCHANGED <<rows, upstream, object, create, deletion, collector, videoFaults, served>>

PutObject(a) ==
    /\ actor[a].step = "download" /\ Reachable
    /\ object' = TRUE
    /\ actor' = [actor EXCEPT ![a].step = "put"]
    /\ UNCHANGED <<rows, upstream, create, deletion, collector, astray, videoFaults, served>>

\* The provider no longer has the video.
DownloadFails(a) ==
    /\ actor[a].step = "download" /\ ~Reachable
    /\ actor' = [actor EXCEPT ![a] = Idle]
    /\ UNCHANGED <<rows, upstream, object, create, deletion, collector, astray, videoFaults, served>>

\* Mutated form: the video is kept although the job has expired meanwhile.
StoreAssetAnew(a) ==
    /\ actor[a].step = "put"
    /\ asset' = "live"
    /\ actor' = [actor EXCEPT ![a] = Idle]
    /\ UNCHANGED <<job, upstream, object, create, deletion, collector, astray, videoFaults, served>>

\* storeVideoAsset: the upsert clears deletedAt and takes the job's expiry.
StoreAsset(a) ==
    /\ actor[a].step = "put"
    /\ asset' = IF job.expired THEN "expired" ELSE "live"
    /\ actor' = [actor EXCEPT ![a] = Idle]
    /\ UNCHANGED <<job, upstream, object, create, deletion, collector, astray, videoFaults, served>>

-----------------------------------------------------------------------------
\* Deletion, and the collector of expired videos.

\* One transaction marks the row and makes its video due for collection.
DeleteRows ==
    /\ deletion.step = "idle" /\ job.status # "none" /\ ~job.deleted
    /\ job' = [job EXCEPT !.status = "deleted", !.deleted = TRUE]
    /\ LET found == asset \in {"live", "expired"}
       IN /\ deletion' = [step |-> IF found THEN "object" ELSE "upstream", found |-> found]
          /\ asset' = IF found THEN "expired" ELSE asset
          /\ astray' = (astray \/ (found /\ Ingesting # {}))
    /\ UNCHANGED <<upstream, object, create, actor, collector, videoFaults, served>>

\* Mutated form: the row is marked although the object could not be removed.
DeleteObjectMarksAnyway ==
    /\ deletion.step = "object"
    /\ deletion' = [deletion EXCEPT !.step = "mark"]
    /\ \/ object' = FALSE /\ UNCHANGED videoFaults
       \/ Fault /\ UNCHANGED object
    /\ UNCHANGED <<rows, upstream, create, actor, collector, astray, served>>

\* Only an object that was removed is marked; the collector retries others.
DeleteObject ==
    /\ deletion.step = "object"
    /\ \/ object' = FALSE /\ deletion' = [deletion EXCEPT !.step = "mark"] /\ UNCHANGED videoFaults
       \/ Fault /\ deletion' = [deletion EXCEPT !.step = "upstream"] /\ UNCHANGED object
    /\ UNCHANGED <<rows, upstream, create, actor, collector, astray, served>>

MarkDeleted ==
    /\ deletion.step = "mark"
    /\ asset' = "deleted"
    /\ deletion' = [deletion EXCEPT !.step = "upstream"]
    /\ UNCHANGED <<job, upstream, object, create, actor, collector, astray, videoFaults, served>>

RemoveUpstream ==
    /\ deletion.step = "upstream"
    /\ upstream' \in {upstream} \cup (IF served THEN {"removed"} ELSE {})
    /\ deletion' = [deletion EXCEPT !.step = "done"]
    /\ UNCHANGED <<rows, object, create, actor, collector, astray, videoFaults, served>>

DeleteDies ==
    /\ deletion.step \in {"object", "mark", "upstream"} /\ Fault
    /\ deletion' = [deletion EXCEPT !.step = "done"]
    /\ UNCHANGED <<rows, upstream, object, create, actor, collector, astray, served>>

ListExpired ==
    /\ collector = "idle" /\ asset = "expired"
    /\ collector' = "object"
    /\ astray' = (astray \/ Ingesting # {})
    /\ UNCHANGED <<rows, upstream, object, create, actor, deletion, videoFaults, served>>

CollectObject ==
    /\ collector = "object"
    /\ \/ object' = FALSE /\ collector' = "mark" /\ UNCHANGED videoFaults
       \/ Fault /\ collector' = "idle" /\ UNCHANGED object
    /\ UNCHANGED <<rows, upstream, create, actor, deletion, astray, served>>

MarkCollected ==
    /\ collector = "mark"
    /\ asset' = "deleted"
    /\ collector' = "idle"
    /\ UNCHANGED <<job, upstream, object, create, actor, deletion, astray, videoFaults, served>>

CollectorDies ==
    /\ collector # "idle" /\ Fault
    /\ collector' = "idle"
    /\ UNCHANGED <<rows, upstream, object, create, actor, deletion, astray, served>>

-----------------------------------------------------------------------------
\* The administrator removes the deployment, and time passes.

DeploymentRemoved ==
    /\ create # "idle" /\ served
    /\ served' = FALSE
    /\ UNCHANGED <<rows, upstream, object, create, actor, deletion, collector, astray, videoFaults>>

PollTime ==
    /\ job.next = "future"
    /\ job' = [job EXCEPT !.next = "past"]
    /\ UNCHANGED <<upstream, asset, object, create, actor, deletion, collector, astray, videoFaults, served>>

RuntimeEnds ==
    /\ job.status # "none" /\ ~job.old
    /\ job' = [job EXCEPT !.old = TRUE]
    /\ UNCHANGED <<upstream, asset, object, create, actor, deletion, collector, astray, videoFaults, served>>

\* The retention of the video is longer than the runtime of the job.
RetentionEnds ==
    /\ job.old /\ ~job.expired
    /\ job' = [job EXCEPT !.expired = TRUE]
    /\ asset' = IF asset = "live" THEN "expired" ELSE asset
    /\ UNCHANGED <<upstream, object, create, actor, deletion, collector, astray, videoFaults, served>>

Refresh(a) ==
    \/ TimeOut(a) \/ Ask(a) \/ AskFails(a) \/ Apply(a)
    \/ Ensure(a) \/ PutObject(a) \/ DownloadFails(a) \/ StoreAsset(a)

Collect == ListExpired \/ CollectObject \/ MarkCollected

Delete == DeleteObject \/ MarkDeleted \/ RemoveUpstream

VideoNext ==
    \/ Submit \/ Persist \/ PersistFails \/ Compensate \/ CreateDies \/ Provider
    \/ \E p \in Pollers : Claim(p)
    \/ \E v \in Viewers, wants \in {"look", "content"} : Load(v, wants)
    \/ \E a \in Actors : Refresh(a) \/ GivesUp(a)
    \/ DeleteRows \/ Delete \/ DeleteDies \/ Collect \/ CollectorDies
    \/ DeploymentRemoved \/ PollTime \/ RuntimeEnds \/ RetentionEnds

VideoSpec == VideoInit /\ [][VideoNext]_videoVars

\* Pollers and the collector run on a timer, calls are answered, time passes.
VideoFairness ==
    /\ \A p \in Pollers : WF_videoVars(Claim(p))
    /\ \A a \in Actors : WF_videoVars(Refresh(a))
    /\ WF_videoVars(Collect) /\ WF_videoVars(Delete)
    /\ WF_videoVars(PollTime) /\ WF_videoVars(RuntimeEnds) /\ WF_videoVars(RetentionEnds)

VideoFairSpec == VideoSpec /\ VideoFairness

-----------------------------------------------------------------------------
\* A provider's job without a row exists only while it is being created, or
\* after a crash, or when both its insertion and its removal failed
\* (endpoints/videos.ts:249).
UpstreamOwned ==
    upstream \in {"running", "completed", "failed"} /\ job.status = "none"
        => create \in {"submitted", "compensating", "lost", "died"}

\* A video a client may still download is in the object store: no order of
\* ingestions, deletion and collection removes an object under a live row
\* of a job that was not deleted (service.ts:320, :366).
ServableIsStored == asset = "live" /\ ~job.deleted => object

\* An object is not left behind by a failing store or a late ingestion: some
\* row or some running step still leads to its removal. "A storage outage
\* cannot orphan data forever" (db/repos/videos.ts:300). An ingestion beside
\* another or beside a removal, and a crash between the put and the row, are
\* the exceptions.
NotOrphaned ==
    object => asset \in {"live", "expired"} \/ Ingesting # {} \/ Removing \/ astray

\* Nothing is left behind, at the provider or in the object store.
NothingOrphaned == VideoTypeOK /\ UpstreamOwned /\ NotOrphaned

\* A job that was not deleted ends, whatever the provider does and whoever
\* dies while refreshing it; a stale refresh can only delay it.
JobEnds == job.status = "in_progress" ~> job.status \in Terminal \/ job.deleted

\* The stored video of a deleted or expired job is collected in the end.
AssetsCollected == job.deleted \/ job.expired ~> asset \in {"none", "deleted"}

\* A refresh never takes back the end of a job. It does: the row is written
\* by its id alone, from a row read before the provider answered.
EndsStay == [][job.status \in {"completed", "failed"} => job'.status \in {job.status, "deleted"}]_videoVars
=============================================================================
