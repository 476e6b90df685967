---------------------------- MODULE DurableProofs ----------------------------
(***************************************************************************)
(* What Postgres keeps, for any number of requests and any failures.  Of a *)
(* video job: a video that can be downloaded is stored, and neither a      *)
(* provider's job nor a stored video is left behind.  Of the operation     *)
(* log: the outcome written for an operation is the one first reported and *)
(* stays, the reconciler abandons nothing that holds a lease, and a        *)
(* shutdown that did not run out of time has written what was reported     *)
(* before its flush began.                                                 *)
(***************************************************************************)
EXTENDS VideoJobs, OperationLog, SequenceTheorems, TLAPS

-----------------------------------------------------------------------------
(* One video job.                                                          *)

USE VideoAssumption DEF VideoAssumption

-----------------------------------------------------------------------------
(* The inductive invariant.                                                *)

\* Only a job that the provider has got is refreshed.
Started ==
    /\ create = "idle" <=> upstream = "none"
    /\ job.status # "none" => upstream # "none"
    /\ deletion.step # "idle" => job.status # "none"
    /\ \A a \in Actors : actor[a].step # "idle" => job.status # "none"

\* Objects are removed only under a job that was deleted or has expired, and
\* that job has no live video any more unless it was deleted.
RemovedWhenOver ==
    /\ deletion.step # "idle" => job.deleted
    /\ asset = "expired" \/ collector # "idle" => job.expired \/ job.deleted
    /\ job.expired => asset # "live"

\* Until then, what an ingestion has put stays.
PutStays ==
    ~job.deleted /\ ~job.expired => \A a \in Actors : actor[a].step = "put" => object

\* No ingestion ran beside a removal.
Alone == ~astray /\ Ingesting # {} => ~Removing

\* So a removal that got as far as its row has removed the object.
MarkedIsGone == ~astray /\ (deletion.step = "mark" \/ collector = "mark") => ~object

\* And an object has its row, or the ingestion that is about to write it.
ObjectOwned ==
    ~astray /\ object => asset \in {"live", "expired"} \/ \E a \in Actors : actor[a].step = "put"

VideoTyped == VideoTypeOK /\ Started
Stored == RemovedWhenOver /\ PutStays /\ ServableIsStored
Owned == Alone /\ MarkedIsGone /\ ObjectOwned /\ UpstreamOwned
-----------------------------------------------------------------------------
(* Typing.                                                                 *)

JobRecord == [status : JobStatuses \cup {"none"}, deleted : BOOLEAN,
              next : {"null", "future", "past"}, old : BOOLEAN, expired : BOOLEAN]
ActorRecord == [step : {"idle", "refresh", "answered", "ensure", "download", "put"},
                seen : JobStatuses, answer : JobStatuses,
                wants : {"look", "content"}, expired : BOOLEAN]

LEMMA FaultTyped == ASSUME VideoTypeOK, Fault \/ UNCHANGED videoFaults PROVE videoFaults' \in 0..MaxVideoFaults
BY DEF VideoTypeOK, Fault

LEMMA BooleansTyped == VideoTypeOK => object \in BOOLEAN /\ served \in BOOLEAN /\ astray \in BOOLEAN
BY DEF VideoTypeOK

\* The record of an actor after a step of it, the others' being kept.
Turns(a, q) == actor' = [actor EXCEPT ![a] = q]

LEMMA TurnTyped ==
    ASSUME VideoTypeOK, NEW a \in Actors, NEW q, Turns(a, q)
    PROVE  /\ \A b \in Actors : actor'[b] = IF b = a THEN q ELSE actor[b]
           /\ q \in ActorRecord => actor' \in [Actors -> ActorRecord]
BY DEF VideoTypeOK, ActorRecord, Turns

LEMMA IdleTyped == Idle \in ActorRecord
BY DEF Idle, ActorRecord, JobStatuses

LEMMA UpdatedTyped ==
    ASSUME VideoTypeOK, NEW status \in JobStatuses
    PROVE  Updated(status) \in JobRecord /\ Updated(status).status = status
           /\ Updated(status).deleted = job.deleted /\ Updated(status).expired = job.expired
BY DEF VideoTypeOK, JobRecord, Updated, NextPoll

\* What each step of an actor makes of its record and of the row.
LEMMA Turn ==
    ASSUME VideoTyped, NEW a \in Actors, Refresh(a) \/ GivesUp(a)
    PROVE  \E q \in ActorRecord :
              /\ Turns(a, q) /\ actor[a].step # "idle"
              /\ \/ TimeOut(a) \/ Apply(a)
                 \/ UNCHANGED job
              /\ UNCHANGED <<upstream, create, deletion, collector, served>>
<1>1. actor[a] \in ActorRecord
  BY DEF VideoTyped, VideoTypeOK, ActorRecord
<1>2. ASSUME NEW status \in JobStatuses PROVE After(a, status) \in ActorRecord
  BY <1>1 DEF After, ActorRecord
<1>3. CASE TimeOut(a)
  BY <1>2, <1>3 DEF TimeOut, JobStatuses, Turns
<1>4. CASE Ask(a)
  <2> DEFINE answer == IF upstream = "running" THEN "in_progress" ELSE upstream
             q == [actor[a] EXCEPT !.step = "answered", !.answer = answer]
  <2>1. upstream \in {"running", "completed", "failed"}
    BY <1>4 DEF Ask, Reachable, VideoTyped, VideoTypeOK, Started
  <2>2. answer \in JobStatuses
    BY <2>1 DEF JobStatuses
  <2>3. q \in ActorRecord
    BY <1>1, <2>2 DEF ActorRecord
  <2>4. actor' = [actor EXCEPT ![a].step = "answered", ![a].answer = answer]
    BY <1>4 DEF Ask
  <2>5. Turns(a, q)
    BY <2>4 DEF Turns, VideoTyped, VideoTypeOK
  <2> QED  BY <1>4, <2>3, <2>5 DEF Ask, rows
<1>5. CASE Apply(a)
  BY <1>1, <1>2, <1>5 DEF Apply, ActorRecord, Turns
<1>6. CASE AskFails(a) \/ DownloadFails(a) \/ GivesUp(a) \/ StoreAsset(a)
  BY <1>6, IdleTyped DEF AskFails, DownloadFails, GivesUp, StoreAsset, Turns, rows
<1>7. CASE Ensure(a)
  <2>1. [actor[a] EXCEPT !.step = "download"] \in ActorRecord
    BY <1>1 DEF ActorRecord
  <2> QED  BY <1>7, <2>1, IdleTyped DEF Ensure, Turns, rows
<1>8. CASE PutObject(a)
  <2>1. [actor[a] EXCEPT !.step = "put"] \in ActorRecord
    BY <1>1 DEF ActorRecord
  <2> QED  BY <1>8, <2>1 DEF PutObject, Turns, rows
<1> QED  BY <1>3, <1>4, <1>5, <1>6, <1>7, <1>8 DEF Refresh

\* A request or a poller takes up a job.
LEMMA TakeUp ==
    ASSUME VideoTyped, NEW a \in Actors,
           \/ a \in Pollers /\ Claim(a)
           \/ a \in Viewers /\ \E wants \in {"look", "content"} : Load(a, wants)
    PROVE  /\ \E q \in ActorRecord :
                Turns(a, q) /\ q.step \notin {"download", "put"}
           /\ actor[a].step = "idle" /\ job.status # "none"
           /\ job' = job \/ job' = [job EXCEPT !.next = "future"]
           /\ UNCHANGED <<upstream, create, asset, object, deletion, collector, astray, videoFaults, served>>
<1>1. job \in JobRecord
  BY DEF VideoTyped, VideoTypeOK, JobRecord
<1>2. CASE Claim(a)
  <2>1. [Idle EXCEPT !.step = "refresh", !.wants = "content", !.expired = job.expired] \in ActorRecord
    BY <1>1, IdleTyped DEF ActorRecord, JobRecord
  <2>2. [Idle EXCEPT !.step = "refresh", !.wants = "content", !.expired = job.expired].step = "refresh"
    BY DEF Idle
  <2> QED  BY <1>2, <2>1, <2>2 DEF Claim, Turns
<1>3. ASSUME NEW wants \in {"look", "content"}, Load(a, wants)
      PROVE  /\ \E q \in ActorRecord :
                   Turns(a, q) /\ q.step \notin {"download", "put"}
             /\ actor[a].step = "idle" /\ job.status # "none" /\ job' = job
             /\ UNCHANGED <<upstream, create, asset, object, deletion, collector, astray, videoFaults, served>>
  <2> DEFINE step == IF job.status \notin Terminal /\ (Due \/ wants = "content") THEN "refresh"
                     ELSE IF wants = "content" THEN "ensure" ELSE "idle"
             q == [step |-> step, seen |-> job.status, answer |-> "in_progress", wants |-> wants,
                   expired |-> job.expired]
  <2>1. job.status \in JobStatuses /\ job.status # "none"
    BY <1>1, <1>3 DEF Load, JobRecord
  <2>2. step \in {"refresh", "ensure", "idle"}
    OBVIOUS
  <2> HIDE DEF step
  <2>3. q \in ActorRecord /\ q.step = step
    BY <1>1, <2>1, <2>2 DEF ActorRecord, JobRecord, JobStatuses
  <2>4. Turns(a, q)
    BY <1>3 DEF Load, Turns, step
  <2>5. UNCHANGED <<job, upstream, create, asset, object, deletion, collector, astray, videoFaults, served>>
    BY <1>3 DEF Load, rows
  <2>6. actor[a].step = "idle"
    BY <1>3 DEF Load
  <2> QED  BY <2>1, <2>2, <2>3, <2>4, <2>5, <2>6
<1> QED  BY <1>2, <1>3

LEMMA ActorsTyped ==
    ASSUME VideoTyped, NEW a \in Actors,
           \/ a \in Pollers /\ Claim(a)
           \/ a \in Viewers /\ \E wants \in {"look", "content"} : Load(a, wants)
           \/ Refresh(a) \/ GivesUp(a)
    PROVE  VideoTyped'
<1>1. job \in JobRecord /\ actor[a] \in ActorRecord
  BY DEF VideoTyped, VideoTypeOK, JobRecord, ActorRecord
<1>2. ASSUME NEW q \in ActorRecord, Turns(a, q), job' \in JobRecord, job'.status # "none",
             UNCHANGED <<upstream, create, deletion, collector, served>>, upstream # "none",
             asset' \in {"none", "live", "expired", "deleted"},
             object' \in BOOLEAN, astray' \in BOOLEAN, videoFaults' \in 0..MaxVideoFaults
      PROVE  VideoTyped'
  <2>1. actor' \in [Actors -> ActorRecord]
    BY <1>2, TurnTyped DEF VideoTyped
  <2>2. VideoTypeOK'
    BY <1>2, <2>1 DEF VideoTyped, VideoTypeOK, JobRecord, ActorRecord
  <2>3. Started'
    BY <1>2 DEF VideoTyped, Started
  <2> QED  BY <2>2, <2>3 DEF VideoTyped
<1>3. CASE \/ a \in Pollers /\ Claim(a)
           \/ a \in Viewers /\ \E wants \in {"look", "content"} : Load(a, wants)
  <2>1. /\ job.status # "none" /\ (job' = job \/ job' = [job EXCEPT !.next = "future"])
        /\ UNCHANGED <<upstream, create, asset, object, deletion, collector, astray, videoFaults, served>>
    BY <1>3, TakeUp
  <2>2. job' \in JobRecord /\ job'.status # "none"
    BY <1>1, <2>1 DEF JobRecord
  <2>3. upstream # "none"
    BY <2>1 DEF VideoTyped, Started
  <2>4. /\ asset' \in {"none", "live", "expired", "deleted"}
        /\ object' \in BOOLEAN /\ astray' \in BOOLEAN /\ videoFaults' \in 0..MaxVideoFaults
    BY <2>1 DEF VideoTyped, VideoTypeOK
  <2>5. \E q \in ActorRecord : Turns(a, q)
    BY <1>3, TakeUp
  <2> QED  BY <1>2, <2>1, <2>2, <2>3, <2>4, <2>5
<1>4. CASE Refresh(a) \/ GivesUp(a)
  <2>1. PICK q \in ActorRecord :
              /\ Turns(a, q) /\ actor[a].step # "idle"
              /\ \/ TimeOut(a) \/ Apply(a)
                 \/ UNCHANGED job
              /\ UNCHANGED <<upstream, create, deletion, collector, served>>
    BY <1>4, Turn
  <2>2. job.status # "none" /\ upstream # "none"
    BY <2>1 DEF VideoTyped, Started
  <2>3. TimeOut(a) \/ Apply(a) => job' \in JobRecord /\ job'.status # "none"
    BY <1>1, UpdatedTyped DEF TimeOut, Apply, ActorRecord, JobStatuses, VideoTyped
  <2>4. /\ asset' \in {"none", "live", "expired", "deleted"}
        /\ object' \in BOOLEAN /\ astray' \in BOOLEAN /\ videoFaults' \in 0..MaxVideoFaults
    <3> USE DEF VideoTyped, VideoTypeOK
    <3>1. CASE TimeOut(a) \/ Ask(a) \/ AskFails(a) \/ Apply(a)
      BY <3>1 DEF TimeOut, Ask, AskFails, Apply, rows
    <3>2. CASE Ensure(a) \/ PutObject(a) \/ DownloadFails(a)
      BY <3>2 DEF Ensure, PutObject, DownloadFails, rows
    <3>3. CASE StoreAsset(a)  BY <3>3 DEF StoreAsset
    <3>4. CASE GivesUp(a)  BY <3>4 DEF GivesUp, Fault, rows
    <3> QED  BY <1>4, <3>1, <3>2, <3>3, <3>4 DEF Refresh
  <2> QED  BY <1>1, <1>2, <2>1, <2>2, <2>3, <2>4
<1> QED  BY <1>3, <1>4

CreateSteps == Submit \/ Persist \/ PersistFails \/ Compensate \/ CreateDies \/ Provider
RemoveSteps == DeleteRows \/ Delete \/ DeleteDies \/ Collect \/ CollectorDies
TimeSteps == DeploymentRemoved \/ PollTime \/ RuntimeEnds \/ RetentionEnds

LEMMA CreateTyped ==
    ASSUME VideoTyped, CreateSteps
    PROVE  VideoTyped'
<1>1. CASE Persist
  <2>1. job \in JobRecord
    BY DEF VideoTyped, VideoTypeOK, JobRecord
  <2>2. PICK status \in {"in_progress"} \cup ({upstream} \cap Terminal) :
          job' = [job EXCEPT !.status = status,
                             !.next = IF status \in Terminal THEN "null" ELSE "future"]
    BY <1>1 DEF Persist
  <2>3. status \in JobStatuses
    BY DEF JobStatuses, Terminal
  <2>4. job' \in JobRecord /\ job'.status = status
    BY <2>1, <2>2, <2>3 DEF JobRecord
  <2>5. status # "none" /\ upstream' = upstream
    BY <1>1, <2>3 DEF Persist, JobStatuses
  <2>6. /\ create = "submitted" /\ create' = "done"
        /\ UNCHANGED <<upstream, asset, object, actor, deletion, collector, astray, videoFaults, served>>
    BY <1>1 DEF Persist
  <2>7. VideoTypeOK'
    BY <2>4, <2>6 DEF VideoTyped, VideoTypeOK, JobRecord
  <2>8. Started'
    BY <2>4, <2>5, <2>6 DEF VideoTyped, Started
  <2> QED  BY <2>7, <2>8 DEF VideoTyped
<1>2. CASE ~Persist
  <2>1. /\ UNCHANGED <<rows, object, actor, deletion, collector, astray, served>>
        /\ upstream' \in {"none", "running", "completed", "failed", "removed"}
        /\ create' \in {"idle", "submitted", "compensating", "done", "lost", "died"}
        /\ videoFaults' \in 0..MaxVideoFaults
        /\ create' # "idle" \/ create' = create
        /\ upstream' # "none" \/ upstream' = upstream
        /\ (create' = create /\ upstream # "none") \/ (create' # "idle" /\ (upstream' # "none" \/ create # "idle"))
    <3> USE DEF VideoTyped, VideoTypeOK
    <3>1. CASE Submit  BY <3>1 DEF Submit
    <3>2. CASE PersistFails  BY <3>2 DEF PersistFails, Fault
    <3>3. CASE Compensate  BY <3>3 DEF Compensate, Fault
    <3>4. CASE CreateDies  BY <3>4 DEF CreateDies, Fault
    <3>5. CASE Provider  BY <3>5 DEF Provider
    <3> QED  BY <1>2, <3>1, <3>2, <3>3, <3>4, <3>5 DEF CreateSteps
  <2>2. VideoTypeOK'
    BY <2>1 DEF VideoTyped, VideoTypeOK, rows
  <2>3. Started'
    BY <2>1 DEF VideoTyped, Started, rows, Provider
  <2> QED  BY <2>2, <2>3 DEF VideoTyped
<1> QED  BY <1>1, <1>2

LEMMA RemoveTyped ==
    ASSUME VideoTyped, RemoveSteps
    PROVE  VideoTyped'
<1>1. CASE DeleteRows
  <2>1. job' \in JobRecord /\ job'.status # "none" /\ job.status # "none"
    BY <1>1 DEF DeleteRows, VideoTyped, VideoTypeOK, JobRecord, JobStatuses
  <2>2. /\ deletion' \in [step : {"idle", "object", "mark", "upstream", "done"}, found : BOOLEAN]
        /\ asset' \in {"none", "live", "expired", "deleted"} /\ astray' \in BOOLEAN
    BY <1>1 DEF DeleteRows, VideoTyped, VideoTypeOK
  <2>3. UNCHANGED <<upstream, object, create, actor, collector, videoFaults, served>>
    BY <1>1 DEF DeleteRows
  <2> QED  BY <2>1, <2>2, <2>3 DEF VideoTyped, VideoTypeOK, Started, JobRecord
<1>2. CASE DeleteObject \/ MarkDeleted \/ RemoveUpstream \/ DeleteDies \/ Collect \/ CollectorDies
  <2>1. CASE ~ListExpired
    <3>1. /\ UNCHANGED <<job, create, actor, astray, served>>
          /\ upstream' = upstream \/ (upstream' = "removed" /\ deletion.step = "upstream")
          /\ asset' \in {"none", "live", "expired", "deleted"} /\ object' \in BOOLEAN
          /\ deletion' \in [step : {"idle", "object", "mark", "upstream", "done"}, found : BOOLEAN]
          /\ deletion'.step # "idle" => deletion.step # "idle"
          /\ collector' \in {"idle", "object", "mark"} /\ videoFaults' \in 0..MaxVideoFaults
      <4> USE DEF VideoTyped, VideoTypeOK, rows
      <4>1. CASE DeleteObject
        <5>1. /\ deletion.step = "object"
              /\ \/ deletion' = [deletion EXCEPT !.step = "mark"]
                 \/ deletion' = [deletion EXCEPT !.step = "upstream"]
          BY <4>1 DEF DeleteObject
        <5>2. deletion' \in [step : {"idle", "object", "mark", "upstream", "done"}, found : BOOLEAN]
          BY <5>1
        <5>3. (object' = FALSE \/ object' = object) /\ (Fault \/ UNCHANGED videoFaults)
          BY <4>1 DEF DeleteObject
        <5>4. object' \in BOOLEAN /\ videoFaults' \in 0..MaxVideoFaults
          BY <5>3, FaultTyped, BooleansTyped
        <5> QED  BY <4>1, <5>1, <5>2, <5>4 DEF DeleteObject
      <4>2. CASE MarkDeleted  BY <4>2 DEF MarkDeleted
      <4>3. CASE RemoveUpstream  BY <4>3 DEF RemoveUpstream
      <4>4. CASE DeleteDies  BY <4>4 DEF DeleteDies, Fault
      <4>5. CASE CollectObject
        <5>1. /\ object' = FALSE \/ object' = object
              /\ Fault \/ UNCHANGED videoFaults
              /\ collector' \in {"idle", "mark"}
          BY <4>5 DEF CollectObject
        <5>2. object' \in BOOLEAN /\ videoFaults' \in 0..MaxVideoFaults
          BY <5>1, FaultTyped, BooleansTyped
        <5> QED  BY <4>5, <5>1, <5>2 DEF CollectObject
      <4>6. CASE MarkCollected  BY <4>6 DEF MarkCollected
      <4>7. CASE CollectorDies  BY <4>7 DEF CollectorDies, Fault
      <4> QED  BY <1>2, <2>1, <4>1, <4>2, <4>3, <4>4, <4>5, <4>6, <4>7 DEF Collect
    <3>2. VideoTypeOK'
      BY <3>1 DEF VideoTyped, VideoTypeOK
    <3>3. Started'
      BY <3>1 DEF VideoTyped, Started
    <3> QED  BY <3>2, <3>3 DEF VideoTyped
  <2>2. CASE ListExpired
    BY <2>2 DEF ListExpired, rows, VideoTyped, VideoTypeOK, Started
  <2> QED  BY <2>1, <2>2
<1> QED  BY <1>1, <1>2 DEF RemoveSteps, Delete

LEMMA TimeTyped ==
    ASSUME VideoTyped, TimeSteps \/ UNCHANGED videoVars
    PROVE  VideoTyped'
<1>1. CASE DeploymentRemoved
  <2>3. /\ UNCHANGED <<job, asset, upstream, object, create, actor, deletion, collector, astray, videoFaults>>
        /\ served' \in BOOLEAN
    BY <1>1 DEF DeploymentRemoved, rows
  <2>1. VideoTypeOK'
    BY <2>3 DEF VideoTyped, VideoTypeOK
  <2>2. Started'
    BY <1>1 DEF DeploymentRemoved, rows, VideoTyped, Started
  <2> QED  BY <2>1, <2>2 DEF VideoTyped
<1>3. CASE UNCHANGED videoVars
  BY <1>3 DEF videoVars, rows, VideoTyped, VideoTypeOK, Started
<1>2. CASE PollTime \/ RuntimeEnds \/ RetentionEnds
  <2>1. job' \in JobRecord /\ job'.status = job.status
    BY <1>2 DEF PollTime, RuntimeEnds, RetentionEnds, VideoTyped, VideoTypeOK, JobRecord
  <2>2. /\ asset' \in {"none", "live", "expired", "deleted"}
        /\ UNCHANGED <<upstream, object, create, actor, deletion, collector, astray, videoFaults, served>>
    BY <1>2 DEF PollTime, RuntimeEnds, RetentionEnds, VideoTyped, VideoTypeOK
  <2>3. VideoTypeOK'
    BY <2>1, <2>2 DEF VideoTyped, VideoTypeOK, JobRecord
  <2>4. Started'
    BY <2>1, <2>2 DEF VideoTyped, Started
  <2> QED  BY <2>3, <2>4 DEF VideoTyped
<1> QED  BY <1>1, <1>2, <1>3 DEF TimeSteps

LEMMA Steps ==
    ASSUME [VideoNext]_videoVars
    PROVE  \/ \E a \in Actors :
                 \/ a \in Pollers /\ Claim(a)
                 \/ a \in Viewers /\ \E wants \in {"look", "content"} : Load(a, wants)
                 \/ Refresh(a) \/ GivesUp(a)
           \/ CreateSteps \/ RemoveSteps \/ TimeSteps \/ UNCHANGED videoVars
BY DEF VideoNext, Actors, CreateSteps, RemoveSteps, TimeSteps

LEMMA StepVideoTyped == VideoTyped /\ [VideoNext]_videoVars => VideoTyped'
BY Steps, ActorsTyped, CreateTyped, RemoveTyped, TimeTyped

LEMMA InitVideoTyped == VideoInit => VideoTyped
<1> SUFFICES ASSUME VideoInit PROVE VideoTyped
  OBVIOUS
<1>1. job \in JobRecord /\ videoFaults \in 0..MaxVideoFaults
  BY DEF VideoInit, JobRecord
<1>2. actor \in [Actors -> ActorRecord]
  BY IdleTyped DEF VideoInit
<1>3. VideoTypeOK
  BY <1>1, <1>2 DEF VideoInit, VideoTypeOK, JobRecord, ActorRecord
<1>4. Started
  BY DEF VideoInit, Started, Idle
<1> QED  BY <1>3, <1>4 DEF VideoTyped

\* Rows, actors and the provider's job keep their types; a refresh never meets
\* a job the provider has not got (videos/service.ts).
THEOREM VideoTypeCorrect == VideoSpec => []VideoTypeOK
<1>1. VideoTyped => VideoTypeOK
  BY DEF VideoTyped
<1> QED  BY <1>1, InitVideoTyped, StepVideoTyped, PTL DEF VideoSpec
-----------------------------------------------------------------------------
(* What can be downloaded is stored.                                       *)

\* A step of an actor leaves deletion and expiry alone; it only ever adds the
\* object, and the row only after an ingestion.
LEMMA ActorMoves ==
    ASSUME VideoTyped, NEW a \in Actors,
           \/ a \in Pollers /\ Claim(a)
           \/ a \in Viewers /\ \E wants \in {"look", "content"} : Load(a, wants)
           \/ Refresh(a) \/ GivesUp(a)
    PROVE  /\ UNCHANGED <<deletion, collector>>
           /\ job'.deleted = job.deleted /\ job'.expired = job.expired
           /\ \A b \in Actors \ {a} : actor'[b] = actor[b]
           /\ \/ /\ asset' = asset /\ object' = object
                 /\ actor'[a].step # "put"
              \/ /\ PutObject(a) /\ asset' = asset /\ object'
                 /\ actor[a].step = "download" /\ actor'[a].step = "put"
              \/ /\ StoreAsset(a) /\ actor[a].step = "put" /\ object' = object
                 /\ asset' = IF job.expired THEN "expired" ELSE "live"
                 /\ actor'[a].step = "idle"
<1>1. job \in JobRecord /\ actor \in [Actors -> ActorRecord]
  BY DEF VideoTyped, VideoTypeOK, JobRecord, ActorRecord
<1>2. CASE \/ a \in Pollers /\ Claim(a)
           \/ a \in Viewers /\ \E wants \in {"look", "content"} : Load(a, wants)
  <2>1. /\ job' = job \/ job' = [job EXCEPT !.next = "future"]
        /\ UNCHANGED <<asset, object, deletion, collector>>
    BY <1>2, TakeUp
  <2>2. job'.deleted = job.deleted /\ job'.expired = job.expired
    BY <1>1, <2>1 DEF JobRecord
  <2>3. PICK q \in ActorRecord : Turns(a, q) /\ q.step \notin {"download", "put"}
    BY <1>2, TakeUp
  <2>4. \A b \in Actors : actor'[b] = IF b = a THEN q ELSE actor[b]
    BY <2>3, TurnTyped DEF VideoTyped
  <2> QED  BY <2>1, <2>2, <2>3, <2>4
<1>3. CASE Refresh(a) \/ GivesUp(a)
  <2>1. PICK q \in ActorRecord :
              /\ Turns(a, q) /\ actor[a].step # "idle"
              /\ \/ TimeOut(a) \/ Apply(a)
                 \/ UNCHANGED job
              /\ UNCHANGED <<upstream, create, deletion, collector, served>>
    BY <1>3, Turn
  <2>2. job'.deleted = job.deleted /\ job'.expired = job.expired
    BY <1>1, <2>1, UpdatedTyped DEF TimeOut, Apply, ActorRecord, JobStatuses, VideoTyped
  <2>3. \A b \in Actors : actor'[b] = IF b = a THEN q ELSE actor[b]
    BY <2>1, TurnTyped DEF VideoTyped
  <2>4. CASE PutObject(a)
    BY <1>1, <2>1, <2>2, <2>3, <2>4 DEF PutObject, rows, ActorRecord
  <2>5. CASE StoreAsset(a)
    BY <1>1, <2>1, <2>2, <2>3, <2>5 DEF StoreAsset, Idle
  <2>6. CASE ~PutObject(a) /\ ~StoreAsset(a)
    <3>1. UNCHANGED <<asset, object>>
      BY <1>3, <2>6 DEF Refresh, TimeOut, Ask, AskFails, Apply, Ensure, DownloadFails, GivesUp, rows
    <3>2. actor'[a].step # "put"
      <4>1. ASSUME NEW status PROVE After(a, status).step # "put"
        BY <1>1 DEF After, ActorRecord
      <4>2. CASE TimeOut(a) \/ Apply(a)
        BY <1>1, <4>1, <4>2 DEF TimeOut, Apply
      <4>3. CASE Ask(a)  BY <1>1, <4>3 DEF Ask, ActorRecord
      <4>4. CASE Ensure(a)  BY <1>1, <4>4 DEF Ensure, ActorRecord, Idle
      <4>5. CASE AskFails(a) \/ DownloadFails(a) \/ GivesUp(a)
        BY <1>1, <4>5 DEF AskFails, DownloadFails, GivesUp, Idle
      <4> QED  BY <1>3, <2>6, <4>2, <4>3, <4>4, <4>5 DEF Refresh
    <3> QED  BY <2>1, <2>2, <2>3, <3>1, <3>2
  <2> QED  BY <2>4, <2>5, <2>6
<1> QED  BY <1>2, <1>3

LEMMA ActorsStored ==
    ASSUME VideoTyped, Stored, NEW a \in Actors,
           \/ a \in Pollers /\ Claim(a)
           \/ a \in Viewers /\ \E wants \in {"look", "content"} : Load(a, wants)
           \/ Refresh(a) \/ GivesUp(a)
    PROVE  Stored'
BY ActorMoves DEF Stored, RemovedWhenOver, PutStays, ServableIsStored

\* The steps of others leave the actors alone.
LEMMA OthersMove ==
    ASSUME VideoTyped, CreateSteps \/ RemoveSteps \/ TimeSteps \/ UNCHANGED videoVars
    PROVE  /\ actor' = actor
           /\ job.deleted => job'.deleted
           /\ job.expired => job'.expired
BY DEF VideoTyped, VideoTypeOK, CreateSteps, Submit, Persist, PersistFails, Compensate, CreateDies, Provider,
       RemoveSteps, DeleteRows, Delete, DeleteObject, MarkDeleted, RemoveUpstream, DeleteDies,
       Collect, ListExpired, CollectObject, MarkCollected, CollectorDies,
       TimeSteps, DeploymentRemoved, PollTime, RuntimeEnds, RetentionEnds, rows, videoVars

LEMMA OthersStored ==
    ASSUME VideoTyped, Stored, CreateSteps \/ RemoveSteps \/ TimeSteps \/ UNCHANGED videoVars
    PROVE  Stored'
<1>0. /\ actor' = actor /\ (job.deleted => job'.deleted) /\ (job.expired => job'.expired)
  BY OthersMove
<1>t. job \in JobRecord
  BY DEF VideoTyped, VideoTypeOK, JobRecord
<1> USE <1>0 DEF Stored, RemovedWhenOver, PutStays, ServableIsStored, rows
<1>1. CASE CreateSteps
  <2>1. UNCHANGED <<asset, object, deletion, collector, job.deleted, job.expired>>
    BY <1>1, <1>t DEF CreateSteps, Submit, Persist, PersistFails, Compensate, CreateDies, Provider,
       JobRecord
  <2> QED  BY <2>1
<1>2. CASE DeleteRows
  <2>1. job'.deleted /\ collector' = collector /\ job'.expired = job.expired
        /\ (asset' = asset \/ asset' = "expired")
    BY <1>2, <1>t DEF DeleteRows, JobRecord
  <2> QED  BY <2>1
<1>3. CASE DeleteObject \/ MarkDeleted \/ RemoveUpstream \/ DeleteDies
  <2>1. /\ UNCHANGED <<job, collector>> /\ deletion.step # "idle"
        /\ asset' = asset \/ asset' = "deleted"
    BY <1>3 DEF DeleteObject, MarkDeleted, RemoveUpstream, DeleteDies
  <2> QED  BY <2>1
<1>4. CASE Collect \/ CollectorDies
  <2>1. /\ UNCHANGED <<job, deletion>>
        /\ asset' = asset \/ asset' = "deleted"
        /\ collector' # "idle" => collector # "idle" \/ asset = "expired"
        /\ object' = object \/ collector # "idle"
    BY <1>4 DEF Collect, ListExpired, CollectObject, MarkCollected, CollectorDies
  <2> QED  BY <2>1
<1>5. CASE DeploymentRemoved \/ PollTime \/ RuntimeEnds \/ UNCHANGED videoVars
  <2>1. UNCHANGED <<asset, object, deletion, collector, job.deleted, job.expired>>
    BY <1>5, <1>t DEF DeploymentRemoved, PollTime, RuntimeEnds, videoVars, JobRecord
  <2> QED  BY <2>1
<1>6. CASE RetentionEnds
  <2>1. /\ job'.expired /\ job'.deleted = job.deleted
        /\ asset' = IF asset = "live" THEN "expired" ELSE asset
        /\ UNCHANGED <<deletion, collector>>
    BY <1>6, <1>t DEF RetentionEnds, JobRecord
  <2> QED  BY <2>1
<1> QED
  BY <1>1, <1>2, <1>3, <1>4, <1>5, <1>6 DEF RemoveSteps, Delete, TimeSteps

LEMMA StepStored == VideoTyped /\ Stored /\ [VideoNext]_videoVars => Stored'
BY Steps, ActorsStored, OthersStored

LEMMA InitStored == VideoInit => Stored
BY DEF VideoInit, Stored, RemovedWhenOver, PutStays, ServableIsStored, Idle

\* No order of ingestions, deletion, collection and expiry removes the object
\* of a video that can still be downloaded: removals only start once the job
\* was deleted or has expired, and an ingestion that ends after the expiry
\* writes a row that has expired (service.ts:320, :366).
THEOREM DownloadsAreStored == VideoSpec => []ServableIsStored
<1>1. Stored => ServableIsStored
  BY DEF Stored
<1> QED  BY <1>1, InitVideoTyped, InitStored, StepVideoTyped, StepStored, PTL DEF VideoSpec
-----------------------------------------------------------------------------
(* What is stored is removed.                                              *)

\* An ingestion starts when no removal runs, if it does not go astray.
LEMMA IngestingMoves ==
    ASSUME VideoTyped, NEW a \in Actors,
           \/ a \in Pollers /\ Claim(a)
           \/ a \in Viewers /\ \E wants \in {"look", "content"} : Load(a, wants)
           \/ Refresh(a) \/ GivesUp(a)
    PROVE  /\ astray => astray'
           /\ Ingesting' \subseteq Ingesting \/ astray' \/ ~Removing
           /\ actor[a].step = "put" => astray' \/ StoreAsset(a)
<1>1. actor \in [Actors -> ActorRecord]
  BY DEF VideoTyped, VideoTypeOK, ActorRecord
<1>2. \A b \in Actors \ {a} : actor'[b] = actor[b]
  BY ActorMoves
<1>3. CASE \/ a \in Pollers /\ Claim(a)
           \/ a \in Viewers /\ \E wants \in {"look", "content"} : Load(a, wants)
  <2>1. astray' = astray /\ actor[a].step = "idle"
    BY <1>3, TakeUp
  <2>2. PICK q \in ActorRecord : Turns(a, q) /\ q.step \notin {"download", "put"}
    BY <1>3, TakeUp
  <2>3. actor'[a] = q
    BY <2>2, TurnTyped DEF VideoTyped
  <2> QED  BY <1>2, <2>1, <2>2, <2>3 DEF Ingesting
<1>4. CASE Ensure(a)
  BY <1>1, <1>2, <1>4 DEF Ensure, Ingesting, ActorRecord, Idle
<1>5. CASE PutObject(a) \/ DownloadFails(a)
  BY <1>1, <1>2, <1>5 DEF PutObject, DownloadFails, Ingesting, ActorRecord, Idle
<1>6. CASE StoreAsset(a)
  BY <1>1, <1>2, <1>6 DEF StoreAsset, Ingesting, ActorRecord, Idle
<1>8. CASE GivesUp(a)
  <2>1. /\ astray => astray'
        /\ actor[a].step = "put" => astray'
    BY <1>8, Zenon DEF GivesUp
  <2>2. actor'[a].step = "idle"
    BY <1>1, <1>8 DEF GivesUp, Idle
  <2>3. Ingesting' \subseteq Ingesting
    BY <1>2, <2>2 DEF Ingesting
  <2> QED  BY <2>1, <2>3
<1>7. CASE TimeOut(a) \/ Ask(a) \/ AskFails(a) \/ Apply(a)
  <2>1. ASSUME NEW status PROVE After(a, status).step \in {"ensure", "idle"}
    BY <1>1 DEF After, ActorRecord
  <2>2. actor'[a].step \in {"ensure", "idle", "answered"}
    BY <1>1, <1>7, <2>1 DEF TimeOut, Ask, AskFails, Apply, Idle, ActorRecord
  <2>3. astray' = astray /\ actor[a].step # "put"
    BY <1>7 DEF TimeOut, Ask, AskFails, Apply
  <2> QED  BY <1>2, <2>2, <2>3 DEF Ingesting
<1> QED  BY <1>3, <1>4, <1>5, <1>6, <1>7, <1>8 DEF Refresh

LEMMA ActorsOwned ==
    ASSUME VideoTyped, Owned, NEW a \in Actors,
           \/ a \in Pollers /\ Claim(a)
           \/ a \in Viewers /\ \E wants \in {"look", "content"} : Load(a, wants)
           \/ Refresh(a) \/ GivesUp(a)
    PROVE  Owned'
<1>1. /\ UNCHANGED <<deletion, collector>>
      /\ \A b \in Actors \ {a} : actor'[b] = actor[b]
      /\ \/ /\ asset' = asset /\ object' = object
            /\ actor'[a].step # "put"
         \/ /\ PutObject(a) /\ asset' = asset /\ object'
            /\ actor[a].step = "download" /\ actor'[a].step = "put"
         \/ /\ StoreAsset(a) /\ actor[a].step = "put" /\ object' = object
            /\ asset' = IF job.expired THEN "expired" ELSE "live"
            /\ actor'[a].step = "idle"
  BY ActorMoves
<1>2. /\ astray => astray'
      /\ Ingesting' \subseteq Ingesting \/ astray' \/ ~Removing
      /\ actor[a].step = "put" => astray' \/ StoreAsset(a)
  BY IngestingMoves
<1>3. Removing' = Removing
  BY <1>1 DEF Removing
<1>4. Alone'
  BY <1>2, <1>3 DEF Owned, Alone
<1>p. ASSUME PutObject(a) PROVE actor'[a].step = "put"
  <2>1. actor \in [Actors -> ActorRecord] /\ actor' = [actor EXCEPT ![a].step = "put"]
    BY <1>p DEF PutObject, VideoTyped, VideoTypeOK, ActorRecord
  <2> QED  BY <2>1 DEF ActorRecord
<1>5. MarkedIsGone'
  <2> SUFFICES ASSUME ~astray', deletion'.step = "mark" \/ collector' = "mark" PROVE ~object'
    BY DEF MarkedIsGone
  <2>1. ~object /\ Removing
    BY <1>1, <1>2 DEF Owned, MarkedIsGone, Removing
  <2>2. ~PutObject(a)
    BY <1>2, <2>1 DEF PutObject, Owned, Alone, Ingesting
  <2> QED  BY <1>1, <2>1, <2>2
<1>6. ObjectOwned'
  <2> SUFFICES ASSUME ~astray', object'
               PROVE  asset' \in {"live", "expired"} \/ \E b \in Actors : actor'[b].step = "put"
    BY DEF ObjectOwned
  <2>1. CASE PutObject(a)
    BY <1>p, <2>1
  <2>3. CASE StoreAsset(a)
    BY <2>3 DEF StoreAsset
  <2>2. CASE ~PutObject(a) /\ ~StoreAsset(a)
    <3>1. asset' = asset /\ object /\ ~astray /\ actor[a].step # "put"
      BY <1>1, <1>2, <2>2
    <3> QED  BY <1>1, <3>1 DEF Owned, ObjectOwned
  <2> QED  BY <2>1, <2>2, <2>3
<1>7. UpstreamOwned'
  <2>t. job \in JobRecord /\ actor[a] \in ActorRecord
    BY DEF VideoTyped, VideoTypeOK, JobRecord, ActorRecord
  <2>1. UNCHANGED <<upstream, create>>
    BY TakeUp, Turn
  <2>2. CASE \/ a \in Pollers /\ Claim(a)
             \/ a \in Viewers /\ \E wants \in {"look", "content"} : Load(a, wants)
    <3>1. job'.status = job.status
      BY <2>t, <2>2, TakeUp DEF JobRecord
    <3> QED  BY <2>1, <3>1 DEF Owned, UpstreamOwned
  <2>3. CASE Refresh(a) \/ GivesUp(a)
    <3>1. ASSUME TimeOut(a) \/ Apply(a) PROVE job'.status # "none"
      <4>1. PICK status \in JobStatuses : job' = Updated(status)
        BY <2>t, <3>1 DEF TimeOut, Apply, ActorRecord, JobStatuses
      <4>2. Updated(status).status = status
        BY UpdatedTyped DEF VideoTyped
      <4> QED  BY <4>1, <4>2 DEF JobStatuses
    <3>2. job' = job \/ job'.status # "none"
      BY <2>3, <3>1, Turn
    <3> QED  BY <2>1, <3>2 DEF Owned, UpstreamOwned
  <2> QED  BY <2>2, <2>3
<1> QED  BY <1>4, <1>5, <1>6, <1>7 DEF Owned

LEMMA OthersOwned ==
    ASSUME VideoTyped, Owned, CreateSteps \/ RemoveSteps \/ TimeSteps \/ UNCHANGED videoVars
    PROVE  Owned'
<1>0. actor' = actor
  BY OthersMove
<1>t. job \in JobRecord
  BY DEF VideoTyped, VideoTypeOK, JobRecord
<1>i. Ingesting' = Ingesting
  BY <1>0 DEF Ingesting
<1>1. CASE CreateSteps
  <2>1. UNCHANGED <<asset, object, deletion, collector, astray>>
    BY <1>1 DEF CreateSteps, Submit, Persist, PersistFails, Compensate, CreateDies, Provider, rows
  <2>2. UpstreamOwned'
    <3>1. CASE Persist
      <4>1. job'.status # "none"
        BY <1>t, <3>1 DEF Persist, Terminal, JobRecord
      <4> QED  BY <4>1 DEF UpstreamOwned
    <3>2. CASE Submit \/ PersistFails \/ Compensate \/ CreateDies
      BY <3>2 DEF Submit, PersistFails, Compensate, CreateDies, UpstreamOwned
    <3>3. CASE Provider
      BY <3>3 DEF Provider, Owned, UpstreamOwned, rows
    <3> QED  BY <1>1, <3>1, <3>2, <3>3 DEF CreateSteps
  <2> QED
    BY <1>0, <1>i, <2>1, <2>2 DEF Owned, Alone, MarkedIsGone, ObjectOwned, Removing
<1>2. CASE DeleteRows
  <2>a. astray => astray'
    BY <1>2, Zenon DEF DeleteRows
  <2> DEFINE found == asset \in {"live", "expired"}
  <2>b. deletion'.step = IF found THEN "object" ELSE "upstream"
    BY <1>2 DEF DeleteRows
  <2>c. asset' = IF found THEN "expired" ELSE asset
    BY <1>2 DEF DeleteRows
  <2>d. found /\ Ingesting # {} => astray'
    BY <1>2, Zenon DEF DeleteRows
  <2>1. \/ /\ Ingesting # {} => astray'
           /\ asset' = "expired" /\ deletion'.step = "object"
        \/ asset' = asset /\ deletion'.step = "upstream"
    <3> HIDE DEF found
    <3> QED  BY <2>b, <2>c, <2>d
  <2>2. deletion.step = "idle" /\ UNCHANGED <<upstream, object, create, collector>>
    BY <1>2 DEF DeleteRows
  <2>3. job'.status = "deleted"
    BY <1>t, <1>2 DEF DeleteRows, JobRecord
  <2>4. Alone' /\ MarkedIsGone'
    BY <1>i, <2>a, <2>1, <2>2 DEF Owned, Alone, MarkedIsGone, Removing
  <2>5. ObjectOwned'
    BY <1>0, <2>a, <2>1, <2>2 DEF Owned, ObjectOwned
  <2> QED  BY <2>3, <2>4, <2>5 DEF Owned, UpstreamOwned
<1>3. CASE DeleteObject \/ MarkDeleted \/ RemoveUpstream \/ DeleteDies \/ Collect \/ CollectorDies
  <2>1. /\ UNCHANGED <<job, create>> /\ (upstream' = upstream \/ upstream' = "removed")
        /\ astray => astray'
        /\ object' => object
        /\ asset' = asset \/ deletion.step = "mark" \/ collector = "mark"
        /\ Removing' => Removing \/ Ingesting = {} \/ astray'
        /\ deletion'.step = "mark" => ~object' \/ deletion.step = "mark"
        /\ collector' = "mark" => ~object' \/ collector = "mark"
    <3> USE DEF rows, Removing
    <3>1. CASE DeleteObject
      <4>1. UNCHANGED <<job, create, upstream, asset, collector, astray>> /\ deletion.step = "object"
        BY <3>1 DEF DeleteObject
      <4>2. \/ ~object' /\ deletion'.step = "mark"
            \/ object' = object /\ deletion'.step = "upstream"
        BY <3>1 DEF DeleteObject, VideoTyped, VideoTypeOK
      <4> QED  BY <4>1, <4>2
    <3>2. CASE MarkDeleted  BY <3>2 DEF MarkDeleted, VideoTyped, VideoTypeOK
    <3>3. CASE RemoveUpstream  BY <3>3 DEF RemoveUpstream, VideoTyped, VideoTypeOK
    <3>4. CASE DeleteDies  BY <3>4 DEF DeleteDies, VideoTyped, VideoTypeOK
    <3>5. CASE ListExpired  BY <3>5 DEF ListExpired
    <3>6. CASE CollectObject  BY <3>6 DEF CollectObject
    <3>7. CASE MarkCollected  BY <3>7 DEF MarkCollected
    <3>8. CASE CollectorDies  BY <3>8 DEF CollectorDies
    <3> QED  BY <1>3, <3>1, <3>2, <3>3, <3>4, <3>5, <3>6, <3>7, <3>8 DEF Collect
  <2>2. Alone'
    BY <1>i, <2>1 DEF Owned, Alone
  <2>3. MarkedIsGone'
    BY <2>1 DEF Owned, MarkedIsGone
  <2>4. ObjectOwned'
    BY <1>0, <2>1 DEF Owned, ObjectOwned, MarkedIsGone
  <2>5. UpstreamOwned'
    BY <2>1 DEF Owned, UpstreamOwned
  <2> QED  BY <2>2, <2>3, <2>4, <2>5 DEF Owned
<1>4. CASE TimeSteps \/ UNCHANGED videoVars
  <2>1. /\ UNCHANGED <<upstream, object, create, deletion, collector, astray>>
        /\ asset' = asset \/ (asset = "live" /\ asset' = "expired")
        /\ job'.status = job.status
    BY <1>4, <1>t DEF TimeSteps, DeploymentRemoved, PollTime, RuntimeEnds, RetentionEnds, videoVars, rows,
                      JobRecord
  <2>2. UpstreamOwned'
    BY <2>1 DEF Owned, UpstreamOwned
  <2> QED
    BY <1>0, <1>i, <2>1, <2>2 DEF Owned, Alone, MarkedIsGone, ObjectOwned, Removing
<1> QED
  BY <1>1, <1>2, <1>3, <1>4 DEF RemoveSteps, Delete

LEMMA StepOwned == VideoTyped /\ Owned /\ [VideoNext]_videoVars => Owned'
BY Steps, ActorsOwned, OthersOwned

LEMMA InitOwned == VideoInit => Owned
BY DEF VideoInit, Owned, Alone, MarkedIsGone, ObjectOwned, UpstreamOwned, Ingesting, Removing, Idle

\* A provider's job without a row is being created or was lost in a crash or a
\* double failure; and a stored object has a row, or a running step, through
\* which it is removed, whatever store fails when, unless an ingestion ran
\* beside a removal or died before its row (endpoints/videos.ts:249,
\* db/repos/videos.ts:300).
THEOREM NothingLeftBehind == VideoSpec => []NothingOrphaned
<1>1. VideoTyped /\ Owned => NothingOrphaned
  BY DEF VideoTyped, Owned, ObjectOwned, NothingOrphaned, NotOrphaned, Ingesting
<1> QED  BY <1>1, InitVideoTyped, InitOwned, StepVideoTyped, StepOwned, PTL DEF VideoSpec

HIDE VideoAssumption DEF VideoAssumption

-----------------------------------------------------------------------------
(* The operation log.                                                      *)

USE LogAssumption DEF LogAssumption

RowRecord == [state : {"none", "in_progress", "finished", "deleted"},
              outcome : Outcomes \cup {None}, stale : BOOLEAN]

\* The calls a task of a kind may be at.
CallsTyped ==
    \A o \in Operations :
        /\ task[o]["begin"] \in {None, "insert", "set_lease"}
        /\ task[o]["attempt"] \in {None, "start"}
        /\ task[o]["touch"] \in {None, "progress"}
        /\ task[o]["final"] \in {None, "queued", "finish", "upsert", "release"}

Typed == TypeOK /\ CallsTyped
-----------------------------------------------------------------------------
(* What the calls of the tasks do.                                         *)

LEMMA FollowingIs ==
    /\ Following("begin", "insert") = "set_lease"
    /\ Following("begin", "set_lease") = None
    /\ Following("attempt", "start") = None
    /\ Following("touch", "progress") = None
    /\ Following("final", "finish") = "upsert"
    /\ Following("final", "upsert") = "release"
    /\ Following("final", "release") = None
<1>1. CallsOf("begin") = <<"insert", "set_lease">>
  BY DEF CallsOf
<1>2. CallsOf("attempt") = <<"start">> /\ CallsOf("touch") = <<"progress">>
  BY DEF CallsOf
<1>3. CallsOf("final") = <<"finish", "upsert", "release">>
  BY DEF CallsOf
<1>4. /\ Following("begin", "insert") = "set_lease"
      /\ Following("begin", "set_lease") = None
  BY <1>1 DEF Following
<1>5. Following("attempt", "start") = None /\ Following("touch", "progress") = None
  BY <1>2 DEF Following
<1>6. /\ Following("final", "finish") = "upsert"
      /\ Following("final", "upsert") = "release"
      /\ Following("final", "release") = None
  BY <1>3 DEF Following
<1> QED  BY <1>4, <1>5, <1>6

\* The task of o moves to its next call, or ends.
MovesTo(o, k, call) ==
    /\ task' = [task EXCEPT ![o][k] = call]
    /\ IF call = None
       THEN Ends(o, k) /\ tries' = [tries EXCEPT ![o][k] = 0]
       ELSE UNCHANGED <<settled, tries>>

Untouched == UNCHANGED <<request, gone, report, queue, writing, lost, faults, shutdown, audit>>

\* Call(o, k), one form per database call.
Inserts(o) ==
    /\ task[o]["begin"] = "insert" /\ MovesTo(o, "begin", "set_lease")
    /\ Written(o, "insert")
SetsLease(o) ==
    /\ task[o]["begin"] = "set_lease" /\ MovesTo(o, "begin", None)
    /\ Written(o, "set_lease")
Starts(o) ==
    /\ task[o]["attempt"] = "start" /\ MovesTo(o, "attempt", None)
    /\ Written(o, "start")
Progresses(o) ==
    /\ task[o]["touch"] = "progress" /\ MovesTo(o, "touch", None)
    /\ Written(o, "progress")
Finishes(o) ==
    /\ task[o]["final"] = "finish" /\ MovesTo(o, "final", "upsert") /\ o \in settled
    /\ Written(o, "finish")
Upserts(o) ==
    /\ task[o]["final"] = "upsert" /\ MovesTo(o, "final", "release")
    /\ Written(o, "upsert")
Releases(o) ==
    /\ task[o]["final"] = "release" /\ MovesTo(o, "final", None)
    /\ Written(o, "release")

LEMMA CallIs ==
    ASSUME Typed, NEW o \in Operations, NEW k \in Kinds, Call(o, k)
    PROVE  /\ Running /\ Untouched
           /\ \/ Inserts(o) \/ SetsLease(o) \/ Starts(o) \/ Progresses(o)
              \/ Finishes(o) \/ Upserts(o) \/ Releases(o)
<1>1. Running /\ Untouched
  BY DEF Call, Untouched
<1>2. task \in [Operations -> [Kinds -> {None, "insert", "set_lease", "start", "progress",
                                         "finish", "upsert", "release", "queued"}]]
  BY DEF Typed, TypeOK
<1>3. /\ Written(o, task[o][k])
      /\ task[o][k] \notin {None, "queued"} /\ (k = "final" => o \in settled)
      /\ task' = [task EXCEPT ![o][k] = Following(k, task[o][k])]
  BY DEF Call, Ready
<1>4. task'[o][k] = Following(k, task[o][k])
  BY <1>2, <1>3
<1>5. MovesTo(o, k, Following(k, task[o][k]))
  BY <1>3, <1>4 DEF Call, MovesTo
<1>6. CASE k = "begin"
  <2>1. task[o]["begin"] \in {"insert", "set_lease"}
    BY <1>3, <1>6 DEF Typed, CallsTyped
  <2> QED  BY <1>1, <1>3, <1>5, <1>6, <2>1, FollowingIs DEF Inserts, SetsLease
<1>7. CASE k = "attempt"
  <2>1. task[o]["attempt"] = "start"
    BY <1>3, <1>7 DEF Typed, CallsTyped
  <2> QED  BY <1>1, <1>3, <1>5, <1>7, <2>1, FollowingIs DEF Starts
<1>8. CASE k = "touch"
  <2>1. task[o]["touch"] = "progress"
    BY <1>3, <1>8 DEF Typed, CallsTyped
  <2> QED  BY <1>1, <1>3, <1>5, <1>8, <2>1, FollowingIs DEF Progresses
<1>9. CASE k = "final"
  <2>1. task[o]["final"] \in {"finish", "upsert", "release"}
    BY <1>3, <1>9 DEF Typed, CallsTyped
  <2> QED  BY <1>1, <1>3, <1>5, <1>9, <2>1, FollowingIs DEF Finishes, Upserts, Releases
<1> QED  BY <1>6, <1>7, <1>8, <1>9 DEF Kinds
-----------------------------------------------------------------------------
(* Typing.                                                                 *)

LEMMA OutcomeTyped ==
    ASSUME NEW r \in Reports, NEW left
    PROVE  OutcomeOf(r, left) \in Outcomes \ {"abandoned"}
<1>1. /\ r.status \in {"success", "error", "cancelled"}
      /\ r.terminal \in {None, "completed", "incomplete", "blocked"}
  BY DEF Reports
<1> QED  BY <1>1 DEF OutcomeOf, Outcomes


LEMMA RowsTyped ==
    ASSUME TypeOK, NEW o \in Operations
    PROVE  /\ row[o] \in RowRecord
           /\ [row[o] EXCEPT !.state = "in_progress"] \in RowRecord
           /\ [row[o] EXCEPT !.state = "deleted"] \in RowRecord
           /\ [row[o] EXCEPT !.state = "finished", !.outcome = report[o]] \in RowRecord
           /\ [row[o] EXCEPT !.state = "finished", !.outcome = "abandoned"] \in RowRecord
           /\ \A b \in BOOLEAN : [row[o] EXCEPT !.stale = b] \in RowRecord
<1>1. row[o] \in RowRecord /\ report[o] \in Outcomes \cup {None} /\ "abandoned" \in Outcomes
  BY DEF TypeOK, RowRecord, Outcomes
<1> QED  BY <1>1 DEF RowRecord

\* Writing rows of the right type is all that a call does to the stores.
LEMMA WrittenTyped ==
    ASSUME TypeOK, NEW o \in Operations,
           NEW call \in {"insert", "set_lease", "start", "progress", "finish", "upsert", "release"},
           Written(o, call)
    PROVE  /\ row' \in [Operations -> RowRecord]
           /\ attempt' \in [Operations -> Outcomes \cup {None, "in_progress"}]
           /\ lease' \subseteq Operations
<1>s. /\ [row[o] EXCEPT !.state = "in_progress"] \in RowRecord
      /\ [row[o] EXCEPT !.stale = FALSE] \in RowRecord
      /\ [row[o] EXCEPT !.state = "finished", !.outcome = report[o]] \in RowRecord
  BY RowsTyped
<1>t. /\ row \in [Operations -> RowRecord]
      /\ attempt \in [Operations -> Outcomes \cup {None, "in_progress"}]
      /\ lease \subseteq Operations
  BY DEF TypeOK, RowRecord
<1> USE <1>t DEF Written
<1>1. CASE call = "insert"  BY <1>1, <1>s
<1>2. CASE call = "set_lease"  BY <1>2
<1>3. CASE call = "start"  BY <1>3
<1>4. CASE call = "progress"
  <2>1. row' = [row EXCEPT ![o] = [row[o] EXCEPT !.stale = FALSE]] /\ UNCHANGED <<attempt, lease>>
    BY <1>4
  <2> QED  BY <2>1, <1>s
<1>5. CASE call = "finish"
  <2>1. /\ \/ row' = [row EXCEPT ![o] = [row[o] EXCEPT !.state = "finished", !.outcome = report[o]]]
           \/ row' = row
        /\ UNCHANGED <<attempt, lease>>
    BY <1>5
  <2> QED  BY <2>1, <1>s
<1>6. CASE call = "upsert"  BY <1>6 DEF Outcomes
<1>7. CASE call = "release"  BY <1>7
<1> QED  BY <1>1, <1>2, <1>3, <1>4, <1>5, <1>6, <1>7

LEMMA MoveTyped ==
    ASSUME Typed, NEW o \in Operations, NEW k \in Kinds, NEW call, MovesTo(o, k, call),
           \/ k = "begin" /\ call \in {None, "insert", "set_lease"}
           \/ k = "attempt" /\ call \in {None, "start"}
           \/ k = "touch" /\ call \in {None, "progress"}
           \/ k = "final" /\ call \in {None, "finish", "upsert", "release"}
    PROVE  /\ task' \in [Operations -> [Kinds -> {None, "insert", "set_lease", "start", "progress",
                                                  "finish", "upsert", "release", "queued"}]]
           /\ tries' \in [Operations -> [Kinds -> 0..Tries - 1]]
           /\ settled' \subseteq Operations
           /\ CallsTyped'
<1>1. task' = [task EXCEPT ![o][k] = call]
  BY DEF MovesTo
<1>2. /\ task' \in [Operations -> [Kinds -> {None, "insert", "set_lease", "start", "progress",
                                             "finish", "upsert", "release", "queued"}]]
      /\ \A p \in Operations, j \in Kinds :
            task'[p][j] = IF p = o /\ j = k THEN call ELSE task[p][j]
  BY <1>1 DEF Typed, TypeOK
<1>3. CallsTyped'
  BY <1>2 DEF Typed, CallsTyped, Kinds
<1>4. settled' \subseteq Operations
  BY DEF MovesTo, Ends, Typed, TypeOK
<1>5. tries' \in [Operations -> [Kinds -> 0..Tries - 1]]
  <2>1. tries \in [Operations -> [Kinds -> 0..Tries - 1]]
    BY DEF Typed, TypeOK
  <2>2. tries[o][k] \in 0..Tries - 1 /\ 0 \in 0..Tries - 1
    BY <2>1
  <2> QED  BY <2>1, <2>2 DEF MovesTo
<1> QED  BY <1>2, <1>3, <1>4, <1>5

LEMMA CallTyped ==
    ASSUME Typed, NEW o \in Operations, NEW k \in Kinds, Call(o, k)
    PROVE  Typed'
<1>1. Running /\ Untouched
  BY CallIs
<1>2. ASSUME NEW j \in Kinds, NEW next, MovesTo(o, j, next),
             \/ j = "begin" /\ next \in {None, "insert", "set_lease"}
             \/ j = "attempt" /\ next \in {None, "start"}
             \/ j = "touch" /\ next \in {None, "progress"}
             \/ j = "final" /\ next \in {None, "finish", "upsert", "release"},
             NEW call \in {"insert", "set_lease", "start", "progress", "finish", "upsert", "release"},
             Written(o, call)
      PROVE  Typed'
  <2>1. /\ row' \in [Operations -> RowRecord]
        /\ attempt' \in [Operations -> Outcomes \cup {None, "in_progress"}]
        /\ lease' \subseteq Operations
    BY <1>2, WrittenTyped DEF Typed
  <2>2. /\ task' \in [Operations -> [Kinds -> {None, "insert", "set_lease", "start", "progress",
                                               "finish", "upsert", "release", "queued"}]]
        /\ tries' \in [Operations -> [Kinds -> 0..Tries - 1]]
        /\ settled' \subseteq Operations
        /\ CallsTyped'
    BY <1>2, MoveTyped
  <2> QED  BY <1>1, <2>1, <2>2 DEF Typed, TypeOK, RowRecord, Untouched, shutdown, Promises
<1>3. CASE Inserts(o) \/ SetsLease(o)  BY <1>2, <1>3 DEF Inserts, SetsLease, Kinds
<1>4. CASE Starts(o) \/ Progresses(o)  BY <1>2, <1>4 DEF Starts, Progresses, Kinds
<1>5. CASE Finishes(o) \/ Upserts(o) \/ Releases(o)
  BY <1>2, <1>5 DEF Finishes, Upserts, Releases, Kinds
<1> QED  BY <1>3, <1>4, <1>5, CallIs

LEMMA CallFailsTyped ==
    ASSUME Typed, NEW o \in Operations, NEW k \in Kinds, CallFails(o, k)
    PROVE  Typed'
<1>1. Head(CallsOf(k)) = CASE k = "begin" -> "insert"
                           [] k = "attempt" -> "start"
                           [] k = "touch" -> "progress"
                           [] k = "final" -> "finish"
  BY DEF CallsOf, Kinds
<1>2. PICK call : /\ task' = [task EXCEPT ![o][k] = call]
                  /\ \/ k = "begin" /\ call \in {None, "insert", "set_lease"}
                     \/ k = "attempt" /\ call \in {None, "start"}
                     \/ k = "touch" /\ call \in {None, "progress"}
                     \/ k = "final" /\ call \in {None, "finish", "upsert", "release"}
  BY <1>1 DEF CallFails, Kinds
<1>3. /\ task' \in [Operations -> [Kinds -> {None, "insert", "set_lease", "start", "progress",
                                             "finish", "upsert", "release", "queued"}]]
      /\ \A p \in Operations, j \in Kinds :
            task'[p][j] = IF p = o /\ j = k THEN call ELSE task[p][j]
  BY <1>2 DEF Typed, TypeOK
<1>4. CallsTyped'
  BY <1>2, <1>3 DEF Typed, CallsTyped, Kinds
<1>5. tries' \in [Operations -> [Kinds -> 0..Tries - 1]]
  <2>1. tries \in [Operations -> [Kinds -> 0..Tries - 1]]
    BY DEF Typed, TypeOK
  <2>2. tries[o][k] \in 0..Tries - 1 /\ 0 \in 0..Tries - 1
    BY <2>1
  <2>3. tries[o][k] + 1 < Tries => tries[o][k] + 1 \in 0..Tries - 1
    BY <2>2
  <2>4. PICK n \in 0..Tries - 1 : tries' = [tries EXCEPT ![o][k] = n]
    BY <2>1, <2>2, <2>3 DEF CallFails
  <2> QED  BY <2>1, <2>4
<1>6. settled' \subseteq Operations /\ lost' \subseteq Operations /\ faults' \in 0..MaxFaults
  BY DEF CallFails, Ends, Typed, TypeOK
<1>7. UNCHANGED <<database, request, gone, report, queue, writing, shutdown, audit>>
  BY DEF CallFails
<1> QED
  BY <1>3, <1>4, <1>5, <1>6, <1>7 DEF Typed, TypeOK, database, shutdown, Promises

\* The actions of a request's draft.
LEMMA ServeTyped ==
    ASSUME Typed, NEW o \in Operations, Serve(o)
    PROVE  Typed'
<1>q. LET Tasks == [Operations -> [Kinds -> {None, "insert", "set_lease", "start", "progress",
                                             "finish", "upsert", "release", "queued"}]]
      IN task \in Tasks /\ [task EXCEPT ![o]["final"] = "queued"] \in Tasks
  BY DEF Typed, TypeOK, Kinds
<1> USE DEF Typed, CallsTyped, TypeOK, database, tasks, shutdown, Promises, Kinds
<1>1. CASE Open(o)  BY <1>1 DEF Open
<1>2. CASE BeginAttempt(o)  BY <1>2 DEF BeginAttempt
<1>3. CASE Touch(o)  BY <1>3 DEF Touch
<1>4. CASE ClientLeaves(o)  BY <1>4 DEF ClientLeaves
<1>5. CASE Return(o)  BY <1>5 DEF Return
<1>6. ASSUME NEW r \in Reports, Report(o, r) PROVE Typed'
  <2>1. OutcomeOf(r, o \in gone) \in Outcomes
    BY OutcomeTyped
  <2>2. report' \in [Operations -> Outcomes \cup {None}]
    BY <1>6, <2>1 DEF Report
  <2>3. queue' \in Seq(Operations \cup {None}) /\ Len(queue') <= QueueLimit
    <3>1. ~Full => /\ Append(queue, o) \in Seq(Operations \cup {None})
                   /\ Len(Append(queue, o)) <= QueueLimit
      BY AppendProperties DEF Full
    <3>2. queue' = IF Full THEN queue ELSE Append(queue, o)
      BY <1>6 DEF Report
    <3> QED  BY <3>1, <3>2
  <2>4. /\ task' \in [Operations -> [Kinds -> {None, "insert", "set_lease", "start", "progress",
                                               "finish", "upsert", "release", "queued"}]]
        /\ CallsTyped'
    <3>1. task' = task \/ task' = [task EXCEPT ![o]["final"] = "queued"]
      BY <1>6 DEF Report
    <3>2. \A p \in Operations, k \in Kinds :
            task'[p][k] = task[p][k] \/ (p = o /\ k = "final" /\ task'[p][k] = "queued")
      BY <3>1
    <3>3. CallsTyped'
      BY <3>2
    <3>4. task' \in [Operations -> [Kinds -> {None, "insert", "set_lease", "start", "progress",
                                             "finish", "upsert", "release", "queued"}]]
      BY <3>1, <1>q
    <3> QED  BY <3>3, <3>4
  <2>5. lost' \subseteq Operations
    BY <1>6 DEF Report
  <2>6. UNCHANGED <<database, request, gone, tries, settled, writing, faults, shutdown, audit>>
    BY <1>6 DEF Report
  <2> QED  BY <2>2, <2>3, <2>4, <2>5, <2>6
<1> QED  BY <1>1, <1>2, <1>3, <1>4, <1>5, <1>6 DEF Serve

LEMMA WorkTyped ==
    ASSUME Typed, Work
    PROVE  Typed'
<1> USE DEF Typed, CallsTyped, TypeOK, database, tasks, shutdown, Promises, Kinds
<1>1. CASE Drain
  <2> DEFINE n == IF Len(queue) < BatchSize THEN Len(queue) ELSE BatchSize
             batch == {queue[i] : i \in 1..n}
  <2>1. /\ queue' = SubSeq(queue, n + 1, Len(queue))
        /\ writing' = (None \in batch)
        /\ task' = [o \in Operations |->
                      IF o \in batch THEN [task[o] EXCEPT !["final"] = "finish"] ELSE task[o]]
    BY <1>1 DEF Drain
  <2>2. UNCHANGED <<database, request, gone, report, tries, settled, lost, faults, shutdown, audit>>
    BY <1>1 DEF Drain
  <2>3. Len(queue) \in Nat /\ n \in Nat /\ n <= Len(queue)
    OBVIOUS
  <2>4. \A i \in n + 1..Len(queue) : queue[i] \in Operations \cup {None}
    BY <2>3
  <2>5. /\ SubSeq(queue, n + 1, Len(queue)) \in Seq(Operations \cup {None})
        /\ Len(SubSeq(queue, n + 1, Len(queue))) <= Len(queue)
    BY <2>3, <2>4, SubSeqProperties
  <2>6. queue' \in Seq(Operations \cup {None}) /\ Len(queue') <= QueueLimit
    BY <2>1, <2>3, <2>5
  <2> HIDE DEF batch
  <2> QED  BY <2>1, <2>2, <2>6
<1>2. CASE OtherReports
  <2>1. queue' \in Seq(Operations \cup {None}) /\ Len(queue') <= QueueLimit
    BY <1>2, AppendProperties DEF OtherReports, Full
  <2>2. UNCHANGED <<database, request, gone, report, task, tries, settled, writing, lost, faults,
                    shutdown, audit>>
    BY <1>2 DEF OtherReports
  <2> QED  BY <2>1, <2>2
<1>3. CASE OtherWritten  BY <1>3 DEF OtherWritten
<1> HIDE DEF Typed
<1>4. CASE \E o \in Operations, k \in Kinds : Call(o, k)
  BY <1>4, CallTyped
<1> QED  BY <1>1, <1>2, <1>3, <1>4 DEF Work

LEMMA StopTyped ==
    ASSUME Typed, Stop
    PROVE  Typed'
<1> USE DEF Typed, CallsTyped, TypeOK, database, tasks, shutdown, Promises, Kinds
<1>1. CASE Signal  BY <1>1 DEF Signal
<1>2. CASE DeadlinePasses  BY <1>2 DEF DeadlinePasses
<1>3. CASE Drained  BY <1>3 DEF Drained, Pending
<1>4. CASE Flushed  BY <1>4 DEF Flushed
<1>5. CASE Vanishes
  <2>1. 0 \in 0..Tries - 1
    OBVIOUS
  <2>2. tries' \in [Operations -> [Kinds -> 0..Tries - 1]]
    BY <1>5, <2>1 DEF Vanishes
  <2>3. queue' \in Seq(Operations \cup {None}) /\ Len(queue') <= QueueLimit
    BY <1>5 DEF Vanishes
  <2> QED  BY <1>5, <2>2, <2>3 DEF Vanishes
<1> QED  BY <1>1, <1>2, <1>3, <1>4, <1>5 DEF Stop, Exit, Killed

LEMMA RestTyped ==
    ASSUME Typed,
           \/ Audit \/ AuditDies \/ UNCHANGED vars
           \/ \E o \in Operations : GoesStale(o) \/ LeaseExpires(o) \/ LeaseLost(o) \/ Expire(o)
    PROVE  Typed'
<1> USE DEF Typed, CallsTyped, TypeOK, database, tasks, shutdown, Promises, Kinds
<1>1. CASE AuditRows  BY <1>1 DEF AuditRows
<1>2. CASE AuditLeases  BY <1>2 DEF AuditLeases
<1>3. CASE Abandon
  <2>1. \A o \in Operations :
          [row[o] EXCEPT !.state = "finished", !.outcome = "abandoned"] \in RowRecord
    BY RowsTyped
  <2>2. row' = [o \in Operations |->
                  IF o \in Abandoned
                  THEN [row[o] EXCEPT !.state = "finished", !.outcome = "abandoned"] ELSE row[o]]
    BY <1>3 DEF Abandon
  <2>3. row' \in [Operations -> RowRecord]
    BY <2>1, <2>2, RowsTyped
  <2>4. audit' \in [step : {"idle", "leases", "update", "attempts"}, ids : SUBSET Operations]
    BY <1>3 DEF Abandon, Abandoned
  <2>5. UNCHANGED <<attempt, lease, request, gone, report, tasks, faults, shutdown>>
    BY <1>3 DEF Abandon
  <2> QED  BY <2>3, <2>4, <2>5 DEF RowRecord
<1>4. CASE AbandonAttempts  BY <1>4 DEF AbandonAttempts, Outcomes
<1>5. CASE AuditDies  BY <1>5 DEF AuditDies
<1>6. ASSUME NEW o \in Operations, GoesStale(o) PROVE Typed'
  <2>1. row' = [row EXCEPT ![o] = [row[o] EXCEPT !.stale = TRUE]]
    BY <1>6 DEF GoesStale
  <2>2. row' \in [Operations -> RowRecord]
    BY <2>1, RowsTyped
  <2>3. UNCHANGED <<attempt, lease, request, gone, report, tasks, faults, shutdown, audit>>
    BY <1>6 DEF GoesStale
  <2> QED  BY <2>2, <2>3 DEF RowRecord
<1>7. ASSUME NEW o \in Operations, LeaseExpires(o) \/ LeaseLost(o) PROVE Typed'
  <2>1. lease' \subseteq Operations /\ faults' \in 0..MaxFaults
    BY <1>7 DEF LeaseExpires, LeaseLost
  <2>2. UNCHANGED <<row, attempt, request, gone, report, tasks, shutdown, audit>>
    BY <1>7 DEF LeaseExpires, LeaseLost
  <2> QED  BY <2>1, <2>2
<1>8. ASSUME NEW o \in Operations, Expire(o) PROVE Typed'
  <2>1. /\ row' = [row EXCEPT ![o] = [row[o] EXCEPT !.state = "deleted"]]
        /\ attempt' = [attempt EXCEPT ![o] = None]
    BY <1>8 DEF Expire
  <2>2. row' \in [Operations -> RowRecord]
    BY <2>1, RowsTyped
  <2>3. UNCHANGED <<lease, request, gone, report, tasks, faults, shutdown, audit>>
    BY <1>8 DEF Expire
  <2> QED  BY <2>1, <2>2, <2>3 DEF RowRecord
<1>9. CASE UNCHANGED vars  BY <1>9 DEF vars
<1> QED  BY <1>1, <1>2, <1>3, <1>4, <1>5, <1>6, <1>7, <1>8, <1>9 DEF Audit

LEMMA StepTyped == Typed /\ [Next]_vars => Typed'
BY ServeTyped, WorkTyped, StopTyped, RestTyped, CallFailsTyped DEF Next

LEMMA InitTyped == Init => Typed
<1> SUFFICES ASSUME Init PROVE Typed
  OBVIOUS
<1>1. 0 \in 0..Tries - 1
  OBVIOUS
<1>2. tries \in [Operations -> [Kinds -> 0..Tries - 1]]
  BY <1>1 DEF Init
<1>3. queue \in Seq(Operations \cup {None}) /\ Len(queue) <= QueueLimit
  BY DEF Init
<1>4. row \in [Operations -> RowRecord]
  BY DEF Init, RowRecord
<1>5. task \in [Operations -> [Kinds -> {None}]]
  BY DEF Init
<1>6. CallsTyped
  BY DEF Init, CallsTyped, Kinds
<1>7. /\ report \in [Operations -> Outcomes \cup {None}]
      /\ attempt \in [Operations -> Outcomes \cup {None, "in_progress"}]
      /\ faults \in 0..MaxFaults
  BY DEF Init
<1> QED  BY <1>2, <1>3, <1>4, <1>5, <1>6, <1>7 DEF Init, Typed, TypeOK, RowRecord

\* Rows, leases, tasks and the shutdown keep their types, and the finalization
\* queue its limit (operations.ts, shutdown.ts).
THEOREM TypeCorrect == Spec => []TypeOK
<1>1. Typed => TypeOK
  BY DEF Typed
<1> QED  BY <1>1, InitTyped, StepTyped, PTL DEF Spec
-----------------------------------------------------------------------------
(* The inductive invariant.                                                *)

\* What a row holds was reported, or is the reconciler's verdict.
ReportsKept ==
    \A o \in Operations :
        /\ report[o] # "abandoned"
        /\ row[o].outcome \notin {None, "abandoned"} => row[o].outcome = report[o]

\* Whoever is stale or audited began long ago, and takes no lease any more.
Begun ==
    \A o \in Operations :
        /\ task[o]["begin"] # None \/ row[o].state # "none" => request[o] # "idle"
        /\ o \in audit.ids \/ row[o].stale => request[o] # "idle" /\ task[o]["begin"] = None

UpdatesUnleased == audit.step = "update" => audit.ids \cap lease = {}

\* A report is written, counted as lost, or on its way to a row that exists.
RowsBegun ==
    Running => \A o \in Operations :
        /\ row[o].state # "deleted"
        /\ task[o]["begin"] = "set_lease" \/ (o \in settled /\ o \notin lost) => row[o].state # "none"

ReportsTravel ==
    Running => \A o \in Operations :
        report[o] # None => \/ o \in lost \/ row[o].outcome = report[o]
                            \/ task[o]["final"] \in {"queued", "finish"}

\* The flush waits for every report that is owed and not yet written.
FlushCovers ==
    /\ stage \in {"flush", "close"} => \A o \in owed : report[o] # None
    /\ stage = "flush" =>
          \A o \in owed : <<o, "final">> \in awaited \/ o \in lost \/ row[o].outcome = report[o]
    /\ stage = "close" /\ ~late => \A o \in owed : row[o].outcome = report[o] \/ o \in lost

\* The outcomes and reports after a step: a first report, a finalization that
\* writes it, an abandonment of rows without outcome, or nothing of these.
Reporting(o) ==
    /\ report[o] = None
    /\ \E outcome \in Outcomes \ {"abandoned"} : report' = [report EXCEPT ![o] = outcome]
    /\ UNCHANGED <<row, lost>> \/ (row' = row /\ lost' = lost \cup {o})
Finishing(o) ==
    /\ \A p \in Operations \ {o} : row'[p] = row[p]
    /\ row'[o].outcome \in {row[o].outcome, report[o]}
    /\ report' = report
Abandoning ==
    /\ audit.step = "update" /\ report' = report
    /\ \A o \in Operations :
          \/ row'[o].outcome = row[o].outcome
          \/ o \in audit.ids /\ row[o].outcome = None /\ row'[o].outcome = "abandoned"
OutcomesStay ==
    report' = report /\ \A o \in Operations : row'[o].outcome = row[o].outcome

LEMMA CallOutcomes ==
    ASSUME Typed, NEW o \in Operations, NEW k \in Kinds, Call(o, k)
    PROVE  Finishing(o) \/ OutcomesStay
<1>1. report' = report /\ row \in [Operations -> RowRecord]
  BY CallIs DEF Untouched, Typed, TypeOK, RowRecord
<1>2. CASE Finishes(o)
  <2>1. row' = row \/ row' = [row EXCEPT ![o] = [row[o] EXCEPT !.state = "finished", !.outcome = report[o]]]
    BY <1>2 DEF Finishes, Written
  <2>2. [row[o] EXCEPT !.state = "finished", !.outcome = report[o]].outcome = report[o]
    BY <1>1 DEF RowRecord
  <2>3. \A p \in Operations \ {o} : row'[p] = row[p]
    BY <1>1, <2>1
  <2>4. row'[o].outcome \in {row[o].outcome, report[o]}
    BY <1>1, <2>1, <2>2
  <2> QED  BY <1>1, <2>3, <2>4 DEF Finishing
<1>3. CASE Inserts(o)
  <2>1. row' = row \/ row' = [row EXCEPT ![o] = [row[o] EXCEPT !.state = "in_progress"]]
    BY <1>3 DEF Inserts, Written
  <2> QED  BY <1>1, <2>1 DEF OutcomesStay, RowRecord
<1>4. CASE Progresses(o)
  <2>1. row' = [row EXCEPT ![o] = [row[o] EXCEPT !.stale = FALSE]]
    BY <1>4 DEF Progresses, Written
  <2> QED  BY <1>1, <2>1 DEF OutcomesStay, RowRecord
<1>5. CASE SetsLease(o) \/ Starts(o) \/ Upserts(o) \/ Releases(o)
  <2>1. row' = row
    BY <1>5 DEF SetsLease, Starts, Upserts, Releases, Written
  <2> QED  BY <1>1, <2>1 DEF OutcomesStay
<1> QED  BY <1>2, <1>3, <1>4, <1>5, CallIs

LEMMA ReportOutcomes ==
    ASSUME Typed, NEW o \in Operations, NEW r \in Reports, Report(o, r)
    PROVE  Reporting(o)
BY OutcomeTyped DEF Report, Reporting, database

LEMMA RestOutcomes ==
    ASSUME Typed,
           \/ Audit \/ AuditDies
           \/ \E o \in Operations : GoesStale(o) \/ LeaseExpires(o) \/ LeaseLost(o) \/ Expire(o)
    PROVE  Abandoning \/ OutcomesStay
<1>1. row \in [Operations -> RowRecord] /\ audit.ids \subseteq Operations
  BY DEF Typed, TypeOK, RowRecord
<1>2. CASE Abandon
  <2>1. row' = [o \in Operations |->
                  IF o \in Abandoned
                  THEN [row[o] EXCEPT !.state = "finished", !.outcome = "abandoned"] ELSE row[o]]
    BY <1>2 DEF Abandon
  <2>2. \A o \in Operations :
           \/ row'[o] = row[o]
           \/ o \in Abandoned /\ row'[o].outcome = "abandoned"
    <3> SUFFICES ASSUME NEW o \in Operations
                 PROVE  \/ row'[o] = row[o]
                        \/ o \in Abandoned /\ row'[o].outcome = "abandoned"
      OBVIOUS
    <3>1. row'[o] = IF o \in Abandoned
                    THEN [row[o] EXCEPT !.state = "finished", !.outcome = "abandoned"] ELSE row[o]
      BY <2>1
    <3>2. [row[o] EXCEPT !.state = "finished", !.outcome = "abandoned"].outcome = "abandoned"
      BY <1>1 DEF RowRecord
    <3> QED  BY <3>1, <3>2
  <2>3. report' = report /\ audit.step = "update"
    BY <1>2 DEF Abandon
  <2> QED  BY <2>2, <2>3 DEF Abandoning, Abandoned, Unsettled
<1>3. CASE AuditRows \/ AuditLeases \/ AbandonAttempts \/ AuditDies
  BY <1>3 DEF AuditRows, AuditLeases, AbandonAttempts, AuditDies, OutcomesStay, database
<1>4. ASSUME NEW o \in Operations, GoesStale(o) PROVE OutcomesStay
  <2>1. row' = [row EXCEPT ![o] = [row[o] EXCEPT !.stale = TRUE]] /\ report' = report
    BY <1>4 DEF GoesStale
  <2> QED  BY <1>1, <2>1 DEF OutcomesStay, RowRecord
<1>5. ASSUME NEW o \in Operations, Expire(o) PROVE OutcomesStay
  <2>1. row' = [row EXCEPT ![o] = [row[o] EXCEPT !.state = "deleted"]] /\ report' = report
    BY <1>5 DEF Expire
  <2> QED  BY <1>1, <2>1 DEF OutcomesStay, RowRecord
<1>6. ASSUME NEW o \in Operations, LeaseExpires(o) \/ LeaseLost(o) PROVE OutcomesStay
  BY <1>6 DEF LeaseExpires, LeaseLost, OutcomesStay
<1> QED  BY <1>2, <1>3, <1>4, <1>5, <1>6 DEF Audit

\* What any step does to reports and outcomes.
LEMMA StepOutcomes ==
    ASSUME Typed, [Next]_vars
    PROVE  \/ \E o \in Operations : Reporting(o) \/ Finishing(o)
           \/ Abandoning \/ OutcomesStay
<1>1. ASSUME NEW o \in Operations,
             Open(o) \/ BeginAttempt(o) \/ Touch(o) \/ ClientLeaves(o) \/ Return(o)
      PROVE  OutcomesStay
  BY <1>1 DEF Open, BeginAttempt, Touch, ClientLeaves, Return, OutcomesStay, database
<1>2. CASE Drain \/ OtherReports \/ OtherWritten
  BY <1>2 DEF Drain, OtherReports, OtherWritten, OutcomesStay, database
<1>3. CASE Stop
  BY <1>3 DEF Stop, Signal, DeadlinePasses, Drained, Flushed, Exit, Killed, Vanishes, OutcomesStay,
              database
<1>4. ASSUME NEW o \in Operations, NEW k \in Kinds, CallFails(o, k) PROVE OutcomesStay
  BY <1>4 DEF CallFails, OutcomesStay, database
<1>5. CASE UNCHANGED vars
  BY <1>5 DEF vars, OutcomesStay, database
<1> QED
  BY <1>1, <1>2, <1>3, <1>4, <1>5, CallOutcomes, ReportOutcomes, RestOutcomes
  DEF Next, Serve, Work

LEMMA StepReportsKept ==
    ASSUME Typed, ReportsKept, [Next]_vars
    PROVE  ReportsKept'
<1>s. \/ \E o \in Operations : Reporting(o) \/ Finishing(o)
      \/ Abandoning \/ OutcomesStay
  BY StepOutcomes
<1> USE DEF Typed, TypeOK, ReportsKept
<1>1. ASSUME NEW o \in Operations, Reporting(o) PROVE ReportsKept'
  <2>1. row[o].outcome \in {None, "abandoned"} /\ row' = row
    BY <1>1 DEF Reporting
  <2> QED  BY <1>1, <2>1 DEF Reporting
<1>2. ASSUME NEW o \in Operations, Finishing(o) PROVE ReportsKept'
  BY <1>2 DEF Finishing
<1>3. CASE Abandoning  BY <1>3 DEF Abandoning
<1>4. CASE OutcomesStay  BY <1>4 DEF OutcomesStay
<1> QED  BY <1>1, <1>2, <1>3, <1>4, <1>s

LEMMA InitReportsKept == Init => ReportsKept
BY DEF Init, ReportsKept, Outcomes

\* For any number of retries, finalizations, reports and abandonments: an
\* outcome other than "abandoned" never changes, and it is the one that was
\* reported first (operations.ts:467, :815).
THEOREM FirstReportWins == Spec => FirstReportStays
<1>1. ASSUME Typed, ReportsKept, [Next]_vars
      PROVE  \A o \in Operations :
                /\ row[o].outcome \notin {None, "abandoned"} => row'[o].outcome = row[o].outcome
                /\ row'[o].outcome \notin {None, "abandoned"} => row'[o].outcome = report[o]
  <2> USE DEF Typed, TypeOK, ReportsKept
  <2>1. ASSUME NEW o \in Operations, Reporting(o) PROVE row' = row
    BY <2>1 DEF Reporting
  <2> QED  BY <1>1, <2>1, StepOutcomes DEF Finishing, Abandoning, OutcomesStay
<1> QED
  BY <1>1, InitTyped, InitReportsKept, StepTyped, StepReportsKept, PTL DEF Spec, FirstReportStays
-----------------------------------------------------------------------------
(* The reconciler.                                                         *)

\* An operation begins once, and only what exists and has begun goes stale
\* or is audited.
BeginsLawfully(o) ==
    /\ request[o] # "idle" => request'[o] # "idle"
    /\ task'[o]["begin"] # None =>
          task[o]["begin"] # None \/ (request[o] = "idle" /\ request'[o] # "idle")
    /\ row'[o].state # "none" => row[o].state # "none" \/ task[o]["begin"] # None
    /\ o \in audit'.ids \/ row'[o].stale =>
          o \in audit.ids \/ row[o].stale \/ (row[o].state # "none" /\ task[o]["begin"] = None)

LEMMA ServeBegins ==
    ASSUME Typed, NEW p \in Operations, Serve(p), NEW o \in Operations
    PROVE  BeginsLawfully(o)
<1>1. /\ task \in [Operations -> [Kinds -> {None, "insert", "set_lease", "start", "progress",
                                            "finish", "upsert", "release", "queued"}]]
      /\ request \in [Operations -> {"idle", "open", "closed"}]
  BY DEF Typed, TypeOK
<1>2. row' = row /\ audit' = audit
  BY DEF Serve, Open, BeginAttempt, Touch, ClientLeaves, Return, Report, database
<1>3. request'[o] = request[o] \/ request'[o] # "idle"
  BY <1>1 DEF Serve, Open, BeginAttempt, Touch, ClientLeaves, Return, Report
<1>4. \/ task'[o]["begin"] = task[o]["begin"]
      \/ request[o] = "idle" /\ request'[o] # "idle"
  <2>1. CASE Open(p)  BY <1>1, <2>1 DEF Open, Kinds
  <2>2. CASE BeginAttempt(p)  BY <1>1, <2>2 DEF BeginAttempt, Kinds
  <2>3. CASE Touch(p)  BY <1>1, <2>3 DEF Touch, Kinds
  <2>4. CASE ClientLeaves(p) \/ Return(p)  BY <2>4 DEF ClientLeaves, Return, tasks
  <2>5. CASE \E r \in Reports : Report(p, r)
    <3>1. task' = task \/ task' = [task EXCEPT ![p]["final"] = "queued"]
      BY <2>5 DEF Report
    <3> QED  BY <1>1, <3>1 DEF Kinds
  <2> QED  BY <2>1, <2>2, <2>3, <2>4, <2>5 DEF Serve
<1> QED  BY <1>2, <1>3, <1>4 DEF BeginsLawfully

LEMMA CallBegins ==
    ASSUME Typed, NEW p \in Operations, NEW k \in Kinds, Call(p, k), NEW o \in Operations
    PROVE  BeginsLawfully(o)
<1>1. /\ task \in [Operations -> [Kinds -> {None, "insert", "set_lease", "start", "progress",
                                            "finish", "upsert", "release", "queued"}]]
      /\ row \in [Operations -> RowRecord]
  BY DEF Typed, TypeOK, RowRecord
<1>2. request' = request /\ audit' = audit
  BY CallIs DEF Untouched
<1>3. CASE Inserts(p)
  <2>1. \/ row' = row
        \/ row' = [row EXCEPT ![p] = [row[p] EXCEPT !.state = "in_progress"]]
    BY <1>3 DEF Inserts, Written
  <2>2. task[p]["begin"] # None /\ task' = [task EXCEPT ![p]["begin"] = "set_lease"]
    BY <1>3 DEF Inserts, MovesTo
  <2>3. row'[o] = row[o] \/ (o = p /\ row'[o].stale = row[o].stale)
    BY <1>1, <2>1 DEF RowRecord
  <2>4. task'[o]["begin"] = task[o]["begin"] \/ o = p
    BY <1>1, <2>2 DEF Kinds
  <2> QED  BY <1>2, <2>2, <2>3, <2>4 DEF BeginsLawfully
<1>4. CASE SetsLease(p)
  <2>1. row' = row /\ task' = [task EXCEPT ![p]["begin"] = None]
    BY <1>4 DEF SetsLease, MovesTo, Written
  <2> QED  BY <1>1, <1>2, <2>1 DEF BeginsLawfully, Kinds
<1>5. CASE Starts(p) \/ Progresses(p) \/ Finishes(p) \/ Upserts(p) \/ Releases(p)
  <2>1. task'[o]["begin"] = task[o]["begin"]
    BY <1>1, <1>5 DEF Starts, Progresses, Finishes, Upserts, Releases, MovesTo, Kinds
  <2>2. \/ row' = row
        \/ row' = [row EXCEPT ![p] = [row[p] EXCEPT !.stale = FALSE]]
        \/ /\ row[p].state \in {"in_progress", "finished"}
           /\ row' = [row EXCEPT ![p] = [row[p] EXCEPT !.state = "finished", !.outcome = report[p]]]
    BY <1>5 DEF Starts, Progresses, Finishes, Upserts, Releases, Written
  <2>3. /\ row'[o].state # "none" => row[o].state # "none"
        /\ row'[o].stale => row[o].stale
    <3>1. /\ [row[p] EXCEPT !.stale = FALSE].state = row[p].state
          /\ [row[p] EXCEPT !.stale = FALSE].stale = FALSE
          /\ [row[p] EXCEPT !.state = "finished", !.outcome = report[p]].stale = row[p].stale
      BY <1>1 DEF RowRecord
    <3> QED  BY <1>1, <2>2, <3>1
  <2> QED  BY <1>2, <2>1, <2>3 DEF BeginsLawfully
<1> QED  BY <1>3, <1>4, <1>5, CallIs

LEMMA WorkBegins ==
    ASSUME Typed, Work, NEW o \in Operations
    PROVE  BeginsLawfully(o)
<1>1. CASE Drain
  <2>1. task'[o] = task[o] \/ task'[o] = [task[o] EXCEPT !["final"] = "finish"]
    BY <1>1 DEF Drain
  <2>2. task'[o]["begin"] = task[o]["begin"]
    BY <2>1 DEF Typed, TypeOK, Kinds
  <2>3. UNCHANGED <<row, request, audit>>
    BY <1>1 DEF Drain, database
  <2> QED  BY <2>2, <2>3 DEF BeginsLawfully
<1>2. CASE OtherReports \/ OtherWritten
  BY <1>2 DEF OtherReports, OtherWritten, database, BeginsLawfully
<1> QED  BY <1>1, <1>2, CallBegins DEF Work

LEMMA CallFailsBegins ==
    ASSUME Typed, NEW p \in Operations, NEW k \in Kinds, CallFails(p, k), NEW o \in Operations
    PROVE  BeginsLawfully(o)
<1>1. task \in [Operations -> [Kinds -> {None, "insert", "set_lease", "start", "progress",
                                         "finish", "upsert", "release", "queued"}]]
  BY DEF Typed, TypeOK
<1>2. /\ task[p][k] # None
      /\ \E call : task' = [task EXCEPT ![p][k] = call]
      /\ UNCHANGED <<row, request, audit>>
  BY DEF CallFails, Ready, database
<1>3. task'[o]["begin"] = task[o]["begin"] \/ task[o]["begin"] # None
  BY <1>1, <1>2 DEF Kinds
<1> QED  BY <1>2, <1>3 DEF BeginsLawfully

LEMMA StopBegins ==
    ASSUME Typed, Stop, NEW o \in Operations
    PROVE  BeginsLawfully(o)
<1>1. UNCHANGED <<row, audit>>
  BY DEF Stop, Signal, DeadlinePasses, Drained, Flushed, Exit, Killed, Vanishes, database
<1>2. request' = request \/ request'[o] = "closed"
  BY DEF Stop, Signal, DeadlinePasses, Drained, Flushed, Exit, Killed, Vanishes
<1>3. task' = task \/ task'[o]["begin"] = None
  BY DEF Stop, Signal, DeadlinePasses, Drained, Flushed, Exit, Killed, Vanishes, tasks, Kinds
<1> QED  BY <1>1, <1>2, <1>3 DEF BeginsLawfully

LEMMA RestBegins ==
    ASSUME Typed,
           \/ Audit \/ AuditDies
           \/ \E p \in Operations : GoesStale(p) \/ LeaseExpires(p) \/ LeaseLost(p) \/ Expire(p),
           NEW o \in Operations
    PROVE  BeginsLawfully(o)
<1>1. row \in [Operations -> RowRecord]
  BY DEF Typed, TypeOK, RowRecord
<1>2. UNCHANGED <<task, request>>
  BY DEF Audit, AuditRows, AuditLeases, Abandon, AbandonAttempts, AuditDies, GoesStale,
         LeaseExpires, LeaseLost, Expire, tasks
<1>3. CASE AuditRows \/ AuditLeases \/ AbandonAttempts \/ AuditDies
  <2>1. row' = row
    BY <1>3 DEF AuditRows, AuditLeases, AbandonAttempts, AuditDies, database
  <2>2. o \in audit'.ids => o \in audit.ids \/ row[o].stale
    BY <1>3 DEF AuditRows, AuditLeases, AbandonAttempts, AuditDies, Typed, TypeOK
  <2> QED  BY <1>2, <2>1, <2>2 DEF BeginsLawfully
<1>4. CASE Abandon
  <2>1. row'[o] = IF o \in Abandoned
                  THEN [row[o] EXCEPT !.state = "finished", !.outcome = "abandoned"] ELSE row[o]
    BY <1>4 DEF Abandon
  <2>2. [row[o] EXCEPT !.state = "finished", !.outcome = "abandoned"].stale = row[o].stale
    BY <1>1 DEF RowRecord
  <2>3. o \in Abandoned => o \in audit.ids /\ row[o].state # "none"
    BY DEF Abandoned, Unsettled
  <2>4. o \in audit'.ids => o \in audit.ids
    BY <1>4 DEF Abandon, Abandoned
  <2> QED  BY <1>2, <2>1, <2>2, <2>3, <2>4 DEF BeginsLawfully
<1>5. ASSUME NEW p \in Operations, GoesStale(p) PROVE BeginsLawfully(o)
  <2>1. /\ row[p].state = "in_progress" /\ task[p]["begin"] = None /\ audit' = audit
        /\ row' = [row EXCEPT ![p] = [row[p] EXCEPT !.stale = TRUE]]
    BY <1>5 DEF GoesStale
  <2>2. row'[o] = row[o] \/ (o = p /\ row'[o].state = row[o].state)
    BY <1>1, <2>1 DEF RowRecord
  <2> QED  BY <1>2, <2>1, <2>2 DEF BeginsLawfully
<1>6. ASSUME NEW p \in Operations, Expire(p) PROVE BeginsLawfully(o)
  <2>1. /\ row[p].state = "finished" /\ audit' = audit
        /\ row' = [row EXCEPT ![p] = [row[p] EXCEPT !.state = "deleted"]]
    BY <1>6 DEF Expire
  <2>2. row'[o].stale = row[o].stale /\ (row'[o].state # "none" => row[o].state # "none")
    BY <1>1, <2>1 DEF RowRecord
  <2> QED  BY <1>2, <2>1, <2>2 DEF BeginsLawfully
<1>7. ASSUME NEW p \in Operations, LeaseExpires(p) \/ LeaseLost(p) PROVE BeginsLawfully(o)
  BY <1>2, <1>7 DEF LeaseExpires, LeaseLost, BeginsLawfully
<1> QED  BY <1>3, <1>4, <1>5, <1>6, <1>7 DEF Audit

LEMMA StepBegins ==
    ASSUME Typed, [Next]_vars, NEW o \in Operations
    PROVE  BeginsLawfully(o)
<1>1. CASE UNCHANGED vars
  BY <1>1 DEF vars, database, tasks, BeginsLawfully
<1> QED
  BY <1>1, ServeBegins, WorkBegins, CallFailsBegins, StopBegins, RestBegins DEF Next

LEMMA StepBegun ==
    ASSUME Typed, Begun, [Next]_vars
    PROVE  Begun'
<1>1. \A o \in Operations : BeginsLawfully(o)
  BY StepBegins
<1> QED  BY <1>1 DEF Begun, BeginsLawfully

LEMMA InitBegun == Init => Begun /\ UpdatesUnleased
BY DEF Init, Begun, UpdatesUnleased, Kinds

\* A lease is only taken by a task that begins its operation.
LEMMA LeaseTaken ==
    ASSUME Typed, [Next]_vars, NEW o \in Operations, o \in lease', o \notin lease
    PROVE  task[o]["begin"] = "set_lease" /\ audit' = audit
<1>1. ASSUME NEW p \in Operations, NEW k \in Kinds, Call(p, k)
      PROVE  audit' = audit /\ (lease' \subseteq lease \/ (task[p]["begin"] = "set_lease" /\ lease' = lease \cup {p}))
  <2>1. audit' = audit
    BY <1>1, CallIs DEF Untouched
  <2>2. SetsLease(p) => task[p]["begin"] = "set_lease" /\ lease' = lease \cup {p}
    BY DEF SetsLease, Written
  <2>3. Inserts(p) \/ Starts(p) \/ Progresses(p) \/ Finishes(p) \/ Upserts(p) \/ Releases(p)
        => lease' \subseteq lease
    BY DEF Inserts, Starts, Progresses, Finishes, Upserts, Releases, Written
  <2> QED  BY <1>1, <2>1, <2>2, <2>3, CallIs
<1>2. CASE \E p \in Operations, k \in Kinds : Call(p, k)
  BY <1>1, <1>2
<1>3. CASE ~\E p \in Operations, k \in Kinds : Call(p, k)
  <2>1. lease' \subseteq lease
    BY <1>3 DEF Next, Serve, Open, BeginAttempt, Touch, ClientLeaves, Return, Report, Work, Drain,
                OtherReports, OtherWritten, Stop, Signal, DeadlinePasses, Drained, Flushed, Exit,
                Killed, Vanishes, Audit, AuditRows, AuditLeases, Abandon, AbandonAttempts, AuditDies,
                CallFails, GoesStale, LeaseExpires, LeaseLost, Expire, vars, database
  <2> QED  BY <2>1
<1> QED  BY <1>2, <1>3

LEMMA StepUpdatesUnleased ==
    ASSUME Typed, Begun, UpdatesUnleased, [Next]_vars
    PROVE  UpdatesUnleased'
<1>1. CASE AuditLeases
  BY <1>1 DEF AuditLeases, UpdatesUnleased, Typed, TypeOK, database
<1>2. CASE ~AuditLeases
  <2>1. audit' = audit \/ audit'.step # "update"
    <3>1. CASE AuditRows \/ Abandon \/ AbandonAttempts \/ AuditDies
      <4>1. CASE AuditRows  BY <4>1 DEF AuditRows
      <4>2. CASE Abandon
        <5>1. audit'.step \in {"idle", "attempts"}
          BY <4>2 DEF Abandon
        <5> QED  BY <5>1
      <4>3. CASE AbandonAttempts \/ AuditDies  BY <4>3 DEF AbandonAttempts, AuditDies
      <4> QED  BY <3>1, <4>1, <4>2, <4>3
    <3>2. CASE ~(Audit \/ AuditDies)
      BY <3>2 DEF Next, Serve, Open, BeginAttempt, Touch, ClientLeaves, Return, Report, Work, Drain,
                  OtherReports, OtherWritten, Call, Stop, Signal, DeadlinePasses, Drained, Flushed,
                  Exit, Killed, Vanishes, CallFails, GoesStale, LeaseExpires, LeaseLost, Expire, vars
    <3> QED  BY <1>2, <3>1, <3>2 DEF Audit
  <2>2. ASSUME audit' = audit, audit.step = "update", NEW o \in audit.ids, o \in lease'
        PROVE  FALSE
    <3>1. o \in Operations /\ o \notin lease
      BY <2>2 DEF UpdatesUnleased, Typed, TypeOK
    <3>2. task[o]["begin"] = "set_lease"
      BY <2>2, <3>1, LeaseTaken
    <3> QED  BY <3>1, <3>2 DEF Begun
  <2> QED  BY <2>1, <2>2 DEF UpdatesUnleased
<1> QED  BY <1>1, <1>2

\* The reconciler reads rows, reads leases and writes rows in three steps, and
\* still abandons nothing that holds a lease at the write: whatever it found
\* stale began before, and no operation begins twice (operations.ts:794).
THEOREM LeasedAreNotAbandoned == Spec => AbandonsOnlyUnleased
<1>1. ASSUME Typed, ReportsKept, UpdatesUnleased, [Next]_vars
      PROVE  \A o \in Operations :
                row[o].outcome # "abandoned" /\ row'[o].outcome = "abandoned" => o \notin lease
  <2> SUFFICES ASSUME NEW o \in Operations,
                      row[o].outcome # "abandoned", row'[o].outcome = "abandoned"
               PROVE  o \notin lease
    OBVIOUS
  <2>1. report[o] # "abandoned"
    BY <1>1 DEF ReportsKept
  <2>2. ~OutcomesStay /\ \A p \in Operations : ~Reporting(p) /\ ~Finishing(p)
    BY <2>1 DEF OutcomesStay, Reporting, Finishing
  <2>3. Abandoning
    BY <1>1, <2>2, StepOutcomes
  <2> QED  BY <1>1, <2>3 DEF Abandoning, UpdatesUnleased
<1> QED
  BY <1>1, InitTyped, InitReportsKept, InitBegun, StepTyped, StepReportsKept, StepBegun,
     StepUpdatesUnleased, PTL DEF Spec, AbandonsOnlyUnleased
-----------------------------------------------------------------------------
(* The flush.                                                              *)

LEMMA StaysDown ==
    ASSUME [Next]_vars, Running'
    PROVE  Running /\ lost \subseteq lost'
BY DEF Running, Next, Serve, Open, BeginAttempt, Touch, ClientLeaves, Return, Report, Work, Drain,
       OtherReports, OtherWritten, Call, Stop, Signal, DeadlinePasses, Drained, Flushed, Exit,
       Killed, Vanishes, Audit, AuditRows, AuditLeases, Abandon, AbandonAttempts, AuditDies,
       CallFails, GoesStale, LeaseExpires, LeaseLost, Expire, vars, shutdown, tasks

\* The row of an operation stays, and its task settles with it in place.
RowBegins(o) ==
    /\ row'[o].state = "deleted" => row[o].state = "deleted"
    /\ row[o].state # "none" => row'[o].state # "none"
    /\ task'[o]["begin"] = "set_lease" => task[o]["begin"] = "set_lease" \/ row'[o].state # "none"
    /\ o \in settled' \ lost' => o \in settled \ lost \/ task[o]["begin"] = "set_lease"

LEMMA ServeRows ==
    ASSUME Typed, NEW p \in Operations, Serve(p), NEW o \in Operations
    PROVE  RowBegins(o)
<1>1. task \in [Operations -> [Kinds -> {None, "insert", "set_lease", "start", "progress",
                                         "finish", "upsert", "release", "queued"}]]
  BY DEF Typed, TypeOK
<1>2. row' = row /\ settled' = settled /\ lost \subseteq lost'
  BY DEF Serve, Open, BeginAttempt, Touch, ClientLeaves, Return, Report, database, tasks
<1>3. task'[o]["begin"] = task[o]["begin"] \/ task'[o]["begin"] = "insert"
  <2>1. CASE Open(p)  BY <1>1, <2>1 DEF Open, Kinds
  <2>2. CASE BeginAttempt(p)  BY <1>1, <2>2 DEF BeginAttempt, Kinds
  <2>3. CASE Touch(p)  BY <1>1, <2>3 DEF Touch, Kinds
  <2>4. CASE ClientLeaves(p) \/ Return(p)  BY <2>4 DEF ClientLeaves, Return, tasks
  <2>5. CASE \E r \in Reports : Report(p, r)
    <3>1. task' = task \/ task' = [task EXCEPT ![p]["final"] = "queued"]
      BY <2>5 DEF Report
    <3> QED  BY <1>1, <3>1 DEF Kinds
  <2> QED  BY <2>1, <2>2, <2>3, <2>4, <2>5 DEF Serve
<1> QED  BY <1>2, <1>3 DEF RowBegins

LEMMA CallRows ==
    ASSUME Typed, NEW p \in Operations, NEW k \in Kinds, Call(p, k), NEW o \in Operations
    PROVE  RowBegins(o)
<1>1. /\ task \in [Operations -> [Kinds -> {None, "insert", "set_lease", "start", "progress",
                                            "finish", "upsert", "release", "queued"}]]
      /\ row \in [Operations -> RowRecord]
  BY DEF Typed, TypeOK, RowRecord
<1>2. lost' = lost
  BY CallIs DEF Untouched
<1>3. CASE Inserts(p)
  <2>1. row' = IF row[p].state = "none"
               THEN [row EXCEPT ![p] = [row[p] EXCEPT !.state = "in_progress"]] ELSE row
    BY <1>3 DEF Inserts, Written
  <2>2. settled' = settled /\ task' = [task EXCEPT ![p]["begin"] = "set_lease"]
    BY <1>3 DEF Inserts, MovesTo
  <2>3. [row[p] EXCEPT !.state = "in_progress"].state = "in_progress"
    BY <1>1 DEF RowRecord
  <2>4. row'[o] = row[o] \/ row'[o].state = "in_progress"
    BY <1>1, <2>1, <2>3
  <2>5. task'[o]["begin"] = task[o]["begin"] \/ (o = p /\ row'[o].state # "none")
    BY <1>1, <2>1, <2>2, <2>3 DEF Kinds
  <2> QED  BY <1>2, <2>2, <2>4, <2>5 DEF RowBegins
<1>4. CASE SetsLease(p)
  <2>1. /\ row' = row /\ task' = [task EXCEPT ![p]["begin"] = None]
        /\ task[p]["begin"] = "set_lease" /\ settled' = settled \cup {p}
    BY <1>4 DEF SetsLease, MovesTo, Written, Ends
  <2>2. task'[o]["begin"] = task[o]["begin"] \/ o = p
    BY <1>1, <2>1 DEF Kinds
  <2> QED  BY <1>2, <2>1, <2>2 DEF RowBegins
<1>5. CASE Starts(p) \/ Progresses(p) \/ Finishes(p) \/ Upserts(p) \/ Releases(p)
  <2>1. task'[o]["begin"] = task[o]["begin"] /\ settled' = settled
    BY <1>1, <1>5 DEF Starts, Progresses, Finishes, Upserts, Releases, MovesTo, Ends, Kinds
  <2>2. \/ row' = row
        \/ row' = [row EXCEPT ![p] = [row[p] EXCEPT !.stale = FALSE]]
        \/ /\ row[p].state \in {"in_progress", "finished"}
           /\ row' = [row EXCEPT ![p] = [row[p] EXCEPT !.state = "finished", !.outcome = report[p]]]
    BY <1>5 DEF Starts, Progresses, Finishes, Upserts, Releases, Written
  <2>3. \/ row'[o].state = row[o].state
        \/ row'[o].state = "finished"
    <3>1. /\ [row[p] EXCEPT !.stale = FALSE].state = row[p].state
          /\ [row[p] EXCEPT !.state = "finished", !.outcome = report[p]].state = "finished"
      BY <1>1 DEF RowRecord
    <3> QED  BY <1>1, <2>2, <3>1
  <2> QED  BY <1>2, <2>1, <2>3 DEF RowBegins
<1> QED  BY <1>3, <1>4, <1>5, CallIs

LEMMA WorkRows ==
    ASSUME Typed, Work, NEW o \in Operations
    PROVE  RowBegins(o)
<1>1. CASE Drain
  <2>1. task'[o] = task[o] \/ task'[o] = [task[o] EXCEPT !["final"] = "finish"]
    BY <1>1 DEF Drain
  <2>2. task'[o]["begin"] = task[o]["begin"]
    BY <2>1 DEF Typed, TypeOK, Kinds
  <2>3. UNCHANGED <<row, settled, lost>>
    BY <1>1 DEF Drain, database
  <2> QED  BY <2>2, <2>3 DEF RowBegins
<1>2. CASE OtherReports \/ OtherWritten
  BY <1>2 DEF OtherReports, OtherWritten, database, RowBegins
<1> QED  BY <1>1, <1>2, CallRows DEF Work

LEMMA CallFailsRows ==
    ASSUME Typed, NEW p \in Operations, NEW k \in Kinds, CallFails(p, k), NEW o \in Operations
    PROVE  RowBegins(o)
<1>1. task \in [Operations -> [Kinds -> {None, "insert", "set_lease", "start", "progress",
                                         "finish", "upsert", "release", "queued"}]]
  BY DEF Typed, TypeOK
<1>2. Head(CallsOf("begin")) = "insert"
  BY DEF CallsOf
<1>3. /\ \E call : task' = [task EXCEPT ![p][k] = call] /\ (k = "begin" => call # "set_lease")
      /\ row' = row /\ lost \subseteq lost'
      /\ settled' \ lost' \subseteq settled \ lost
  BY <1>2 DEF CallFails, Ends, database
<1>4. task'[o]["begin"] = task[o]["begin"] \/ task'[o]["begin"] # "set_lease"
  BY <1>1, <1>3 DEF Kinds
<1> QED  BY <1>3, <1>4 DEF RowBegins

LEMMA StopRows ==
    ASSUME Typed, Stop, Running', NEW o \in Operations
    PROVE  RowBegins(o)
BY DEF Stop, Signal, DeadlinePasses, Drained, Flushed, Exit, Killed, Vanishes, Running, database,
       tasks, RowBegins

LEMMA RestRows ==
    ASSUME Typed, Running',
           \/ Audit \/ AuditDies
           \/ \E p \in Operations : GoesStale(p) \/ LeaseExpires(p) \/ LeaseLost(p) \/ Expire(p),
           NEW o \in Operations
    PROVE  RowBegins(o)
<1>1. row \in [Operations -> RowRecord]
  BY DEF Typed, TypeOK, RowRecord
<1>2. UNCHANGED <<task, settled, lost, stage>>
  BY DEF Audit, AuditRows, AuditLeases, Abandon, AbandonAttempts, AuditDies, GoesStale,
         LeaseExpires, LeaseLost, Expire, tasks, shutdown
<1>3. CASE AuditRows \/ AuditLeases \/ AbandonAttempts \/ AuditDies
           \/ \E p \in Operations : LeaseExpires(p) \/ LeaseLost(p)
  <2>1. row' = row
    BY <1>3 DEF AuditRows, AuditLeases, AbandonAttempts, AuditDies, LeaseExpires, LeaseLost, database
  <2> QED  BY <1>2, <2>1 DEF RowBegins
<1>4. CASE Abandon
  <2>1. row'[o] = IF o \in Abandoned
                  THEN [row[o] EXCEPT !.state = "finished", !.outcome = "abandoned"] ELSE row[o]
    BY <1>4 DEF Abandon
  <2>2. [row[o] EXCEPT !.state = "finished", !.outcome = "abandoned"].state = "finished"
    BY <1>1 DEF RowRecord
  <2> QED  BY <1>2, <2>1, <2>2 DEF RowBegins
<1>5. ASSUME NEW p \in Operations, GoesStale(p) PROVE RowBegins(o)
  <2>1. row' = [row EXCEPT ![p] = [row[p] EXCEPT !.stale = TRUE]]
    BY <1>5 DEF GoesStale
  <2>2. row'[o].state = row[o].state
    BY <1>1, <2>1 DEF RowRecord
  <2> QED  BY <1>2, <2>2 DEF RowBegins
<1>6. ASSUME NEW p \in Operations, Expire(p) PROVE FALSE
  BY <1>2, <1>6 DEF Expire, Running
<1> QED  BY <1>3, <1>4, <1>5, <1>6 DEF Audit

LEMMA StepRowsBegun ==
    ASSUME Typed, RowsBegun, [Next]_vars
    PROVE  RowsBegun'
<1> SUFFICES ASSUME Running', NEW o \in Operations
             PROVE  /\ row'[o].state # "deleted"
                    /\ task'[o]["begin"] = "set_lease" \/ (o \in settled' /\ o \notin lost')
                          => row'[o].state # "none"
  BY DEF RowsBegun
<1>1. ASSUME UNCHANGED vars PROVE RowBegins(o)
  BY <1>1 DEF vars, database, tasks, RowBegins
<1>2. RowBegins(o)
  BY <1>1, ServeRows, WorkRows, CallFailsRows, StopRows, RestRows DEF Next
<1> QED  BY <1>2, StaysDown DEF RowsBegun, RowBegins

-----------------------------------------------------------------------------
(* What was reported.                                                      *)

\* A written report stays written, and a report stays.
LEMMA StaysWritten ==
    ASSUME Typed, ReportsKept, [Next]_vars, NEW o \in Operations, report[o] # None
    PROVE  /\ report'[o] = report[o]
           /\ row[o].outcome = report[o] => row'[o].outcome = report'[o]
<1>1. ASSUME NEW p \in Operations, Reporting(p)
      PROVE  report'[o] = report[o] /\ row' = row
  BY <1>1 DEF Reporting, Typed, TypeOK
<1>2. ASSUME NEW p \in Operations, Finishing(p)
      PROVE  report' = report /\ (row[o].outcome = report[o] => row'[o].outcome = report[o])
  BY <1>2 DEF Finishing
<1>3. Abandoning => report' = report /\ (row[o].outcome # None => row'[o].outcome = row[o].outcome)
  BY DEF Abandoning
<1>4. OutcomesStay => report' = report /\ row'[o].outcome = row[o].outcome
  BY DEF OutcomesStay
<1> QED  BY <1>1, <1>2, <1>3, <1>4, StepOutcomes

\* A report that is made is queued, or counted as dropped.
LEMMA NewReport ==
    ASSUME Typed, [Next]_vars, NEW o \in Operations, report[o] = None, report'[o] # None
    PROVE  o \in lost' \/ task'[o]["final"] = "queued"
<1>1. task \in [Operations -> [Kinds -> {None, "insert", "set_lease", "start", "progress",
                                         "finish", "upsert", "release", "queued"}]]
  BY DEF Typed, TypeOK
<1>2. report' # report
  OBVIOUS
<1>3. PICK p \in Operations, r \in Reports : Report(p, r)
  BY <1>2 DEF Next, Serve, Open, BeginAttempt, Touch, ClientLeaves, Return, Work, Drain,
       OtherReports, OtherWritten, Call, Stop, Signal, DeadlinePasses, Drained, Flushed, Exit,
       Killed, Vanishes, Audit, AuditRows, AuditLeases, Abandon, AbandonAttempts, AuditDies,
       CallFails, GoesStale, LeaseExpires, LeaseLost, Expire, vars
<1>4. o = p
  BY <1>3 DEF Report, Typed, TypeOK
<1> QED  BY <1>1, <1>3, <1>4 DEF Report, Kinds

\* A finalization that waits or has to be written goes on waiting, starts over,
\* is written, or is counted as failed.
LEMMA FinalKept ==
    ASSUME Typed, RowsBegun, [Next]_vars, Running', NEW o \in Operations,
           task[o]["final"] \in {"queued", "finish"}
    PROVE  \/ task'[o]["final"] \in {"queued", "finish"} \/ o \in lost'
           \/ row'[o].outcome = report'[o]
<1>1. /\ task \in [Operations -> [Kinds -> {None, "insert", "set_lease", "start", "progress",
                                            "finish", "upsert", "release", "queued"}]]
      /\ row \in [Operations -> RowRecord]
  BY DEF Typed, TypeOK, RowRecord
<1>2. ASSUME NEW p \in Operations, Serve(p)
      PROVE  task'[o]["final"] \in {"queued", "finish"}
  <2>1. CASE Open(p)  BY <1>1, <2>1 DEF Open, Kinds
  <2>2. CASE BeginAttempt(p)  BY <1>1, <2>2 DEF BeginAttempt, Kinds
  <2>3. CASE Touch(p)  BY <1>1, <2>3 DEF Touch, Kinds
  <2>4. CASE ClientLeaves(p) \/ Return(p)  BY <2>4 DEF ClientLeaves, Return, tasks
  <2>5. CASE \E r \in Reports : Report(p, r)
    <3>1. task' = task \/ task' = [task EXCEPT ![p]["final"] = "queued"]
      BY <2>5 DEF Report
    <3> QED  BY <1>1, <3>1 DEF Kinds
  <2> QED  BY <1>2, <2>1, <2>2, <2>3, <2>4, <2>5 DEF Serve
<1>3. CASE Drain
  <2>1. task'[o] = task[o] \/ task'[o] = [task[o] EXCEPT !["final"] = "finish"]
    BY <1>3 DEF Drain
  <2> QED  BY <1>1, <2>1 DEF Kinds
<1>4. ASSUME NEW p \in Operations, NEW k \in Kinds, Call(p, k)
      PROVE  \/ task'[o]["final"] \in {"queued", "finish"} \/ o \in lost'
             \/ row'[o].outcome = report'[o]
  <2>1. /\ report' = report /\ lost' = lost /\ Running
        /\ \/ Inserts(p) \/ SetsLease(p) \/ Starts(p) \/ Progresses(p)
           \/ Finishes(p) \/ Upserts(p) \/ Releases(p)
    BY <1>4, CallIs DEF Untouched
  <2>2. CASE Inserts(p) \/ SetsLease(p) \/ Starts(p) \/ Progresses(p)
    BY <1>1, <2>2 DEF Inserts, SetsLease, Starts, Progresses, MovesTo, Kinds
  <2>3. CASE Upserts(p) \/ Releases(p)
    BY <1>1, <2>3 DEF Upserts, Releases, MovesTo, Kinds
  <2>4. CASE Finishes(p)
    <3>1. CASE p # o
      BY <1>1, <2>4, <3>1 DEF Finishes, MovesTo, Kinds
    <3>2. CASE p = o /\ o \notin lost
      <4>1. row[o].state \in {"in_progress", "finished"}
        BY <1>1, <2>1, <2>4, <3>2 DEF Finishes, RowsBegun, RowRecord
      <4>2. row' = [row EXCEPT ![o] = [row[o] EXCEPT !.state = "finished", !.outcome = report[o]]]
        BY <2>4, <3>2, <4>1 DEF Finishes, Written
      <4>3. row'[o].outcome = report[o]
        BY <1>1, <4>2 DEF RowRecord
      <4> QED  BY <2>1, <4>3
    <3> QED  BY <2>1, <3>1, <3>2
  <2> QED  BY <2>1, <2>2, <2>3, <2>4
<1>5. ASSUME NEW p \in Operations, NEW k \in Kinds, CallFails(p, k)
      PROVE  task'[o]["final"] \in {"queued", "finish"} \/ o \in lost'
  <2>1. Head(CallsOf("final")) = "finish"
    BY DEF CallsOf
  <2>2. \/ task' = [task EXCEPT ![p][k] = Head(CallsOf(k))]
        \/ task' = [task EXCEPT ![p][k] = None] /\ p \in lost'
    BY <1>5 DEF CallFails
  <2> QED  BY <1>1, <2>1, <2>2 DEF Kinds
<1>6. CASE OtherReports \/ OtherWritten \/ Stop \/ Audit \/ AuditDies \/ UNCHANGED vars
           \/ \E p \in Operations : GoesStale(p) \/ LeaseExpires(p) \/ LeaseLost(p) \/ Expire(p)
  <2>1. task' = task
    BY <1>6 DEF OtherReports, OtherWritten, Stop, Signal, DeadlinePasses, Drained, Flushed, Exit,
       Killed, Vanishes, Audit, AuditRows, AuditLeases, Abandon, AbandonAttempts, AuditDies,
       GoesStale, LeaseExpires, LeaseLost, Expire, vars, tasks, Running
  <2> QED  BY <2>1
<1> QED  BY <1>2, <1>3, <1>4, <1>5, <1>6 DEF Next, Work

LEMMA StepReportsTravel ==
    ASSUME Typed, ReportsKept, RowsBegun, ReportsTravel, [Next]_vars
    PROVE  ReportsTravel'
<1> SUFFICES ASSUME Running', NEW o \in Operations, report'[o] # None
             PROVE  \/ o \in lost' \/ row'[o].outcome = report'[o]
                    \/ task'[o]["final"] \in {"queued", "finish"}
  BY DEF ReportsTravel
<1>1. CASE report[o] = None
  BY <1>1, NewReport
<1>2. CASE report[o] # None
  <2>1. Running /\ lost \subseteq lost'
    BY StaysDown
  <2>2. \/ o \in lost \/ row[o].outcome = report[o]
        \/ task[o]["final"] \in {"queued", "finish"}
    BY <1>2, <2>1 DEF ReportsTravel
  <2> QED  BY <1>2, <2>1, <2>2, FinalKept, StaysWritten
<1> QED  BY <1>1, <1>2

LEMMA StepFlushCovers ==
    ASSUME Typed, ReportsKept, ReportsTravel, FlushCovers, [Next]_vars
    PROVE  FlushCovers'
<1>1. CASE Drained
  <2>1. /\ stage = "drain" /\ stage' = "flush" /\ awaited' = Pending
        /\ owed' = {o \in Operations : report[o] # None}
        /\ UNCHANGED <<row, report, lost>>
    BY <1>1 DEF Drained, database, tasks
  <2>2. ASSUME NEW o \in owed'
        PROVE  <<o, "final">> \in awaited' \/ o \in lost' \/ row'[o].outcome = report'[o]
    <3>1. o \in Operations /\ report[o] # None
      BY <2>1, <2>2
    <3>2. task[o]["final"] \in {"queued", "finish"} => <<o, "final">> \in Pending
      BY <3>1 DEF Pending, Promises, Kinds
    <3> QED  BY <2>1, <3>1, <3>2 DEF ReportsTravel, Running
  <2> QED  BY <2>1, <2>2 DEF FlushCovers
<1>2. CASE Flushed
  <2>1. /\ stage = "flush" /\ stage' = "close" /\ (late \/ awaited \cap Pending = {})
        /\ UNCHANGED <<row, report, lost, late, awaited, owed>>
    BY <1>2 DEF Flushed, database, tasks
  <2>2. ASSUME ~late, NEW o \in owed
        PROVE  row[o].outcome = report[o] \/ o \in lost
    <3>1. o \in Operations /\ report[o] # None
      BY <2>1 DEF FlushCovers, Typed, TypeOK
    <3>2. <<o, "final">> \notin awaited \/ <<o, "final">> \notin Pending
      BY <2>1, <2>2
    <3>3. task[o]["final"] \in {"queued", "finish"} => <<o, "final">> \in Pending
      BY <3>1 DEF Pending, Promises, Kinds
    <3> QED  BY <2>1, <2>2, <3>1, <3>2, <3>3 DEF FlushCovers, ReportsTravel, Running
  <2> QED  BY <2>1, <2>2 DEF FlushCovers
<1>3. CASE stage' \notin {"flush", "close"}
  BY <1>3 DEF FlushCovers
<1>4. CASE ~Drained /\ ~Flushed /\ stage' \in {"flush", "close"}
  <2>1. UNCHANGED <<stage, awaited, owed>> /\ (late' = late \/ stage # "close")
    BY <1>4 DEF Next, Serve, Open, BeginAttempt, Touch, ClientLeaves, Return, Report, Work, Drain,
       OtherReports, OtherWritten, Call, Stop, Signal, DeadlinePasses, Exit,
       Killed, Vanishes, Audit, AuditRows, AuditLeases, Abandon, AbandonAttempts, AuditDies,
       CallFails, GoesStale, LeaseExpires, LeaseLost, Expire, vars, shutdown
  <2>2. ASSUME NEW o \in owed
        PROVE  /\ o \in Operations /\ report[o] # None
               /\ report'[o] = report[o]
               /\ row[o].outcome = report[o] => row'[o].outcome = report'[o]
    <3>1. o \in Operations /\ report[o] # None
      BY <1>4, <2>1, <2>2 DEF FlushCovers, Typed, TypeOK
    <3> QED  BY <3>1, StaysWritten
  <2>3. lost \subseteq lost'
    BY <1>4, StaysDown DEF Running
  <2> QED  BY <1>4, <2>1, <2>2, <2>3 DEF FlushCovers
<1> QED  BY <1>1, <1>2, <1>3, <1>4

LEMMA InitFlush == Init => RowsBegun /\ ReportsTravel /\ FlushCovers
BY DEF Init, RowsBegun, ReportsTravel, FlushCovers, Running, Kinds

\* When the process closes its connections in time, everything reported before
\* the flush began has its row written, or was counted as lost: whatever was
\* queued, retried, dropped or abandoned on the way (shutdown.ts:86,
\* operations.ts:765).
THEOREM FlushIsDurable == Spec => []FlushedIsDurable
<1>1. Typed /\ FlushCovers => FlushedIsDurable
  BY DEF Typed, FlushCovers, FlushedIsDurable
<1> QED
  BY <1>1, InitTyped, InitReportsKept, InitFlush, StepTyped, StepReportsKept, StepRowsBegun,
     StepReportsTravel, StepFlushCovers, PTL DEF Spec
=============================================================================
