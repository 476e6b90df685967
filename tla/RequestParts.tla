---------------------------- MODULE RequestParts ----------------------------
(***************************************************************************)
(* What a request carries and what it costs, side by side: its files and   *)
(* parameters on their way to deployments (module TextRequests), the turns *)
(* of a conversation (Conversation), the thought it asks for (Effort), the *)
(* catalogue its models are declared in (CatalogSync) and the bill of one  *)
(* request (Metering).  A behaviour is of one kind, and the other parts    *)
(* stay as they began.                                                     *)
(***************************************************************************)
EXTENDS Naturals, Sequences

CONSTANTS
    None, Sentinel,
    Requests, Candidates, Content,              \* what TextRequests sends, and where
    MaxFetches, MaxFetched, MaxTotal, MaxAttempts,
    MaxReplies,
    Asked, Declared,                            \* thought that is asked for, and the models that have it
    Names, Tags, Offers, Listings, Catalogues, Dev, SafeKind, Ratio, MaxRuns, MaxChanges, MaxMissing,
    Bills, Deployments, Works, Images           \* the requests Metering charges for, and what is done for them

VARIABLES
    kind,
    req, strategy, tries, spent, task, memo, text, free, waiters, fetches, accounted, total, outcome, sent,
    wire, keeps, include, named, said, history, open, replies, phase, to, body,
    ask, reasoning, model, told, log, attempts,
    offers, catalog, seen, report, sightings, runs, changes,
    request, deployment, stage, spool, held, charges, finished, work, fallback, usage, image, record, shown

R == INSTANCE TextRequests
C == INSTANCE Conversation
E == INSTANCE Effort
S == INSTANCE CatalogSync WITH normalizeTag <- Tags, history <- seen
M == INSTANCE Metering WITH Requests <- Bills, Models <- Deployments, model <- deployment, phase <- stage

\* Requests and models, catalogues and prices, sources and providers are what the parts
\* say of them.
ASSUME RequestsAssumption == E!WellPosed /\ S!WellKept /\ M!WellMeant

inputs == <<req, strategy, tries, spent, task, memo, text, free, waiters, fetches, accounted, total, outcome, sent>>
turns == <<wire, keeps, include, named, said, history, open, replies, phase, to, body>>
thought == <<ask, reasoning, model, told, log, attempts>>
catalogue == <<offers, catalog, seen, report, sightings, runs, changes>>
bill == <<request, deployment, stage, spool, held, charges, finished, work, fallback, usage, image, record, shown>>
vars == <<kind, inputs, turns, thought, catalogue, bill>>

Parts == {"inputs", "conversation", "effort", "catalogue", "metering"}
Init ==
    /\ kind \in Parts
    /\ R!Init /\ C!Init /\ E!Init /\ S!Init /\ M!Init

Carrying == kind = "inputs" /\ R!Next /\ UNCHANGED <<kind, turns, thought, catalogue, bill>>
Conversing == kind = "conversation" /\ C!Next /\ UNCHANGED <<kind, inputs, thought, catalogue, bill>>
Thinking == kind = "effort" /\ E!Next /\ UNCHANGED <<kind, inputs, turns, catalogue, bill>>
Listing == kind = "catalogue" /\ S!Next /\ UNCHANGED <<kind, inputs, turns, thought, bill>>
Charging == kind = "metering" /\ M!Next /\ UNCHANGED <<kind, inputs, turns, thought, catalogue>>

Next == Carrying \/ Conversing \/ Thinking \/ Listing \/ Charging

Spec == Init /\ [][Next]_vars

\* Inputs are fetched once, within their limits, and reach an adapter whole
\* (module TextRequests).
InputsKept == kind = "inputs" => R!InputsKept

\* Every provider of a conversation hears all of it, with its own state and signatures
\* (module Conversation).
ConversationKept == kind = "conversation" => C!ConversationKept

\* Every attempt tells its provider the level that serves the original request best,
\* in the provider's words, and the log says so (module Effort).
EffortKept == kind = "effort" => E!EffortKept

\* No report of a sync calls a model gone, new or repriced without the sources that
\* say so, or undoes what a human has settled (module CatalogSync).
CatalogueKept == kind = "catalogue" => S!CatalogueKept

\* Work is charged once at its own rates, never above what was reserved, however it
\* fails; uploads and leases do not outlive their request (module Metering).
MeteringKept == kind = "metering" => M!MeteringKept
=============================================================================
