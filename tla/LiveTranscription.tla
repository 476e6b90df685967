------------------------- MODULE LiveTranscription -------------------------
(***************************************************************************)
(* One live transcription (endpoints/liveTranscription.ts): a client's     *)
(* WebSocket relayed to an upstream one (adapters/                         *)
(* openaiLiveTranscription.ts), the configuration both sides agree on, and *)
(* the audio the session is charged for when it ends.                      *)
(*                                                                         *)
(* Abstractions.  A configuration is its audio format and one optional     *)
(* setting; the gateway always sends upstream a whole one (renderConfig),  *)
(* and upstream answers every update with the configuration it then has.   *)
(* Audio comes in pieces of one length, counted by format.                 *)
(***************************************************************************)
EXTENDS Naturals, Sequences

CONSTANTS
    Formats,        \* audio formats
    DefaultFormat,  \* that of a new session (defaultLiveTranscriptionConfig)
    Prompt,         \* a value of the optional setting
    None,           \* absent
    MaxEvents,      \* events the client sends at most
    QueueLimit,     \* events that fit LIVE_TRANSCRIPTION_MAX_QUEUED_BYTES
    MaxFaults       \* faults of either side, and limits reached, in a behaviour

VARIABLES
    client,     \* readyState of the client's socket
    patient,    \* the client waits for the answer to each event
    sent,       \* events the client has sent
    queue,      \* events accepted and not begun
    handling,   \* the event being handled
    link,       \* progress of connectUpstream
    open,       \* the upstream socket is open
    receiving,  \* receiveUpstream is reading
    echoes,     \* session.created and session.updated on their way back
    config,     \* session.config
    audio,      \* session.audioSeconds, as pieces of each format
    finished,   \* what finishSession settled
    upConfig,   \* the configuration upstream has
    forwarded,  \* pieces upstream has received, by the format in force there
    wanted,     \* the configuration the accepted updates of the client add up to
    spoiled,    \* an accident the accounting does not survive has happened
    faults

socket == <<client, patient, sent>>
session == <<queue, handling, link, receiving, config, audio, finished>>
upstream == <<open, echoes, upConfig, forwarded>>
ghosts == <<wanted, spoiled>>
vars == <<socket, session, upstream, ghosts, faults>>

Default == [format |-> DefaultFormat, prompt |-> None]
Nothing == [f \in Formats |-> 0]
Fault == faults < MaxFaults /\ faults' = faults + 1
\* An update names one setting.
Patches ==
    {[format |-> f, prompt |-> None] : f \in Formats} \cup {[format |-> None, prompt |-> Prompt]}
\* Events of the client; "bad" is one that is refused as a bad request.
Events ==
    {[kind |-> "audio"], [kind |-> "bad"]}
        \cup {[kind |-> "update", patch |-> p] : p \in Patches}
Configs == [format : Formats, prompt : {Prompt, None}]
\* What the gateway is doing with an event.
Handlings ==
    [kind : {"audio", "updated"}] \cup [kind : {"update"}, config : Configs, patch : Patches]
\* What a session is settled with.
Accounts == [audio : [Formats -> Nat], routed : BOOLEAN, flying : Handlings \cup {None}]

Init ==
    /\ client = "open" /\ patient \in BOOLEAN /\ sent = 0
    /\ queue = <<>> /\ handling = None /\ link = "opening" /\ receiving = FALSE
    /\ config = Default /\ audio = Nothing /\ finished = None
    /\ open = FALSE /\ echoes = <<>> /\ upConfig = Default /\ forwarded = Nothing
    /\ wanted = Default /\ spoiled = FALSE /\ faults = 0

-----------------------------------------------------------------------------
(* Connecting: the socket opens, then the deployment is pinned by an update *)
(* that is still being written when nobody listens to the client any more.  *)

Opens ==
    /\ link = "opening" /\ client # "closed"
    /\ link' = "pinning" /\ open' = TRUE
    /\ echoes' = <<Default, Default>>
    /\ UNCHANGED <<socket, queue, handling, receiving, config, audio, finished, upConfig, forwarded, ghosts, faults>>

Joins ==
    /\ link = "pinning"
    /\ link' = "joined" /\ receiving' = TRUE
    /\ UNCHANGED <<socket, queue, handling, config, audio, finished, upstream, ghosts, faults>>

Closing == client' = IF client = "open" THEN "closing" ELSE client

ConnectFails ==
    /\ link \in {"opening", "pinning"}
    /\ IF link = "opening" /\ client = "closed" THEN UNCHANGED faults ELSE Fault
    /\ link' = "failed" /\ open' = FALSE /\ Closing
    /\ UNCHANGED <<patient, sent, queue, handling, receiving, config, audio, finished,
                   echoes, upConfig, forwarded, ghosts>>

-----------------------------------------------------------------------------
(* Events of the client. *)

Quiet == link = "joined" /\ queue = <<>> /\ handling = None /\ echoes = <<>>

\* onMessage: over the limit of the queue the client is dropped.
Send(event) ==
    /\ client # "closed" /\ sent < MaxEvents
    /\ patient => Quiet
    /\ sent' = sent + 1
    /\ IF Len(queue) + (IF handling = None THEN 0 ELSE 1) >= QueueLimit
       THEN Closing /\ UNCHANGED queue
       ELSE queue' = Append(queue, event) /\ UNCHANGED client
    /\ UNCHANGED <<patient, handling, link, receiving, config, audio, finished, upstream, ghosts, faults>>

\* parseConfig: what an update leaves out stays as it was.
Merge(patch, previous) == [k \in DOMAIN patch |-> IF patch[k] = None THEN previous[k] ELSE patch[k]]

Settled == link \in {"joined", "failed"}
Dropped == client' = (IF client = "open" THEN "closing" ELSE client) /\ open' = FALSE

\* handleClientEvent up to its first wait: an update goes to the extensions,
\* audio is written to upstream, a bad request is reported.
Handle ==
    /\ queue # <<>> /\ handling = None /\ Settled
    /\ queue' = Tail(queue)
    /\ LET event == Head(queue) IN
       \/ link = "joined" /\ event.kind = "bad" /\ UNCHANGED <<client, handling, open, forwarded>>
       \/ /\ link = "joined" /\ event.kind = "update"
          /\ handling' = [kind |-> "update", config |-> Merge(event.patch, config), patch |-> event.patch]
          /\ UNCHANGED <<client, open, forwarded>>
       \/ /\ link = "joined" /\ event.kind = "audio" /\ open
          /\ handling' = [kind |-> "audio"]
          /\ forwarded' = [forwarded EXCEPT ![upConfig.format] = @ + 1]
          /\ UNCHANGED <<client, open>>
       \/ \* The connection failed, or upstream has closed.
          /\ link = "failed" \/ (event.kind = "audio" /\ ~open)
          /\ Dropped /\ UNCHANGED <<handling, forwarded>>
    /\ UNCHANGED <<patient, sent, link, receiving, config, audio, finished, echoes, upConfig, ghosts, faults>>

\* The extensions let the update through: it becomes session.config and is sent.
Update ==
    /\ handling # None /\ handling.kind = "update"
    /\ config' = handling.config
    /\ IF open
       THEN /\ handling' = [kind |-> "updated"]
            /\ upConfig' = handling.config
            /\ echoes' = Append(echoes, handling.config)
            /\ wanted' = Merge(handling.patch, wanted)
            /\ UNCHANGED <<client, open>>
       ELSE handling' = None /\ Dropped /\ UNCHANGED <<upConfig, echoes, wanted>>
    /\ UNCHANGED <<patient, sent, queue, link, receiving, audio, finished, forwarded, spoiled, faults>>

\* Upstream answers with an error and keeps its configuration; the gateway has
\* changed its own.
UpdateRejected ==
    /\ handling # None /\ handling.kind = "update" /\ open /\ Fault
    /\ config' = handling.config /\ handling' = [kind |-> "updated"]
    /\ spoiled' = TRUE
    /\ UNCHANGED <<socket, queue, link, receiving, audio, finished, upstream, wanted>>

\* An extension, or assertLiveTranscriptionSupported, refuses the update.
UpdateRefused ==
    /\ handling # None /\ handling.kind = "update" /\ Fault
    /\ handling' = None
    /\ UNCHANGED <<socket, queue, link, receiving, config, audio, finished, upstream, ghosts>>

\* Mutated form: audio is counted in the format the session began with.
CountedAsDefault == DefaultFormat

Counted == config.format

\* The write has been flushed: only now is a piece of audio counted.
Flushed ==
    /\ handling # None /\ handling.kind \in {"audio", "updated"}
    /\ audio' = IF handling.kind = "audio" THEN [audio EXCEPT ![Counted] = @ + 1] ELSE audio
    /\ handling' = None
    /\ UNCHANGED <<socket, queue, link, receiving, config, finished, upstream, ghosts, faults>>

\* The write fails: the session is closed; whether upstream heard it is unknown.
FlushFails ==
    /\ handling # None /\ handling.kind \in {"audio", "updated"} /\ Fault
    /\ handling' = None /\ Dropped
    /\ spoiled' = TRUE
    /\ UNCHANGED <<patient, sent, queue, link, receiving, config, audio, finished, echoes, upConfig, forwarded, wanted>>

-----------------------------------------------------------------------------
(* Upstream. *)

\* receiveUpstream: the configuration upstream reports becomes session.config.
Receive ==
    /\ receiving /\ echoes # <<>>
    /\ config' = Head(echoes) /\ echoes' = Tail(echoes)
    /\ UNCHANGED <<socket, queue, handling, link, receiving, audio, finished, open, upConfig, forwarded, ghosts, faults>>

UpstreamCloses ==
    /\ open /\ Fault
    /\ open' = FALSE
    /\ UNCHANGED <<socket, session, echoes, upConfig, forwarded, ghosts>>

\* Its events have been read to the end, or one could not be parsed or delivered.
ReceivingEnds ==
    /\ receiving
    /\ IF ~open /\ echoes = <<>> THEN UNCHANGED faults ELSE Fault
    /\ receiving' = FALSE /\ Closing
    /\ UNCHANGED <<patient, sent, queue, handling, link, config, audio, finished, upstream, ghosts>>

-----------------------------------------------------------------------------
(* The end of the session. *)

\* The session has lasted LIVE_TRANSCRIPTION_MAX_SESSION_MS, or an event is too large.
LimitReached ==
    /\ client = "open" /\ Fault
    /\ client' = "closing"
    /\ UNCHANGED <<patient, sent, session, upstream, ghosts>>

\* session.routing?.value.session.close()
UpstreamClosed == open /\ link # "joined"

\* onClose and onError: upstream is closed if the route is known by now.
ClientCloses ==
    /\ client # "closed"
    /\ IF client = "closing" THEN UNCHANGED faults ELSE Fault
    /\ client' = "closed"
    /\ open' = UpstreamClosed
    /\ spoiled' = (spoiled \/ link = "pinning")
    /\ UNCHANGED <<patient, sent, session, echoes, upConfig, forwarded, wanted>>

Settles == finished' = [audio |-> audio, routed |-> link = "joined", flying |-> handling]

\* finishSession waits for the connection, not for the queue.
Finish ==
    /\ client = "closed" /\ Settled /\ finished = None
    /\ Settles
    /\ UNCHANGED <<socket, queue, handling, link, receiving, config, audio, upstream, ghosts, faults>>

\* closeLiveTranscriptionWebSockets, at a shutdown: it waits for nothing.
Restart ==
    /\ finished = None /\ Fault
    /\ Closing
    /\ open' = UpstreamClosed
    /\ Settles
    /\ spoiled' = (spoiled \/ link \in {"opening", "pinning"})
    /\ UNCHANGED <<patient, sent, queue, handling, link, receiving, config, audio, echoes, upConfig, forwarded, wanted>>

-----------------------------------------------------------------------------
\* Timers and deadlines bound each wait of the relay.
Relay ==
    \/ Opens \/ Joins \/ ConnectFails \/ Handle \/ Update \/ Flushed \/ Receive
    \/ ReceivingEnds \/ Finish \/ (client = "closing" /\ ClientCloses)

Next ==
    \/ \E event \in Events : Send(event)
    \/ Relay
    \/ UpdateRejected \/ UpdateRefused \/ FlushFails \/ UpstreamCloses \/ LimitReached \/ ClientCloses \/ Restart

Fairness == WF_vars(Relay)
-----------------------------------------------------------------------------
TypeOK ==
    /\ client \in {"open", "closing", "closed"} /\ patient \in BOOLEAN /\ sent \in 0..MaxEvents
    /\ queue \in Seq(Events) /\ handling \in Handlings \cup {None} /\ echoes \in Seq(Configs)
    /\ Len(queue) + (IF handling = None THEN 0 ELSE 1) <= QueueLimit
    /\ link \in {"opening", "pinning", "joined", "failed"}
    /\ open \in BOOLEAN /\ receiving \in BOOLEAN /\ spoiled \in BOOLEAN
    /\ config \in Configs /\ upConfig \in Configs /\ wanted \in Configs
    /\ audio \in [Formats -> Nat] /\ forwarded \in [Formats -> Nat]
    /\ finished \in Accounts \cup {None}
    /\ receiving => link = "joined"
    /\ faults \in 0..MaxFaults

\* What finishSession charges is the audio upstream received, each piece in the
\* format upstream had in force (endpoints/liveTranscription.ts:142-157, 272-276),
\* but for the piece being flushed, if the client waits for each answer.  A
\* client that leaves, or a process that stops, while the deployment is being
\* pinned escapes the account, and an update upstream rejects makes it wrong.
AudioCharged ==
    finished # None /\ patient /\ ~spoiled =>
        LET flying == finished.flying # None /\ finished.flying.kind = "audio"
        IN \A f \in Formats :
              \/ finished.audio[f] = forwarded[f]
              \/ flying /\ finished.audio[f] + 1 = forwarded[f]

\* "The public client may still replace every other setting"
\* (adapters/openaiLiveTranscription.ts:167-169): once a session is quiet,
\* upstream has the settings the client's accepted updates add up to.
UpdatesKept == Quiet => upConfig = wanted

\* A session whose client has gone is finished, and its upstream socket closed.
LiveEnds ==
    /\ client = "closed" ~> finished # None
    /\ client = "closed" /\ ~spoiled ~> ~open
=============================================================================
