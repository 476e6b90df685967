-------------------------- MODULE ResponsesSocket --------------------------
(***************************************************************************)
(* One client's Responses WebSocket (endpoints/responses.ts:916-1315): its *)
(* queue of turns, the state it continues from, and the upstream sockets   *)
(* that ResponsesWebSocketUpstreams keeps per deployment                   *)
(* (gateway/responsesWebSocketSessions.ts), each a session of              *)
(* adapters/openaiResponsesWebSocket.ts with an AsyncQueue for the turn    *)
(* that reads it.                                                          *)
(*                                                                         *)
(* Abstractions.  A response has the number of its turn for its public id, *)
(* and the turns whose items it was made from, its own included, for its   *)
(* content; an upstream response id is the content upstream keeps under    *)
(* it.  Routing picks any deployment not tried (module Router), which      *)
(* covers preferredDeploymentId.  A connection is opened in one step.      *)
(***************************************************************************)
EXTENDS Naturals, Sequences

CONSTANTS
    Deployments,  \* deployments of the public model
    Native,       \* those whose adapter has a Responses WebSocket
    None,         \* null
    Messages,     \* messages the client sends at most
    QueueLimit,   \* RESPONSES_WEBSOCKET_MAX_QUEUED_TURNS
    MaxTries,     \* attempts of a turn
    MaxFaults     \* faults of providers, storage and clients in a behaviour

VARIABLES
    client,    \* readyState of the client's socket
    sent,      \* messages the client has sent
    queue,     \* messages accepted and not begun
    turn,      \* the turn being executed
    state,     \* session.state: the last completed response
    bindings,  \* the upstream session of each deployment and its ids
    wire,      \* the upstream socket of each deployment
    stored,    \* responses in Postgres
    answers,   \* last word on each message, in the order sent to the client
    faults     \* faults so far

endpoint == <<client, sent, queue, state, stored, answers>>
upstream == <<bindings, wire>>
vars == <<endpoint, turn, upstream, faults>>

Ids == 1..Messages
Fault == faults < MaxFaults /\ faults' = faults + 1
NoIds == [public |-> None, upstream |-> None]
Shut == [open |-> FALSE, running |-> <<>>, reader |-> None, garbled |-> FALSE]
Fresh == [Shut EXCEPT !.open = TRUE]
\* The AsyncQueue of a turn: the id it has seen, the content read, its end.
Reader == [id |-> None, got |-> None, end |-> None]
Settled(reader) == reader = None \/ reader.end # None

\* A message of the client, the turn it becomes, and what is told of it.
Requests == [n : Ids, prev : Ids \cup {None}, generate : BOOLEAN, store : BOOLEAN]
Contents == Seq(Ids)
Turns ==
    [n : Ids, prev : Ids \cup {None}, generate : BOOLEAN, store : BOOLEAN,
     stage : {"prepare", "route", "read", "store"}, input : Contents, tries : 0..MaxTries,
     dep : Deployments \cup {None}, source : {"socket", "http", "local", None}, continues : BOOLEAN,
     got : Contents \cup {None}, id : Contents \cup {None}, aborted : BOOLEAN]
Answers == [n : Ids, prev : Ids \cup {None}, kind : {"refused", "completed", "error", "silent"}]
States == [id : Ids, items : Contents]
Bindings == [public : Ids \cup {None}, upstream : Contents \cup {None}]
Endings == {"completed", "not_found", "failed", "garbled", "closed"}
Readers == [id : Contents \cup {None}, got : Contents \cup {None}, end : Endings \cup {None}]
Wires ==
    [open : BOOLEAN, running : Seq([content : Contents, seen : BOOLEAN]),
     reader : Readers \cup {None}, garbled : BOOLEAN]

Init ==
    /\ client = "open" /\ sent = 0 /\ queue = <<>> /\ turn = None /\ state = None
    /\ bindings = [d \in Native |-> None] /\ wire = [d \in Native |-> Shut]
    /\ stored = [id \in Ids |-> None]
    /\ answers = <<>> /\ faults = 0

-----------------------------------------------------------------------------
(* The client. *)

\* "silent" is the last word of a turn whose client does not read.
Answer(n, prev, kind) ==
    answers' = IF client = "open" THEN Append(answers, [n |-> n, prev |-> prev, kind |-> kind]) ELSE answers

QueuedTurns == Len(queue) + (IF turn = None THEN 0 ELSE 1)

\* onMessage: a message is queued, or refused at once.
Send(prev, generate, store) ==
    /\ client = "open" /\ sent < Messages
    /\ sent' = sent + 1
    /\ IF QueuedTurns >= QueueLimit
       THEN Answer(sent', prev, "refused") /\ UNCHANGED queue
       ELSE /\ queue' = Append(queue, [n |-> sent', prev |-> prev, generate |-> generate, store |-> store])
            /\ UNCHANGED answers
    /\ UNCHANGED <<client, turn, state, upstream, stored, faults>>

\* session.close of an upstream socket: a turn that still reads it fails.
Closed(w) ==
    [w EXCEPT !.open = FALSE, !.running = <<>>,
              !.reader = IF Settled(@) THEN @ ELSE [@ EXCEPT !.end = "closed"]]

AbortTurn == turn' = IF turn = None THEN None ELSE [turn EXCEPT !.aborted = TRUE]

CloseUpstreams ==
    /\ bindings' = [d \in Native |-> None]
    /\ wire' = [d \in Native |-> IF bindings[d] = None THEN wire[d] ELSE Closed(wire[d])]

\* The connection has lasted 60 minutes: it is closed under the running turn.
TimeIsUp ==
    /\ client = "open" /\ Fault
    /\ client' = "closing"
    /\ UNCHANGED <<sent, queue, state, stored, answers, turn, upstream>>

\* closeResponsesWebSockets, at a shutdown.
Restart ==
    /\ client = "open" /\ Fault
    /\ client' = "closing"
    /\ AbortTurn /\ CloseUpstreams
    /\ UNCHANGED <<sent, queue, state, stored, answers>>

\* onClose.
ClientCloses ==
    /\ client # "closed"
    /\ IF client = "closing" THEN UNCHANGED faults ELSE Fault
    /\ client' = "closed"
    /\ AbortTurn /\ CloseUpstreams
    /\ UNCHANGED <<sent, queue, state, stored, answers>>

-----------------------------------------------------------------------------
(* A turn. *)

\* Messages are executed one after the other; a closed client has no turns.
Begin ==
    /\ turn = None /\ queue # <<>>
    /\ queue' = Tail(queue)
    /\ LET m == Head(queue)
       IN turn' = IF client # "open" THEN None
                  ELSE [n |-> m.n, prev |-> m.prev, generate |-> m.generate, store |-> m.store,
                        stage |-> "prepare", input |-> <<>>, tries |-> 0, dep |-> None,
                        source |-> None, continues |-> FALSE, got |-> None, id |-> None, aborted |-> FALSE]
    /\ UNCHANGED <<client, sent, state, stored, answers, upstream, faults>>

PreviousItems(prev) == IF state # None /\ state.id = prev THEN state.items ELSE stored[prev]

\* Mutated form: a failed turn costs the connection its state, whatever it named.
KeptStateNever(prev) == None

KeptState(prev) == IF state # None /\ state.id = prev THEN None ELSE state

\* invalidate().
KeptIds(b, prev) == IF b # None /\ prev # None /\ b.public = prev THEN NoIds ELSE b

\* The turn fails, and with it the continuation of the response it named.
Fail(told) ==
    /\ Answer(turn.n, turn.prev, IF told THEN "error" ELSE "silent")
    /\ state' = KeptState(turn.prev)
    /\ bindings' = [d \in Native |-> KeptIds(bindings[d], turn.prev)]
    /\ turn' = None
    /\ UNCHANGED <<client, sent, queue, stored>>

\* The message is parsed and authenticated, and the input expanded.
Prepare ==
    /\ turn # None /\ turn.stage = "prepare"
    /\ turn.prev # None => PreviousItems(turn.prev) # None
    /\ turn' = [turn EXCEPT !.stage = "route",
                            !.input = Append(IF turn.prev = None THEN <<>> ELSE PreviousItems(turn.prev), turn.n)]
    /\ UNCHANGED <<endpoint, upstream, faults>>

PrepareFails ==
    /\ turn # None /\ turn.stage = "prepare"
    /\ \/ Fault
       \/ turn.prev # None /\ PreviousItems(turn.prev) = None /\ UNCHANGED faults
    /\ Fail(TRUE)
    /\ UNCHANGED wire

\* Mutated form: the binding continues with its last response, whatever the client refers to.
CanContinueAlways(b) == turn.prev # None /\ b.upstream # None

CanContinue(b) == turn.prev # None /\ b.public = turn.prev /\ b.upstream # None

\* session.create: upstream adds the turn to what it keeps, or is sent everything.
Creates(w, content) == [w EXCEPT !.running = Append(@, [content |-> content, seen |-> FALSE]), !.reader = Reader]

Reads(d, source, continues) ==
    turn' = [turn EXCEPT !.stage = "read", !.tries = @ + 1, !.dep = d,
                         !.source = source, !.continues = continues]

Routable == turn # None /\ turn.stage = "route" /\ ~turn.aborted /\ turn.tries < MaxTries

\* execute() on an open binding.
Reuse(d) ==
    /\ Routable
    /\ bindings[d] # None /\ wire[d].open
    /\ IF wire[d].reader # None
       THEN turn' = [turn EXCEPT !.tries = @ + 1] /\ UNCHANGED wire
       ELSE LET continues == CanContinue(bindings[d])
                content == IF continues THEN Append(bindings[d].upstream, turn.n) ELSE turn.input
            IN  /\ wire' = [wire EXCEPT ![d] = Creates(@, content)]
                /\ Reads(d, "socket", continues)
    /\ UNCHANGED <<endpoint, bindings, faults>>

Connect(d) ==
    /\ Routable
    /\ bindings[d] = None \/ ~wire[d].open
    /\ bindings' = [bindings EXCEPT ![d] = NoIds]
    /\ wire' = [wire EXCEPT ![d] = Creates(Fresh, turn.input)]
    /\ Reads(d, "socket", FALSE)
    /\ UNCHANGED <<endpoint, faults>>

\* Without a native socket: HTTP with the whole input, or a warm-up made up locally.
WithoutSocket(d) ==
    /\ Routable
    /\ IF d \in Native THEN (bindings[d] = None \/ ~wire[d].open) /\ Fault ELSE UNCHANGED faults
    /\ Reads(d, IF turn.generate THEN "http" ELSE "local", FALSE)
    /\ UNCHANGED <<endpoint, upstream>>

\* No deployment is left, or the client has gone: the router gives up.
NoRoute ==
    /\ turn # None /\ turn.stage = "route"
    /\ turn.aborted \/ turn.tries = MaxTries
    /\ Fail(TRUE)
    /\ UNCHANGED <<wire, faults>>

\* The attempt is settled: its signal closes the socket it still reads.
Detached ==
    IF turn.source # "socket" THEN wire
    ELSE [wire EXCEPT ![turn.dep] =
            [(IF Settled(@.reader) THEN @ ELSE Closed(@)) EXCEPT !.reader = None]]

Reading == turn # None /\ turn.stage = "read"
ReaderEnd == wire[turn.dep].reader.end

\* Upstream fails or a deadline of the attempt passes; before any output the
\* request is routed again.
FailAttempt ==
    /\ wire' = Detached
    /\ \/ turn' = [turn EXCEPT !.stage = "route"] /\ UNCHANGED <<endpoint, bindings>>
       \/ turn.generate /\ Fail(TRUE)

AttemptFails ==
    /\ Reading
    /\ \/ turn.source = "http"
       \/ turn.source = "socket" /\ (turn.aborted \/ ReaderEnd # "completed")
       \* Upstream answers a native warm-up without output, which is taken for an error.
       \/ turn.source = "socket" /\ ~turn.generate
    /\ ~(turn.source = "socket" /\ turn.continues /\ ReaderEnd = "not_found")
    /\ FailAttempt
    /\ UNCHANGED faults

\* The client does not drain its buffer, or an extension throws, in mid-stream.
ConsumerFails(told) ==
    /\ Reading /\ turn.generate /\ ~turn.aborted /\ Fault
    /\ turn.source = "socket" => ReaderEnd \in {None, "completed"}
    /\ wire' = Detached
    /\ Fail(told)

\* Upstream has lost the response: once more on the same socket, with everything.
RetryInFull ==
    /\ Reading /\ turn.source = "socket" /\ turn.continues /\ ReaderEnd = "not_found"
    /\ turn' = [turn EXCEPT !.continues = FALSE]
    /\ bindings' = [bindings EXCEPT ![turn.dep] = NoIds]
    /\ wire' = [wire EXCEPT ![turn.dep] =
                  IF @.open THEN Creates(@, turn.input) ELSE [@ EXCEPT !.reader.end = "closed"]]
    /\ UNCHANGED <<endpoint, faults>>

\* The terminal of upstream has been read to its end.
Terminal ==
    /\ Reading
    /\ \/ turn.source = "http" /\ turn.generate /\ ~turn.aborted
          /\ turn' = [turn EXCEPT !.stage = "store", !.got = turn.input]
       \/ turn.source = "local"
          /\ turn' = [turn EXCEPT !.stage = "store", !.got = turn.input]
       \/ turn.source = "socket" /\ turn.generate /\ ReaderEnd = "completed"
          /\ turn' = [turn EXCEPT !.stage = "store", !.got = wire[turn.dep].reader.got,
                                  !.id = wire[turn.dep].reader.id]
    /\ wire' = Detached
    /\ UNCHANGED <<endpoint, bindings, faults>>

\* Mutated form: the sockets of other deployments stay open.
OthersKept(d) == UNCHANGED wire

OthersClosed(d) ==
    wire' = [e \in Native |-> IF e # d /\ bindings[e] # None THEN Closed(wire[e]) ELSE wire[e]]

Committed(b, d) ==
    IF turn.source # "socket" \/ turn.id = None \/ ~wire[d].open THEN b
    ELSE [public |-> turn.n, upstream |-> turn.id]

\* commit(): one deployment keeps its socket and remembers both ids.
Commit(d) ==
    /\ OthersClosed(d)
    /\ bindings' = [e \in Native |-> IF e # d THEN None
                                     ELSE IF bindings[e] = None THEN None
                                     ELSE Committed(bindings[e], e)]

\* The response is stored, becomes the state of the session, and is shown.
Complete ==
    /\ turn # None /\ turn.stage = "store"
    /\ stored' = IF turn.store THEN [stored EXCEPT ![turn.n] = turn.input] ELSE stored
    /\ state' = [id |-> turn.n, items |-> turn.input]
    /\ Commit(turn.dep)
    /\ Answer(turn.n, turn.prev, "completed")
    /\ turn' = None
    /\ UNCHANGED <<client, sent, queue, faults>>

StoreFails ==
    /\ turn # None /\ turn.stage = "store" /\ turn.store /\ Fault
    /\ Fail(TRUE)
    /\ UNCHANGED wire

-----------------------------------------------------------------------------
(* Upstream, and the deletion of stored responses. *)

\* The message handler of a socket: only a listening queue takes an event.
Emits(d, running, reader) ==
    LET w == wire[d]
    IN  wire' = [wire EXCEPT ![d] =
                    [w EXCEPT !.running = running, !.reader = IF Settled(w.reader) THEN w.reader ELSE reader]]

Head1(d) == Head(wire[d].running)
Generating(d) == wire[d].open /\ wire[d].running # <<>>

Resolves(reader, content) == [reader EXCEPT !.id = IF @ = None THEN content ELSE @]

Created(d) ==
    /\ Generating(d) /\ ~Head1(d).seen
    /\ Emits(d, [wire[d].running EXCEPT ![1].seen = TRUE], Resolves(wire[d].reader, Head1(d).content))
    /\ UNCHANGED <<endpoint, turn, bindings, faults>>

Finishes(d, end) ==
    /\ Generating(d)
    /\ CASE end = "completed" -> Head1(d).seen /\ UNCHANGED faults
         [] end = "not_found" -> ~Head1(d).seen /\ Len(Head1(d).content) > 1 /\ Fault
         [] end = "failed" -> Fault
    /\ Emits(d, Tail(wire[d].running), [wire[d].reader EXCEPT !.end = end, !.got = Head1(d).content])
    /\ UNCHANGED <<endpoint, turn, bindings>>

\* A binary message, invalid JSON or an event the parser refuses ends the turn's
\* queue, not the response.
Garbles(d) ==
    /\ Generating(d) /\ ~Settled(wire[d].reader) /\ Fault
    /\ wire' = [wire EXCEPT ![d].reader.end = "garbled", ![d].garbled = TRUE]
    /\ UNCHANGED <<endpoint, turn, bindings>>

UpstreamCloses(d) ==
    /\ wire[d].open /\ Fault
    /\ wire' = [wire EXCEPT ![d] = Closed(@)]
    /\ UNCHANGED <<endpoint, turn, bindings>>

\* DELETE /v1/responses/{id}, or the end of the retention.
Deleted(id) ==
    /\ stored[id] # None /\ Fault
    /\ stored' = [stored EXCEPT ![id] = None]
    /\ UNCHANGED <<client, sent, queue, state, answers, turn, upstream>>

-----------------------------------------------------------------------------
Turn ==
    \/ Begin \/ Prepare \/ PrepareFails \/ NoRoute \/ AttemptFails \/ RetryInFull
    \/ Terminal \/ Complete \/ StoreFails
    \/ \E d \in Native : Reuse(d) \/ Connect(d)
    \/ \E d \in Deployments : WithoutSocket(d)
    \/ \E told \in BOOLEAN : ConsumerFails(told)

Provider ==
    \E d \in Native :
        \/ Created(d) \/ Garbles(d) \/ UpstreamCloses(d)
        \/ \E end \in {"completed", "not_found", "failed"} : Finishes(d, end)

Next ==
    \/ \E prev \in 1..sent \cup {None}, generate, store \in BOOLEAN : Send(prev, generate, store)
    \/ TimeIsUp \/ Restart \/ ClientCloses
    \/ Turn \/ Provider
    \/ \E id \in Ids : Deleted(id)

\* Deadlines end every attempt, so a turn never waits for ever for upstream.
Fairness == WF_vars(Turn)

Spec == Init /\ [][Next]_vars /\ Fairness
-----------------------------------------------------------------------------
TypeOK ==
    /\ client \in {"open", "closing", "closed"} /\ sent \in 0..Messages /\ faults \in 0..MaxFaults
    /\ queue \in Seq(Requests) /\ QueuedTurns <= QueueLimit
    /\ turn \in Turns \cup {None} /\ state \in States \cup {None}
    /\ bindings \in [Native -> Bindings \cup {None}] /\ wire \in [Native -> Wires]
    /\ stored \in [Ids -> Contents \cup {None}] /\ answers \in Seq(Answers)

\* Every response is made from the whole conversation its client referred to,
\* whether upstream was sent all of it or continued from what it keeps
\* (gateway/responsesWebSocketSessions.ts:97-112). The exception is a socket on
\* which a message was garbled: what upstream goes on generating there is read
\* by the next turn.
HistoryKept ==
    turn # None /\ turn.stage = "store" =>
        \/ turn.got = turn.input
        \/ turn.source = "socket" /\ wire[turn.dep].garbled

\* "Additional response.create messages are queued in arrival order"
\* (responses.mdx): each accepted message has one last word, in that order, and
\* the last response a client was told is complete can be continued on its
\* connection until a turn that names it has failed.
AnswersInOrder ==
    LET accepted == {i \in DOMAIN answers : answers[i].kind # "refused"}
        done == {i \in accepted : answers[i].kind = "completed"}
    IN  /\ \A i, j \in accepted : i < j => answers[i].n < answers[j].n
        /\ client = "open" => \A i \in done :
               \/ \E j \in accepted : i < j /\ (j \in done \/ answers[j].prev = answers[i].n)
               \/ state # None /\ state.id = answers[i].n

\* Every accepted turn ends, and no upstream socket outlives its client.
TurnsEnd ==
    /\ turn # None \/ queue # <<>> ~> turn = None /\ queue = <<>>
    /\ client = "closed" ~> \A d \in Native : ~wire[d].open
=============================================================================
