---------------------------- MODULE SocketsProofs ----------------------------
(***************************************************************************)
(* For any number of messages, events, deployments and faults: a response  *)
(* is made from the conversation its client referred to, and a finished    *)
(* live session is charged the audio upstream received.                    *)
(***************************************************************************)
EXTENDS Sockets, SequenceTheorems, TLAPS

-----------------------------------------------------------------------------
(* A live session.                                                         *)

Flying == lHandling # None /\ lHandling.kind = "audio"

\* A client that waits for each answer has one event on its way.
Waiting ==
    /\ lHandling # None => lLink = "joined"
    /\ lPatient =>
        /\ lQueue # <<>> => Len(lQueue) = 1 /\ lHandling = None /\ lEchoes = <<>>
        /\ lHandling # None /\ lHandling.kind = "update" => lEchoes = <<>>
        /\ lQueue # <<>> => lLink = "joined"

\* Then gateway and upstream have one configuration while audio can move.
Agreed ==
    /\ lLink = "opening" => lConfig = L!Default /\ lUpConfig = L!Default
    /\ lPatient /\ ~lSpoiled =>
        /\ \A i \in 1..Len(lEchoes) : lEchoes[i] = lUpConfig
        /\ lOpen \/ Flying => lConfig = lUpConfig

\* Nothing reaches upstream once the session has ended.
Over ==
    ~lSpoiled =>
        /\ lLink \in {"opening", "failed"} => ~lOpen
        /\ lClient = "closed" \/ lFinished # None => ~lOpen /\ lLink # "pinning"
        /\ lFinished # None => lLink # "opening"

\* What upstream received has been counted, but for the piece being flushed.
Balanced ==
    lPatient /\ ~lSpoiled =>
        \A f \in Formats :
            lForwarded[f] = lAudio[f] + (IF Flying /\ lConfig.format = f THEN 1 ELSE 0)

LiveInv == L!TypeOK /\ Waiting /\ Agreed /\ Over /\ Balanced /\ L!AudioCharged

\* The type invariant, in four parts.
Flags == lOpen \in BOOLEAN /\ lReceiving \in BOOLEAN /\ lSpoiled \in BOOLEAN

Switches ==
    /\ lClient \in {"open", "closing", "closed"} /\ lPatient \in BOOLEAN /\ lSent \in 0..MaxEvents
    /\ lLink \in {"opening", "pinning", "joined", "failed"}
    /\ lReceiving => lLink = "joined"
    /\ lFaults \in 0..LiveFaults

Underway ==
    /\ lQueue \in Seq(L!Events) /\ lHandling \in L!Handlings \cup {None} /\ lEchoes \in Seq(L!Configs)
    /\ Len(lQueue) + (IF lHandling = None THEN 0 ELSE 1) <= EventLimit
    /\ lConfig \in L!Configs /\ lUpConfig \in L!Configs /\ lWanted \in L!Configs

Booked ==
    /\ lAudio \in [Formats -> Nat] /\ lForwarded \in [Formats -> Nat]
    /\ lFinished \in L!Accounts \cup {None}

LEMMA LiveParts == L!TypeOK <=> Flags /\ Switches /\ Underway /\ Booked
BY DEF L!TypeOK, Flags, Switches, Underway, Booked

LEMMA LiveNames ==
    /\ LiveFaults \in Nat /\ EventLimit \in Nat /\ MaxEvents \in Nat
    /\ L!Default \in L!Configs
    /\ \A x \in L!Handlings : x # None
BY SocketsAssumption DEF L!Default, L!Configs

LEMMA Merges ==
    ASSUME NEW p \in L!Patches, NEW c \in L!Configs
    PROVE  L!Merge(p, c) \in L!Configs
BY DEF L!Merge, L!Patches, L!Configs

LEMMA LiveStarts == L!Init => LiveInv
<1> SUFFICES ASSUME L!Init PROVE LiveInv
  OBVIOUS
<1>1. Flags /\ Switches /\ Underway
  <2>1. Flags
    BY Zenon DEF L!Init, Flags
  <2>2. Switches /\ Underway
    BY LiveNames DEF L!Init, Switches, Underway
  <2> QED  BY <2>1, <2>2
<1>2. Booked
  BY DEF L!Init, L!Nothing, Booked
<1>3. Waiting /\ Agreed /\ Over
  BY DEF L!Init, Waiting, Agreed, Over, Flying
<1>4. Balanced /\ L!AudioCharged
  BY DEF L!Init, Balanced, Flying, L!AudioCharged, L!Nothing
<1> QED  BY <1>1, <1>2, <1>3, <1>4, LiveParts DEF LiveInv

\* Every step keeps the types.
LEMMA LiveTypes == L!TypeOK /\ L!Next => L!TypeOK'
<1> SUFFICES ASSUME Flags, Switches, Underway, Booked, L!Next PROVE Flags' /\ Switches' /\ Underway' /\ Booked'
  BY LiveParts, PTL
<1> USE DEF L!socket, L!session, L!upstream, L!ghosts
<1>1. CASE \E event \in L!Events : L!Send(event)
  <2>1. Flags' /\ Switches'
    <3>1. Flags'
      BY <1>1, Zenon DEF L!Send, Flags
    <3>2. Switches'
      BY <1>1, LiveNames DEF L!Send, L!Closing, Switches
    <3> QED  BY <3>1, <3>2
  <2>2. Underway'
    BY <1>1, LiveNames DEF L!Send, Underway
  <2>3. Booked'
    BY <1>1 DEF L!Send, Booked, Underway, L!Accounts
  <2> QED  BY <2>1, <2>2, <2>3
<1>2. CASE L!Opens
  <2>1. Flags' /\ Switches'
    <3>1. Flags'
      BY <1>2, Zenon DEF L!Opens, Flags
    <3>2. Switches'
      BY <1>2, LiveNames DEF L!Opens, Switches
    <3> QED  BY <3>1, <3>2
  <2>2. Underway'
    BY <1>2, LiveNames DEF L!Opens, Underway
  <2>3. Booked'
    BY <1>2 DEF L!Opens, Booked, Underway, L!Accounts
  <2> QED  BY <2>1, <2>2, <2>3
<1>3. CASE L!Joins
  <2>1. Flags' /\ Switches'
    <3>1. Flags'
      BY <1>3, Zenon DEF L!Joins, Flags
    <3>2. Switches'
      BY <1>3, LiveNames DEF L!Joins, Switches
    <3> QED  BY <3>1, <3>2
  <2>2. Underway'
    BY <1>3, LiveNames DEF L!Joins, Underway
  <2>3. Booked'
    BY <1>3 DEF L!Joins, Booked, Underway, L!Accounts
  <2> QED  BY <2>1, <2>2, <2>3
<1>4. CASE L!ConnectFails
  <2>1. Flags' /\ Switches'
    <3>1. Flags'
      BY <1>4, Zenon DEF L!ConnectFails, L!Fault, L!Closing, Flags
    <3>2. Switches'
      BY <1>4, LiveNames DEF L!ConnectFails, L!Fault, L!Closing, Switches
    <3> QED  BY <3>1, <3>2
  <2>2. Underway'
    BY <1>4, LiveNames DEF L!ConnectFails, L!Fault, L!Closing, Underway
  <2>3. Booked'
    BY <1>4 DEF L!ConnectFails, L!Fault, L!Closing, Booked, Underway, L!Accounts
  <2> QED  BY <2>1, <2>2, <2>3
<1>5. CASE L!Handle
  <2>1. Flags' /\ Switches'
    <3>1. Flags'
      BY <1>5, Zenon DEF L!Handle, L!Dropped, Flags
    <3>2. Switches'
      BY <1>5, LiveNames DEF L!Handle, L!Dropped, Switches
    <3> QED  BY <3>1, <3>2
  <2>2. Underway'
    <3>1. lQueue # <<>> /\ lHandling = None /\ lQueue' = Tail(lQueue)
          /\ UNCHANGED <<lEchoes, lConfig, lUpConfig, lWanted>>
      BY <1>5 DEF L!Handle
    <3>2. Head(lQueue) \in L!Events /\ lQueue' \in Seq(L!Events) /\ Len(lQueue') = Len(lQueue) - 1
      BY <3>1 DEF Underway
    <3>3. lHandling' \in L!Handlings \cup {None}
      <4> DEFINE event == Head(lQueue)
      <4>1. event.kind = "update" => event.patch \in L!Patches
        BY <3>2 DEF L!Events
      <4>2. event.kind = "update" => L!Merge(event.patch, lConfig) \in L!Configs
        BY <4>1, Merges DEF Underway
      <4>3. \/ lHandling' = lHandling
            \/ event.kind = "update" /\ lHandling' = [kind |-> "update", config |-> L!Merge(event.patch, lConfig), patch |-> event.patch]
            \/ lHandling' = [kind |-> "audio"]
        BY <1>5 DEF L!Handle
      <4> HIDE DEF event
      <4> QED  BY <4>1, <4>2, <4>3 DEF L!Handlings, Underway
    <3> QED  BY <3>1, <3>2, <3>3, LiveNames DEF Underway
  <2>3. Booked'
    BY <1>5 DEF L!Handle, L!Dropped, Booked, Underway, L!Accounts
  <2> QED  BY <2>1, <2>2, <2>3
<1>6. CASE L!Update
  <2>1. Flags' /\ Switches'
    <3>1. Flags'
      BY <1>6, Zenon DEF L!Update, L!Dropped, Flags
    <3>2. Switches'
      BY <1>6, LiveNames DEF L!Update, L!Dropped, Switches
    <3> QED  BY <3>1, <3>2
  <2>2. Underway'
    <3>1. lHandling.config \in L!Configs /\ lHandling.patch \in L!Patches
      BY <1>6 DEF L!Update, L!Handlings, Underway
    <3>2. L!Merge(lHandling.patch, lWanted) \in L!Configs
      BY <3>1, Merges DEF Underway
    <3>3. [kind |-> "updated"] \in L!Handlings
      BY DEF L!Handlings
    <3>4. /\ lHandling' \in {None, [kind |-> "updated"]} /\ lHandling # None /\ lQueue' = lQueue
          /\ lConfig' = lHandling.config /\ lUpConfig' \in {lUpConfig, lHandling.config}
          /\ lEchoes' \in {lEchoes, Append(lEchoes, lHandling.config)}
          /\ lWanted' \in {lWanted, L!Merge(lHandling.patch, lWanted)}
      BY <1>6 DEF L!Update
    <3> QED  BY <3>1, <3>2, <3>3, <3>4, LiveNames DEF Underway
  <2>3. Booked'
    BY <1>6 DEF L!Update, L!Dropped, Booked, Underway, L!Accounts
  <2> QED  BY <2>1, <2>2, <2>3
<1>7. CASE L!Flushed
  <2>1. Flags' /\ Switches'
    <3>1. Flags'
      BY <1>7, Zenon DEF L!Flushed, L!Counted, Flags
    <3>2. Switches'
      BY <1>7, LiveNames DEF L!Flushed, L!Counted, Switches
    <3> QED  BY <3>1, <3>2
  <2>2. Underway'
    BY <1>7, LiveNames DEF L!Flushed, L!Counted, Underway
  <2>3. Booked'
    <3>1. lConfig.format \in Formats
      BY DEF Underway, L!Configs
    <3>2. [lAudio EXCEPT ![lConfig.format] = @ + 1] \in [Formats -> Nat]
      BY <3>1 DEF Booked
    <3> QED  BY <1>7, <3>2 DEF L!Flushed, L!Counted, Booked
  <2> QED  BY <2>1, <2>2, <2>3
<1>8. CASE L!Receive
  <2>1. Flags' /\ Switches'
    <3>1. Flags'
      BY <1>8, Zenon DEF L!Receive, Flags
    <3>2. Switches'
      BY <1>8, LiveNames DEF L!Receive, Switches
    <3> QED  BY <3>1, <3>2
  <2>2. Underway'
    BY <1>8, LiveNames DEF L!Receive, Underway
  <2>3. Booked'
    BY <1>8 DEF L!Receive, Booked, Underway, L!Accounts
  <2> QED  BY <2>1, <2>2, <2>3
<1>9. CASE L!ReceivingEnds
  <2>1. Flags' /\ Switches'
    <3>1. Flags'
      BY <1>9, Zenon DEF L!ReceivingEnds, L!Fault, L!Closing, Flags
    <3>2. Switches'
      BY <1>9, LiveNames DEF L!ReceivingEnds, L!Fault, L!Closing, Switches
    <3> QED  BY <3>1, <3>2
  <2>2. Underway'
    BY <1>9, LiveNames DEF L!ReceivingEnds, L!Fault, L!Closing, Underway
  <2>3. Booked'
    BY <1>9 DEF L!ReceivingEnds, L!Fault, L!Closing, Booked, Underway, L!Accounts
  <2> QED  BY <2>1, <2>2, <2>3
<1>10. CASE L!Finish
  <2>1. Flags' /\ Switches'
    <3>1. Flags'
      BY <1>10, Zenon DEF L!Finish, L!Settles, L!Settled, Flags
    <3>2. Switches'
      BY <1>10, LiveNames DEF L!Finish, L!Settles, L!Settled, Switches
    <3> QED  BY <3>1, <3>2
  <2>2. Underway'
    BY <1>10, LiveNames DEF L!Finish, L!Settles, L!Settled, Underway
  <2>3. Booked'
    BY <1>10 DEF L!Finish, L!Settles, L!Settled, Booked, Underway, L!Accounts
  <2> QED  BY <2>1, <2>2, <2>3
<1>11. CASE L!ClientCloses
  <2>1. Flags' /\ Switches'
    <3>1. Flags'
      BY <1>11, Zenon DEF L!ClientCloses, L!UpstreamClosed, L!Fault, Flags
    <3>2. Switches'
      BY <1>11, LiveNames DEF L!ClientCloses, L!UpstreamClosed, L!Fault, Switches
    <3> QED  BY <3>1, <3>2
  <2>2. Underway'
    BY <1>11, LiveNames DEF L!ClientCloses, L!UpstreamClosed, L!Fault, Underway
  <2>3. Booked'
    BY <1>11 DEF L!ClientCloses, L!UpstreamClosed, L!Fault, Booked, Underway, L!Accounts
  <2> QED  BY <2>1, <2>2, <2>3
<1>12. CASE L!UpdateRejected
  <2>1. Flags' /\ Switches'
    <3>1. Flags'
      BY <1>12, Zenon DEF L!UpdateRejected, L!Fault, Flags
    <3>2. Switches'
      BY <1>12, LiveNames DEF L!UpdateRejected, L!Fault, Switches
    <3> QED  BY <3>1, <3>2
  <2>2. Underway'
    <3>1. lHandling # None /\ lHandling.config \in L!Configs /\ lHandling' = [kind |-> "updated"]
      BY <1>12 DEF L!UpdateRejected, L!Handlings, Underway
    <3>2. [kind |-> "updated"] \in L!Handlings
      BY DEF L!Handlings
    <3> QED  BY <1>12, <3>1, <3>2, LiveNames DEF L!UpdateRejected, Underway
  <2>3. Booked'
    BY <1>12 DEF L!UpdateRejected, L!Fault, Booked, Underway, L!Accounts
  <2> QED  BY <2>1, <2>2, <2>3
<1>13. CASE L!UpdateRefused
  <2>1. Flags' /\ Switches'
    <3>1. Flags'
      BY <1>13, Zenon DEF L!UpdateRefused, L!Fault, Flags
    <3>2. Switches'
      BY <1>13, LiveNames DEF L!UpdateRefused, L!Fault, Switches
    <3> QED  BY <3>1, <3>2
  <2>2. Underway'
    BY <1>13, LiveNames DEF L!UpdateRefused, L!Fault, Underway
  <2>3. Booked'
    BY <1>13 DEF L!UpdateRefused, L!Fault, Booked, Underway, L!Accounts
  <2> QED  BY <2>1, <2>2, <2>3
<1>14. CASE L!FlushFails
  <2>1. Flags' /\ Switches'
    <3>1. Flags'
      BY <1>14, Zenon DEF L!FlushFails, L!Dropped, L!Fault, Flags
    <3>2. Switches'
      BY <1>14, LiveNames DEF L!FlushFails, L!Dropped, L!Fault, Switches
    <3> QED  BY <3>1, <3>2
  <2>2. Underway'
    BY <1>14, LiveNames DEF L!FlushFails, L!Dropped, L!Fault, Underway
  <2>3. Booked'
    BY <1>14 DEF L!FlushFails, L!Dropped, L!Fault, Booked, Underway, L!Accounts
  <2> QED  BY <2>1, <2>2, <2>3
<1>15. CASE L!UpstreamCloses
  <2>1. Flags' /\ Switches'
    <3>1. Flags'
      BY <1>15, Zenon DEF L!UpstreamCloses, L!Fault, Flags
    <3>2. Switches'
      BY <1>15, LiveNames DEF L!UpstreamCloses, L!Fault, Switches
    <3> QED  BY <3>1, <3>2
  <2>2. Underway'
    BY <1>15, LiveNames DEF L!UpstreamCloses, L!Fault, Underway
  <2>3. Booked'
    BY <1>15 DEF L!UpstreamCloses, L!Fault, Booked, Underway, L!Accounts
  <2> QED  BY <2>1, <2>2, <2>3
<1>16. CASE L!LimitReached
  <2>1. Flags' /\ Switches'
    <3>1. Flags'
      BY <1>16, Zenon DEF L!LimitReached, L!Fault, Flags
    <3>2. Switches'
      BY <1>16, LiveNames DEF L!LimitReached, L!Fault, Switches
    <3> QED  BY <3>1, <3>2
  <2>2. Underway'
    BY <1>16, LiveNames DEF L!LimitReached, L!Fault, Underway
  <2>3. Booked'
    BY <1>16 DEF L!LimitReached, L!Fault, Booked, Underway, L!Accounts
  <2> QED  BY <2>1, <2>2, <2>3
<1>17. CASE L!Restart
  <2>1. Flags' /\ Switches'
    <3>1. Flags'
      BY <1>17, Zenon DEF L!Restart, L!Settles, L!UpstreamClosed, L!Fault, L!Closing, Flags
    <3>2. Switches'
      BY <1>17, LiveNames DEF L!Restart, L!Settles, L!UpstreamClosed, L!Fault, L!Closing, Switches
    <3> QED  BY <3>1, <3>2
  <2>2. Underway'
    BY <1>17, LiveNames DEF L!Restart, L!Settles, L!UpstreamClosed, L!Fault, L!Closing, Underway
  <2>3. Booked'
    BY <1>17 DEF L!Restart, L!Settles, L!UpstreamClosed, L!Fault, L!Closing, Booked, Underway, L!Accounts
  <2> QED  BY <2>1, <2>2, <2>3
<1> QED
  BY <1>1, <1>2, <1>3, <1>4, <1>5, <1>6, <1>7, <1>8, <1>9, <1>10, <1>11, <1>12, <1>13, <1>14, <1>15, <1>16, <1>17
     DEF L!Next, L!Relay

\* A client that waits keeps one event on its way.
LEMMA WaitingKept == L!TypeOK /\ Waiting /\ L!Next => Waiting'
<1> SUFFICES ASSUME L!TypeOK /\ Waiting, L!Next PROVE Waiting'
  OBVIOUS
<1> USE DEF L!socket, L!session, L!upstream, L!ghosts
<1>1. CASE \E event \in L!Events : L!Send(event)
  <2>1. /\ UNCHANGED <<lHandling, lLink, lPatient, lEchoes>>
        /\ lPatient => lLink = "joined" /\ lQueue = <<>> /\ lHandling = None /\ lEchoes = <<>>
        /\ \/ UNCHANGED lQueue
           \/ \E event \in L!Events : lQueue' = Append(lQueue, event)
    BY <1>1 DEF L!Send, L!Quiet
  <2>2. lPatient => lQueue' = <<>> \/ Len(lQueue') = 1
    BY <2>1
  <2> QED  BY <2>1, <2>2 DEF Waiting
<1>2. CASE L!Opens
  BY <1>2 DEF L!Opens, Waiting, L!TypeOK
<1>3. CASE L!Joins
  BY <1>3 DEF L!Joins, Waiting, L!TypeOK
<1>4. CASE L!ConnectFails
  BY <1>4 DEF L!ConnectFails, L!Closing, Waiting, L!TypeOK
<1>5. CASE L!Handle
  BY <1>5 DEF L!Handle, L!Dropped, Waiting, L!TypeOK
<1>6. CASE L!Update
  BY <1>6 DEF L!Update, L!Dropped, Waiting, L!TypeOK
<1>7. CASE L!Flushed
  BY <1>7 DEF L!Flushed, L!Counted, Waiting, L!TypeOK
<1>8. CASE L!Receive
  BY <1>8 DEF L!Receive, Waiting, L!TypeOK
<1>9. CASE L!ReceivingEnds
  BY <1>9 DEF L!ReceivingEnds, L!Closing, Waiting, L!TypeOK
<1>10. CASE L!Finish
  BY <1>10 DEF L!Finish, L!Settles, L!Settled, Waiting, L!TypeOK
<1>11. CASE L!ClientCloses
  BY <1>11 DEF L!ClientCloses, L!UpstreamClosed, Waiting, L!TypeOK
<1>12. CASE L!UpdateRejected
  BY <1>12 DEF L!UpdateRejected, Waiting, L!TypeOK
<1>13. CASE L!UpdateRefused
  BY <1>13 DEF L!UpdateRefused, Waiting, L!TypeOK
<1>14. CASE L!FlushFails
  BY <1>14 DEF L!FlushFails, L!Dropped, Waiting, L!TypeOK
<1>15. CASE L!UpstreamCloses
  BY <1>15 DEF L!UpstreamCloses, Waiting, L!TypeOK
<1>16. CASE L!LimitReached
  BY <1>16 DEF L!LimitReached, Waiting, L!TypeOK
<1>17. CASE L!Restart
  BY <1>17 DEF L!Restart, L!Settles, L!UpstreamClosed, L!Closing, Waiting, L!TypeOK
<1> QED
  BY <1>1, <1>2, <1>3, <1>4, <1>5, <1>6, <1>7, <1>8, <1>9, <1>10, <1>11, <1>12, <1>13, <1>14, <1>15, <1>16, <1>17
     DEF L!Next, L!Relay

\* The two configurations stay together.
LEMMA AgreedKept == LiveInv /\ L!Next => Agreed'
<1> SUFFICES ASSUME LiveInv, L!Next PROVE Agreed'
  OBVIOUS
<1> USE DEF L!socket, L!session, L!upstream, L!ghosts
<1>1. CASE \E event \in L!Events : L!Send(event)
  BY <1>1 DEF L!Send, L!Closing, L!Quiet, Agreed, Flying, LiveInv, L!TypeOK, Waiting, Over
<1>2. CASE L!Opens
  BY <1>2 DEF L!Opens, Agreed, Flying, LiveInv, L!TypeOK, Waiting, Over
<1>3. CASE L!Joins
  BY <1>3 DEF L!Joins, Agreed, Flying, LiveInv, L!TypeOK, Waiting, Over
<1>4. CASE L!ConnectFails
  BY <1>4 DEF L!ConnectFails, L!Closing, Agreed, Flying, LiveInv, L!TypeOK, Waiting, Over
<1>5. CASE L!Handle
  BY <1>5 DEF L!Handle, L!Dropped, Agreed, Flying, LiveInv, L!TypeOK, Waiting, Over
<1>6. CASE L!Update
  <2>1. lHandling # None /\ lLink = "joined" /\ lLink' = lLink
    BY <1>6 DEF L!Update, LiveInv, Waiting
  <2>2. CASE ~lOpen
    BY <1>6, <2>1, <2>2 DEF L!Update, L!Dropped, Agreed, Flying, LiveInv
  <2>3. CASE lOpen
    <3>1. /\ lConfig' = lHandling.config /\ lUpConfig' = lHandling.config
          /\ lEchoes' = Append(lEchoes, lHandling.config)
      BY <1>6, <2>3 DEF L!Update
    <3>2. lPatient' => lEchoes = <<>>
      BY <1>6 DEF L!Update, LiveInv, Waiting
    <3>3. lPatient' => \A i \in 1..Len(lEchoes') : lEchoes'[i] = lUpConfig'
      BY <3>1, <3>2
    <3> QED  BY <2>1, <3>1, <3>3 DEF Agreed
  <2> QED  BY <2>2, <2>3
<1>7. CASE L!Flushed
  BY <1>7 DEF L!Flushed, L!Counted, Agreed, Flying, LiveInv, L!TypeOK, Waiting, Over
<1>8. CASE L!Receive
  BY <1>8 DEF L!Receive, Agreed, Flying, LiveInv, L!TypeOK, Waiting, Over
<1>9. CASE L!ReceivingEnds
  BY <1>9 DEF L!ReceivingEnds, L!Closing, Agreed, Flying, LiveInv, L!TypeOK, Waiting, Over
<1>10. CASE L!Finish
  BY <1>10 DEF L!Finish, L!Settles, L!Settled, Agreed, Flying, LiveInv, L!TypeOK, Waiting, Over
<1>11. CASE L!ClientCloses
  BY <1>11 DEF L!ClientCloses, L!UpstreamClosed, Agreed, Flying, LiveInv, L!TypeOK, Waiting, Over
<1>12. CASE L!UpdateRejected
  BY <1>12 DEF L!UpdateRejected, Agreed, Flying, LiveInv, L!TypeOK, Waiting, Over
<1>13. CASE L!UpdateRefused
  BY <1>13 DEF L!UpdateRefused, Agreed, Flying, LiveInv, L!TypeOK, Waiting, Over
<1>14. CASE L!FlushFails
  BY <1>14 DEF L!FlushFails, L!Dropped, Agreed, Flying, LiveInv, L!TypeOK, Waiting, Over
<1>15. CASE L!UpstreamCloses
  BY <1>15 DEF L!UpstreamCloses, Agreed, Flying, LiveInv, L!TypeOK, Waiting, Over
<1>16. CASE L!LimitReached
  BY <1>16 DEF L!LimitReached, Agreed, Flying, LiveInv, L!TypeOK, Waiting, Over
<1>17. CASE L!Restart
  BY <1>17 DEF L!Restart, L!Settles, L!UpstreamClosed, L!Closing, Agreed, Flying, LiveInv, L!TypeOK, Waiting, Over
<1> QED
  BY <1>1, <1>2, <1>3, <1>4, <1>5, <1>6, <1>7, <1>8, <1>9, <1>10, <1>11, <1>12, <1>13, <1>14, <1>15, <1>16, <1>17
     DEF L!Next, L!Relay

\* What has ended stays so.
LEMMA OverKept == LiveInv /\ L!Next => Over'
<1> SUFFICES ASSUME LiveInv, L!Next PROVE Over'
  OBVIOUS
<1> USE DEF L!socket, L!session, L!upstream, L!ghosts
<1>1. CASE \E event \in L!Events : L!Send(event)
  BY <1>1 DEF L!Send, L!Closing, L!Quiet, Over, LiveInv, L!TypeOK, Agreed
<1>2. CASE L!Opens
  BY <1>2 DEF L!Opens, Over, LiveInv, L!TypeOK, Agreed
<1>3. CASE L!Joins
  BY <1>3 DEF L!Joins, Over, LiveInv, L!TypeOK, Agreed
<1>4. CASE L!ConnectFails
  BY <1>4 DEF L!ConnectFails, L!Closing, Over, LiveInv, L!TypeOK, Agreed
<1>5. CASE L!Handle
  BY <1>5 DEF L!Handle, L!Dropped, Over, LiveInv, L!TypeOK, Agreed
<1>6. CASE L!Update
  BY <1>6 DEF L!Update, L!Dropped, Over, LiveInv, L!TypeOK, Agreed
<1>7. CASE L!Flushed
  BY <1>7 DEF L!Flushed, L!Counted, Over, LiveInv, L!TypeOK, Agreed
<1>8. CASE L!Receive
  BY <1>8 DEF L!Receive, Over, LiveInv, L!TypeOK, Agreed
<1>9. CASE L!ReceivingEnds
  BY <1>9 DEF L!ReceivingEnds, L!Closing, Over, LiveInv, L!TypeOK, Agreed
<1>10. CASE L!Finish
  BY <1>10 DEF L!Finish, L!Settles, L!Settled, Over, LiveInv, L!TypeOK, Agreed
<1>11. CASE L!ClientCloses
  BY <1>11 DEF L!ClientCloses, L!UpstreamClosed, Over, LiveInv, L!TypeOK, Agreed
<1>12. CASE L!UpdateRejected
  BY <1>12 DEF L!UpdateRejected, Over, LiveInv, L!TypeOK, Agreed
<1>13. CASE L!UpdateRefused
  BY <1>13 DEF L!UpdateRefused, Over, LiveInv, L!TypeOK, Agreed
<1>14. CASE L!FlushFails
  BY <1>14 DEF L!FlushFails, L!Dropped, Over, LiveInv, L!TypeOK, Agreed
<1>15. CASE L!UpstreamCloses
  BY <1>15 DEF L!UpstreamCloses, Over, LiveInv, L!TypeOK, Agreed
<1>16. CASE L!LimitReached
  BY <1>16 DEF L!LimitReached, Over, LiveInv, L!TypeOK, Agreed
<1>17. CASE L!Restart
  BY <1>17 DEF L!Restart, L!Settles, L!UpstreamClosed, L!Closing, Over, LiveInv, L!TypeOK, Agreed
<1> QED
  BY <1>1, <1>2, <1>3, <1>4, <1>5, <1>6, <1>7, <1>8, <1>9, <1>10, <1>11, <1>12, <1>13, <1>14, <1>15, <1>16, <1>17
     DEF L!Next, L!Relay

\* A piece of audio is counted once it has been flushed.
LEMMA BalancedKept == LiveInv /\ L!Next => Balanced'
<1> SUFFICES ASSUME LiveInv, L!Next PROVE Balanced'
  OBVIOUS
<1> USE DEF L!socket, L!session, L!upstream, L!ghosts
<1>1. CASE \E event \in L!Events : L!Send(event)
  BY <1>1 DEF L!Send, L!Closing, L!Quiet, Balanced, Flying, LiveInv, L!TypeOK, Agreed
<1>2. CASE L!Opens
  BY <1>2 DEF L!Opens, Balanced, Flying, LiveInv, L!TypeOK, Agreed
<1>3. CASE L!Joins
  BY <1>3 DEF L!Joins, Balanced, Flying, LiveInv, L!TypeOK, Agreed
<1>4. CASE L!ConnectFails
  BY <1>4 DEF L!ConnectFails, L!Closing, Balanced, Flying, LiveInv, L!TypeOK, Agreed
<1>5. CASE L!Handle
  <2>1. lHandling = None /\ UNCHANGED <<lPatient, lSpoiled, lConfig, lAudio>>
    BY <1>5 DEF L!Handle
  <2>2. \/ UNCHANGED lForwarded /\ (lHandling' = None \/ lHandling'.kind = "update")
        \/ /\ lOpen /\ lHandling' = [kind |-> "audio"]
           /\ lForwarded' = [lForwarded EXCEPT ![lUpConfig.format] = @ + 1]
    BY <1>5 DEF L!Handle
  <2>3. CASE UNCHANGED lForwarded /\ (lHandling' = None \/ lHandling'.kind = "update")
    BY <2>1, <2>3 DEF Balanced, Flying, LiveInv
  <2>4. CASE /\ lOpen /\ lHandling' = [kind |-> "audio"]
             /\ lForwarded' = [lForwarded EXCEPT ![lUpConfig.format] = @ + 1]
    <3>2. Flying' /\ ~Flying
      BY <2>1, <2>4, LiveNames DEF Flying, L!Handlings
    <3>3. lPatient /\ ~lSpoiled => lUpConfig = lConfig
      BY <2>4 DEF LiveInv, Agreed
    <3> QED  BY <2>1, <2>4, <3>2, <3>3 DEF Balanced, LiveInv, L!TypeOK
  <2> QED  BY <2>2, <2>3, <2>4
<1>6. CASE L!Update
  BY <1>6 DEF L!Update, L!Dropped, Balanced, Flying, LiveInv, L!TypeOK, Agreed
<1>7. CASE L!Flushed
  BY <1>7 DEF L!Flushed, L!Counted, Balanced, Flying, LiveInv, L!TypeOK, Agreed
<1>8. CASE L!Receive
  BY <1>8 DEF L!Receive, Balanced, Flying, LiveInv, L!TypeOK, Agreed
<1>9. CASE L!ReceivingEnds
  BY <1>9 DEF L!ReceivingEnds, L!Closing, Balanced, Flying, LiveInv, L!TypeOK, Agreed
<1>10. CASE L!Finish
  BY <1>10 DEF L!Finish, L!Settles, L!Settled, Balanced, Flying, LiveInv, L!TypeOK, Agreed
<1>11. CASE L!ClientCloses
  BY <1>11 DEF L!ClientCloses, L!UpstreamClosed, Balanced, Flying, LiveInv, L!TypeOK, Agreed
<1>12. CASE L!UpdateRejected
  BY <1>12 DEF L!UpdateRejected, Balanced, Flying, LiveInv, L!TypeOK, Agreed
<1>13. CASE L!UpdateRefused
  BY <1>13 DEF L!UpdateRefused, Balanced, Flying, LiveInv, L!TypeOK, Agreed
<1>14. CASE L!FlushFails
  BY <1>14 DEF L!FlushFails, L!Dropped, Balanced, Flying, LiveInv, L!TypeOK, Agreed
<1>15. CASE L!UpstreamCloses
  BY <1>15 DEF L!UpstreamCloses, Balanced, Flying, LiveInv, L!TypeOK, Agreed
<1>16. CASE L!LimitReached
  BY <1>16 DEF L!LimitReached, Balanced, Flying, LiveInv, L!TypeOK, Agreed
<1>17. CASE L!Restart
  BY <1>17 DEF L!Restart, L!Settles, L!UpstreamClosed, L!Closing, Balanced, Flying, LiveInv, L!TypeOK, Agreed
<1> QED
  BY <1>1, <1>2, <1>3, <1>4, <1>5, <1>6, <1>7, <1>8, <1>9, <1>10, <1>11, <1>12, <1>13, <1>14, <1>15, <1>16, <1>17
     DEF L!Next, L!Relay

\* The account of a session does not change after its end.
LEMMA ChargedKept == LiveInv /\ L!Next => L!AudioCharged'
<1> SUFFICES ASSUME LiveInv, L!Next PROVE L!AudioCharged'
  OBVIOUS
<1> USE DEF L!socket, L!session, L!upstream, L!ghosts
<1>1. CASE \E event \in L!Events : L!Send(event)
  BY <1>1 DEF L!Send, L!Closing, L!Quiet, L!AudioCharged, LiveInv, L!TypeOK, Balanced, Flying, Over
<1>2. CASE L!Opens
  BY <1>2 DEF L!Opens, L!AudioCharged, LiveInv, L!TypeOK, Balanced, Flying, Over
<1>3. CASE L!Joins
  BY <1>3 DEF L!Joins, L!AudioCharged, LiveInv, L!TypeOK, Balanced, Flying, Over
<1>4. CASE L!ConnectFails
  BY <1>4 DEF L!ConnectFails, L!Closing, L!AudioCharged, LiveInv, L!TypeOK, Balanced, Flying, Over
<1>5. CASE L!Handle
  BY <1>5 DEF L!Handle, L!Dropped, L!AudioCharged, LiveInv, L!TypeOK, Balanced, Flying, Over
<1>6. CASE L!Update
  BY <1>6 DEF L!Update, L!Dropped, L!AudioCharged, LiveInv, L!TypeOK, Balanced, Flying, Over
<1>7. CASE L!Flushed
  BY <1>7 DEF L!Flushed, L!Counted, L!AudioCharged, LiveInv, L!TypeOK, Balanced, Flying, Over
<1>8. CASE L!Receive
  BY <1>8 DEF L!Receive, L!AudioCharged, LiveInv, L!TypeOK, Balanced, Flying, Over
<1>9. CASE L!ReceivingEnds
  BY <1>9 DEF L!ReceivingEnds, L!Closing, L!AudioCharged, LiveInv, L!TypeOK, Balanced, Flying, Over
<1>10. CASE L!Finish
  BY <1>10 DEF L!Finish, L!Settles, L!Settled, L!AudioCharged, LiveInv, L!TypeOK, Balanced, Flying, Over
<1>11. CASE L!ClientCloses
  BY <1>11 DEF L!ClientCloses, L!UpstreamClosed, L!AudioCharged, LiveInv, L!TypeOK, Balanced, Flying, Over
<1>12. CASE L!UpdateRejected
  BY <1>12 DEF L!UpdateRejected, L!AudioCharged, LiveInv, L!TypeOK, Balanced, Flying, Over
<1>13. CASE L!UpdateRefused
  BY <1>13 DEF L!UpdateRefused, L!AudioCharged, LiveInv, L!TypeOK, Balanced, Flying, Over
<1>14. CASE L!FlushFails
  BY <1>14 DEF L!FlushFails, L!Dropped, L!AudioCharged, LiveInv, L!TypeOK, Balanced, Flying, Over
<1>15. CASE L!UpstreamCloses
  BY <1>15 DEF L!UpstreamCloses, L!AudioCharged, LiveInv, L!TypeOK, Balanced, Flying, Over
<1>16. CASE L!LimitReached
  BY <1>16 DEF L!LimitReached, L!AudioCharged, LiveInv, L!TypeOK, Balanced, Flying, Over
<1>17. CASE L!Restart
  BY <1>17 DEF L!Restart, L!Settles, L!UpstreamClosed, L!Closing, L!AudioCharged, LiveInv, L!TypeOK, Balanced, Flying, Over
<1> QED
  BY <1>1, <1>2, <1>3, <1>4, <1>5, <1>6, <1>7, <1>8, <1>9, <1>10, <1>11, <1>12, <1>13, <1>14, <1>15, <1>16, <1>17
     DEF L!Next, L!Relay

LEMMA LiveKept == LiveInv /\ L!Next => LiveInv'
<1> SUFFICES ASSUME LiveInv, L!Next PROVE LiveInv'
  OBVIOUS
<1> QED  BY LiveTypes, WaitingKept, AgreedKept, OverKept, BalancedKept, ChargedKept DEF LiveInv

-----------------------------------------------------------------------------
(* A Responses WebSocket: its invariant.                                   *)

\* Every message that is still to be answered came after this one.
Told(k) ==
    /\ k <= sent
    /\ turn # None => k < turn.n
    /\ \A i \in 1..Len(queue) : k < queue[i].n

\* A message that has been answered, is stored, or is remembered.
Marked(k) ==
    \/ state # None /\ state.id = k
    \/ k \in R!Ids /\ stored[k] # None
    \/ \E d \in Native : bindings[d] # None /\ bindings[d].public # None /\ bindings[d].public = k
    \/ \E i \in 1..Len(answers) : answers[i].kind # "refused" /\ answers[i].n = k

\* Messages are answered, stored and remembered in the order they came.
Numbered ==
    /\ turn # None => turn.n <= sent
    /\ \A i \in 1..Len(queue) :
          /\ queue[i].n <= sent /\ (turn # None => turn.n < queue[i].n)
          /\ \A j \in 1..Len(queue) : i < j => queue[i].n < queue[j].n
    /\ \A k \in R!Ids : Marked(k) => Told(k)

\* The three memories of a response agree: the session's, the table's and upstream's.
Remembered ==
    /\ state # None /\ stored[state.id] # None => stored[state.id] = state.items
    /\ \A d \in Native :
          bindings[d] # None /\ bindings[d].public # None /\ ~wire[d].garbled =>
              /\ state # None /\ state.id = bindings[d].public => bindings[d].upstream = state.items
              /\ stored[bindings[d].public] # None => bindings[d].upstream = stored[bindings[d].public]

\* A turn that continues upstream adds itself to what its input begins with.
Continued ==
    turn # None /\ turn.stage # "prepare" =>
        \A d \in Native :
            bindings[d] # None /\ bindings[d].public # None /\ bindings[d].public = turn.prev /\ ~wire[d].garbled =>
                turn.input = Append(bindings[d].upstream, turn.n)

\* A socket no turn reads runs nothing, unless something was garbled on it.
Idle(w) == w.reader = None /\ (~w.garbled => w.running = <<>>)

\* A socket that a turn with this input reads runs its response, until it ends.
Busy(w, input) ==
    /\ w.reader # None
    /\ ~w.garbled =>
          /\ IF w.reader.end # None THEN w.running = <<>>
             ELSE /\ Len(w.running) = 1 /\ w.running[1].content = input
                  /\ w.reader.id = IF w.running[1].seen THEN input ELSE None
          /\ w.reader.end = "completed" => w.reader.got = input /\ w.reader.id = input

ReadsOn(d) == turn # None /\ turn.stage = "read" /\ turn.source = "socket" /\ turn.dep = d

Undisturbed ==
    /\ turn # None /\ turn.stage \in {"read", "store"} /\ turn.source = "socket" => turn.dep \in Native
    /\ \A d \in Native : IF ReadsOn(d) THEN Busy(wire[d], turn.input) ELSE Idle(wire[d])

\* What a turn read is what it asked for.
Faithful ==
    turn # None /\ turn.stage = "store" =>
        \/ turn.source = "socket" /\ wire[turn.dep].garbled
        \/ turn.got = turn.input /\ (turn.source = "socket" => turn.id = turn.input)

ResponsesInv ==
    R!TypeOK /\ Numbered /\ Remembered /\ Continued /\ Undisturbed /\ Faithful /\ R!AnswersInOrder

-----------------------------------------------------------------------------
(* A Responses WebSocket: its types.                                       *)

Connection == client \in {"open", "closing", "closed"} /\ sent \in 0..Messages /\ faults \in 0..MaxFaults
Queueing == queue \in Seq(R!Requests) /\ R!QueuedTurns <= TurnLimit
Turning == turn \in R!Turns \cup {None}
Memory == /\ state \in R!States \cup {None} /\ stored \in [R!Ids -> R!Contents \cup {None}]
          /\ answers \in Seq(R!Answers)
Upstream == bindings \in [Native -> R!Bindings \cup {None}] /\ wire \in [Native -> R!Wires]

LEMMA ResponsesParts == R!TypeOK <=> Connection /\ Queueing /\ Turning /\ Memory /\ Upstream
BY DEF R!TypeOK, Connection, Queueing, Turning, Memory, Upstream

LEMMA ResponsesNames ==
    /\ Messages \in Nat /\ TurnLimit \in Nat /\ MaxTries \in Nat /\ MaxFaults \in Nat
    /\ \A x \in R!Turns : x # None
    /\ \A x \in R!States : x # None
    /\ \A x \in R!Readers : x # None
    /\ \A x \in R!Endings : x # None
    /\ \A x \in R!Ids : x # None /\ x \in Nat
BY SocketsAssumption DEF R!Ids

\* What happens to a socket keeps its type.
LEMMA WireTypes ==
    ASSUME NEW w \in R!Wires
    PROVE  /\ R!Closed(w) \in R!Wires /\ R!Closed(w).garbled = w.garbled
           /\ R!Closed(w).running = <<>>
           /\ R!Closed(w).reader = IF R!Settled(w.reader) THEN w.reader ELSE [w.reader EXCEPT !.end = "closed"]
           /\ \A c \in R!Contents :
                 /\ R!Creates(w, c) \in R!Wires /\ R!Creates(w, c).garbled = w.garbled
                 /\ R!Creates(w, c).running = Append(w.running, [content |-> c, seen |-> FALSE])
                 /\ R!Creates(w, c).reader = R!Reader
           /\ R!Fresh \in R!Wires /\ R!Fresh.running = <<>> /\ ~R!Fresh.garbled
           /\ R!Reader \in R!Readers /\ R!Reader.end = None /\ R!Reader.id = None
<1>1. R!Reader \in R!Readers /\ R!Reader.end = None /\ R!Reader.id = None
  BY DEF R!Reader, R!Readers
<1>2. R!Shut \in R!Wires /\ R!Shut.running = <<>> /\ ~R!Shut.garbled
  BY DEF R!Shut, R!Wires
<1>3. R!Fresh \in R!Wires /\ R!Fresh.running = <<>> /\ ~R!Fresh.garbled
  BY <1>2 DEF R!Fresh, R!Wires
<1>4. ASSUME NEW r \in R!Readers \cup {None}
      PROVE  (IF R!Settled(r) THEN r ELSE [r EXCEPT !.end = "closed"]) \in R!Readers \cup {None}
  BY DEF R!Settled, R!Readers, R!Endings
<1>5. /\ R!Closed(w) \in R!Wires /\ R!Closed(w).garbled = w.garbled
      /\ R!Closed(w).running = <<>>
      /\ R!Closed(w).reader = IF R!Settled(w.reader) THEN w.reader ELSE [w.reader EXCEPT !.end = "closed"]
  <2>1. w.reader \in R!Readers \cup {None} /\ w.garbled \in BOOLEAN
    BY DEF R!Wires
  <2> DEFINE r == IF R!Settled(w.reader) THEN w.reader ELSE [w.reader EXCEPT !.end = "closed"]
  <2>2. r \in R!Readers \cup {None}
    BY <1>4, <2>1
  <2>3. R!Closed(w) = [w EXCEPT !.open = FALSE, !.running = <<>>, !.reader = r]
    BY DEF R!Closed, R!Wires
  <2> HIDE DEF r
  <2>4. <<>> \in Seq([content : R!Contents, seen : BOOLEAN])
    OBVIOUS
  <2>5. R!Closed(w) \in R!Wires /\ R!Closed(w).garbled = w.garbled /\ R!Closed(w).running = <<>> /\ R!Closed(w).reader = r
    BY <2>1, <2>2, <2>3, <2>4 DEF R!Wires
  <2> QED  BY <2>5 DEF r
<1>6. ASSUME NEW c \in R!Contents
      PROVE  /\ R!Creates(w, c) \in R!Wires /\ R!Creates(w, c).garbled = w.garbled
             /\ R!Creates(w, c).running = Append(w.running, [content |-> c, seen |-> FALSE])
             /\ R!Creates(w, c).reader = R!Reader
  <2>1. w = [open |-> w.open, running |-> w.running, reader |-> w.reader, garbled |-> w.garbled]
    BY DEF R!Wires
  <2>2. R!Creates(w, c) = [open |-> w.open, running |-> Append(w.running, [content |-> c, seen |-> FALSE]),
                           reader |-> R!Reader, garbled |-> w.garbled]
    <3> DEFINE v == [w EXCEPT !.running = Append(@, [content |-> c, seen |-> FALSE])]
    <3>1. R!Creates(w, c) = [v EXCEPT !.reader = R!Reader]
      BY DEF R!Creates
    <3>2. v = [open |-> w.open, running |-> Append(w.running, [content |-> c, seen |-> FALSE]),
               reader |-> w.reader, garbled |-> w.garbled]
      BY <2>1
    <3> HIDE DEF v
    <3> QED  BY <3>1, <3>2
  <2>3. Append(w.running, [content |-> c, seen |-> FALSE]) \in Seq([content : R!Contents, seen : BOOLEAN])
        /\ w.open \in BOOLEAN /\ w.garbled \in BOOLEAN
    BY DEF R!Wires
  <2> QED  BY <1>1, <2>2, <2>3 DEF R!Wires
<1> QED  BY <1>1, <1>3, <1>5, <1>6

\* An attempt that is over lets go of the socket it reads.
LEMMA Lets ==
    ASSUME NEW w \in R!Wires
    PROVE  LET v == [(IF R!Settled(w.reader) THEN w ELSE R!Closed(w)) EXCEPT !.reader = None]
           IN  /\ v \in R!Wires /\ v.garbled = w.garbled /\ v.reader = None
               /\ v.running = IF R!Settled(w.reader) THEN w.running ELSE <<>>
<1> DEFINE u == IF R!Settled(w.reader) THEN w ELSE R!Closed(w)
<1>1. u \in R!Wires /\ u.garbled = w.garbled /\ u.running = IF R!Settled(w.reader) THEN w.running ELSE <<>>
  BY WireTypes
<1> HIDE DEF u
<1>2. LET v == [u EXCEPT !.reader = None]
      IN  v \in R!Wires /\ v.garbled = u.garbled /\ v.reader = None /\ v.running = u.running
  BY <1>1 DEF R!Wires
<1> QED  BY <1>1, <1>2 DEF u

\* What is done to a turn keeps its type, and most of it.
Same(t, u) == u.n = t.n /\ u.prev = t.prev /\ u.generate = t.generate /\ u.store = t.store

LEMMA TurnTypes ==
    ASSUME NEW t \in R!Turns
    PROVE  /\ LET u == [t EXCEPT !.aborted = TRUE]
              IN  u \in R!Turns /\ Same(t, u) /\ u.input = t.input /\ u.stage = t.stage /\ u.source = t.source
                  /\ u.dep = t.dep /\ u.got = t.got /\ u.id = t.id
           /\ LET u == [t EXCEPT !.stage = "route"]
              IN  u \in R!Turns /\ Same(t, u) /\ u.input = t.input /\ u.stage = "route"
           /\ LET u == [t EXCEPT !.continues = FALSE]
              IN  u \in R!Turns /\ Same(t, u) /\ u.input = t.input /\ u.stage = t.stage /\ u.source = t.source
                  /\ u.dep = t.dep
           /\ \A i \in R!Contents :
                LET u == [t EXCEPT !.stage = "route", !.input = i]
                IN  u \in R!Turns /\ Same(t, u) /\ u.input = i /\ u.stage = "route"
<1> USE DEF Same
<1>1. LET u == [t EXCEPT !.aborted = TRUE]
      IN  u \in R!Turns /\ Same(t, u) /\ u.input = t.input /\ u.stage = t.stage /\ u.source = t.source
          /\ u.dep = t.dep /\ u.got = t.got /\ u.id = t.id
  BY DEF R!Turns
<1>2. LET u == [t EXCEPT !.stage = "route"]
      IN  u \in R!Turns /\ Same(t, u) /\ u.input = t.input /\ u.stage = "route"
  BY DEF R!Turns
<1>3. LET u == [t EXCEPT !.continues = FALSE]
      IN  u \in R!Turns /\ Same(t, u) /\ u.input = t.input /\ u.stage = t.stage /\ u.source = t.source
          /\ u.dep = t.dep
  BY DEF R!Turns
<1>4. ASSUME NEW i \in R!Contents
      PROVE  LET u == [t EXCEPT !.stage = "route", !.input = i]
             IN  u \in R!Turns /\ Same(t, u) /\ u.input = i /\ u.stage = "route"
  BY DEF R!Turns
<1> QED  BY <1>1, <1>2, <1>3, <1>4

ReadFrom(u, t, d, source) ==
    u \in R!Turns /\ Same(t, u) /\ u.input = t.input /\ u.stage = "read" /\ u.dep = d /\ u.source = source

LEMMA ReadTypes ==
    ASSUME NEW t \in R!Turns, t.tries < MaxTries, NEW d \in Deployments,
           NEW source \in {"socket", "http", "local"}, NEW c \in BOOLEAN
    PROVE  ReadFrom([t EXCEPT !.stage = "read", !.tries = @ + 1, !.dep = d, !.source = source, !.continues = c],
                    t, d, source)
<1> USE DEF Same
<1> DEFINE read == [t EXCEPT !.stage = "read"]
           tried == [read EXCEPT !.tries = t.tries + 1]
           on == [tried EXCEPT !.dep = d]
           u == [on EXCEPT !.source = source, !.continues = c]
<1>0. t.tries + 1 \in 0..MaxTries
  BY ResponsesNames DEF R!Turns
<1>1. read \in R!Turns /\ Same(t, read) /\ read.input = t.input /\ read.stage = "read"
  BY DEF R!Turns
<1> HIDE DEF read
<1>2. tried \in R!Turns /\ Same(t, tried) /\ tried.input = t.input /\ tried.stage = "read"
  BY <1>0, <1>1 DEF R!Turns
<1> HIDE DEF tried
<1>3. on \in R!Turns /\ Same(t, on) /\ on.input = t.input /\ on.stage = "read" /\ on.dep = d
  BY <1>2 DEF R!Turns
<1> HIDE DEF on
<1>4. u \in R!Turns /\ Same(t, u) /\ u.input = t.input /\ u.stage = "read" /\ u.dep = d /\ u.source = source
  BY <1>3 DEF R!Turns
<1> HIDE DEF u
<1>5. ReadFrom(u, t, d, source)
  BY <1>4 DEF ReadFrom
<1> QED  BY <1>5 DEF u, on, tried, read

LEMMA TriedTypes ==
    ASSUME NEW t \in R!Turns, t.tries < MaxTries
    PROVE  [t EXCEPT !.tries = @ + 1] \in R!Turns
BY ResponsesNames DEF R!Turns

LEMMA StoreTypes ==
    ASSUME NEW t \in R!Turns, NEW got \in R!Contents \cup {None}, NEW id \in R!Contents \cup {None}
    PROVE  /\ LET u == [t EXCEPT !.stage = "store", !.got = got]
              IN  u \in R!Turns /\ Same(t, u) /\ u.input = t.input /\ u.stage = "store" /\ u.got = got
                  /\ u.dep = t.dep /\ u.source = t.source
           /\ LET u == [t EXCEPT !.stage = "store", !.got = got, !.id = id]
              IN  u \in R!Turns /\ Same(t, u) /\ u.input = t.input /\ u.stage = "store" /\ u.got = got /\ u.id = id
                  /\ u.dep = t.dep /\ u.source = t.source
BY DEF Same, R!Turns

LEMMA FailTypes ==
    ASSUME R!TypeOK, turn # None, NEW told \in BOOLEAN, R!Fail(told)
    PROVE  Queueing' /\ Turning' /\ Memory' /\ bindings' \in [Native -> R!Bindings \cup {None}]
<1>1. turn \in R!Turns /\ R!TypeOK
  BY ResponsesParts DEF Turning
<1>2. Queueing'
  BY <1>1, ResponsesNames DEF R!Fail, R!TypeOK, Queueing, R!QueuedTurns
<1>3. Turning'
  BY DEF R!Fail, Turning
<1>4. Memory'
  <2>1. turn.n \in R!Ids /\ turn.prev \in R!Ids \cup {None}
    BY <1>1 DEF R!Turns
  <2>2. \A k \in {"error", "silent"} : [n |-> turn.n, prev |-> turn.prev, kind |-> k] \in R!Answers
    BY <2>1 DEF R!Answers
  <2> QED  BY <1>1, <2>2 DEF R!Fail, R!Answer, R!KeptState, Memory, R!TypeOK
<1>5. bindings' \in [Native -> R!Bindings \cup {None}]
  <2>1. R!NoIds \in R!Bindings
    BY DEF R!NoIds, R!Bindings
  <2>2. \A d \in Native : R!KeptIds(bindings[d], turn.prev) \in R!Bindings \cup {None}
    BY <1>1, <2>1 DEF R!KeptIds, R!TypeOK
  <2> QED  BY <2>2 DEF R!Fail
<1> QED  BY <1>2, <1>3, <1>4, <1>5

LEMMA DetachTypes ==
    ASSUME R!TypeOK, wire' = R!Detached
    PROVE  wire' \in [Native -> R!Wires]
BY Lets DEF R!Detached, R!TypeOK

LEMMA CloseTypes ==
    ASSUME R!TypeOK, R!CloseUpstreams
    PROVE  /\ Upstream'
           /\ \A d \in Native : bindings'[d] = None /\ wire'[d] \in {wire[d], R!Closed(wire[d])}
<1>1. /\ bindings' = [d \in Native |-> None]
      /\ wire' = [d \in Native |-> IF bindings[d] = None THEN wire[d] ELSE R!Closed(wire[d])]
  BY DEF R!CloseUpstreams
<1>2. \A d \in Native : wire[d] \in R!Wires /\ R!Closed(wire[d]) \in R!Wires
  BY WireTypes DEF R!TypeOK
<1> QED  BY <1>1, <1>2 DEF Upstream

LEMMA AbortTypes == ASSUME Turning, R!AbortTurn PROVE Turning' /\ (turn' = None <=> turn = None)
BY TurnTypes, ResponsesNames DEF Turning, R!AbortTurn

\* What a socket becomes when upstream says something on it.
LEMMA EmitTypes ==
    ASSUME R!TypeOK, NEW d \in Native, NEW running \in Seq([content : R!Contents, seen : BOOLEAN]), NEW reader,
           R!Settled(wire[d].reader) \/ reader \in R!Readers, R!Emits(d, running, reader)
    PROVE  /\ wire' \in [Native -> R!Wires]
           /\ wire'[d].running = running /\ wire'[d].garbled = wire[d].garbled
           /\ wire'[d].reader = IF R!Settled(wire[d].reader) THEN wire[d].reader ELSE reader
           /\ \A e \in Native \ {d} : wire'[e] = wire[e]
<1> DEFINE r == IF R!Settled(wire[d].reader) THEN wire[d].reader ELSE reader
           v == [wire[d] EXCEPT !.running = running, !.reader = r]
<1>1. wire[d] \in R!Wires /\ wire \in [Native -> R!Wires]
  BY DEF R!TypeOK
<1>2. r \in R!Readers \cup {None}
  BY <1>1 DEF R!Wires
<1>3. wire' = [wire EXCEPT ![d] = v]
  BY DEF R!Emits
<1> HIDE DEF r
<1>4. v \in R!Wires /\ v.running = running /\ v.reader = r /\ v.garbled = wire[d].garbled
  BY <1>1, <1>2 DEF R!Wires
<1> HIDE DEF v
<1>5. wire' \in [Native -> R!Wires] /\ wire'[d] = v /\ \A e \in Native \ {d} : wire'[e] = wire[e]
  BY <1>1, <1>3, <1>4
<1> QED  BY <1>4, <1>5 DEF r

LEMMA CreatedTypes ==
    ASSUME R!TypeOK, NEW d \in Native, R!Created(d)
    PROVE  LET h == Head(wire[d].running)
           IN  /\ wire[d].running # <<>> /\ wire' \in [Native -> R!Wires] /\ wire'[d].garbled = wire[d].garbled
               /\ wire'[d].running = [wire[d].running EXCEPT ![1] = [h EXCEPT !.seen = TRUE]]
               /\ wire'[d].reader = IF R!Settled(wire[d].reader) THEN wire[d].reader
                                    ELSE R!Resolves(wire[d].reader, h.content)
               /\ \A e \in Native \ {d} : wire'[e] = wire[e]
<1> DEFINE S == [content : R!Contents, seen : BOOLEAN]
           h == Head(wire[d].running)
           running == [wire[d].running EXCEPT ![1] = [h EXCEPT !.seen = TRUE]]
           reader == R!Resolves(wire[d].reader, h.content)
<1>1. wire[d].running # <<>> /\ wire[d].running \in Seq(S) /\ h = wire[d].running[1] /\ h \in S
  <2>1. wire[d].running # <<>>
    BY DEF R!Created, R!Generating
  <2>2. wire[d].running \in Seq(S)
    BY DEF R!TypeOK, R!Wires
  <2> HIDE DEF S
  <2> QED  BY <2>1, <2>2
<1>2. [h EXCEPT !.seen = TRUE] \in S /\ h.content \in R!Contents
  BY <1>1
<1>3. running \in Seq(S)
  BY <1>1, <1>2
<1>4. R!Settled(wire[d].reader) \/ reader \in R!Readers
  BY <1>2 DEF R!Resolves, R!Settled, R!Readers, R!TypeOK, R!Wires
<1>5. R!Emits(d, running, reader)
  BY <1>1 DEF R!Created, R!Head1
<1> HIDE DEF running, h, reader
<1>6. /\ wire' \in [Native -> R!Wires] /\ wire'[d].running = running /\ wire'[d].garbled = wire[d].garbled
      /\ wire'[d].reader = IF R!Settled(wire[d].reader) THEN wire[d].reader ELSE reader
      /\ \A e \in Native \ {d} : wire'[e] = wire[e]
  BY <1>3, <1>4, <1>5, EmitTypes
<1> QED  BY <1>1, <1>6 DEF running, h, reader

LEMMA FinishTypes ==
    ASSUME R!TypeOK, NEW d \in Native, NEW end \in {"completed", "not_found", "failed"}, R!Finishes(d, end)
    PROVE  LET h == Head(wire[d].running)
           IN  /\ wire[d].running # <<>> /\ wire' \in [Native -> R!Wires] /\ wire'[d].garbled = wire[d].garbled
               /\ wire'[d].running = Tail(wire[d].running)
               /\ wire'[d].reader = IF R!Settled(wire[d].reader) THEN wire[d].reader
                                    ELSE [wire[d].reader EXCEPT !.end = end, !.got = h.content]
               /\ \A e \in Native \ {d} : wire'[e] = wire[e]
<1> DEFINE S == [content : R!Contents, seen : BOOLEAN]
           h == Head(wire[d].running)
           reader == [wire[d].reader EXCEPT !.end = end, !.got = h.content]
<1>1. wire[d].running # <<>> /\ wire[d].running \in Seq(S) /\ h \in S
  <2>1. wire[d].running # <<>>
    BY DEF R!Finishes, R!Generating
  <2>2. wire[d].running \in Seq(S)
    BY DEF R!TypeOK, R!Wires
  <2> HIDE DEF S
  <2> QED  BY <2>1, <2>2
<1>2. Tail(wire[d].running) \in Seq(S) /\ h.content \in R!Contents
  BY <1>1
<1>3. end \in R!Endings
  BY DEF R!Endings
<1>4. R!Settled(wire[d].reader) \/ reader \in R!Readers
  BY <1>2, <1>3 DEF R!Settled, R!Readers, R!TypeOK, R!Wires
<1>5. R!Emits(d, Tail(wire[d].running), reader)
  BY DEF R!Finishes, R!Head1
<1> HIDE DEF reader, h
<1>6. /\ wire' \in [Native -> R!Wires] /\ wire'[d].running = Tail(wire[d].running) /\ wire'[d].garbled = wire[d].garbled
      /\ wire'[d].reader = IF R!Settled(wire[d].reader) THEN wire[d].reader ELSE reader
      /\ \A e \in Native \ {d} : wire'[e] = wire[e]
  BY <1>2, <1>4, <1>5, EmitTypes
<1> QED  BY <1>1, <1>6 DEF reader, h

LEMMA GarbleTypes ==
    ASSUME R!TypeOK, NEW d \in Native, R!Garbles(d)
    PROVE  /\ wire' \in [Native -> R!Wires] /\ wire'[d].garbled /\ wire[d].reader # None
           /\ wire'[d].reader = [wire[d].reader EXCEPT !.end = "garbled"]
           /\ wire'[d].reader \in R!Readers
           /\ \A e \in Native \ {d} : wire'[e] = wire[e]
<1> DEFINE r == [wire[d].reader EXCEPT !.end = "garbled"]
           v == [wire[d] EXCEPT !.reader = r, !.garbled = TRUE]
<1>1. wire[d] \in R!Wires /\ wire[d].reader \in R!Readers /\ wire[d].reader # None /\ wire \in [Native -> R!Wires]
  BY DEF R!TypeOK, R!Wires, R!Garbles, R!Settled
<1>2. r \in R!Readers
  BY <1>1 DEF R!Readers, R!Endings
<1>3. wire' = [wire EXCEPT ![d] = v]
  BY <1>1 DEF R!Garbles
<1> HIDE DEF r
<1>4. v \in R!Wires /\ v.reader = r /\ v.garbled
  BY <1>1, <1>2 DEF R!Wires
<1> HIDE DEF v
<1>5. wire' \in [Native -> R!Wires] /\ wire'[d] = v /\ \A e \in Native \ {d} : wire'[e] = wire[e]
  BY <1>1, <1>3, <1>4
<1> QED  BY <1>1, <1>2, <1>4, <1>5 DEF r

\* Every step keeps the types.
LEMMA ResponsesTypes == R!TypeOK /\ Undisturbed /\ R!Next => R!TypeOK'
<1> SUFFICES ASSUME R!TypeOK, Undisturbed, R!Next PROVE Connection' /\ Queueing' /\ Turning' /\ Memory' /\ Upstream'
  BY ResponsesParts, PTL
<1>t. Connection /\ Queueing /\ Turning /\ Memory /\ Upstream
  BY ResponsesParts
<1>r. turn # None /\ turn.stage = "read" /\ turn.source = "socket" =>
         turn.dep \in Native /\ wire[turn.dep] \in R!Wires /\ wire[turn.dep].reader \in R!Readers
  <2>1. turn # None /\ turn.stage = "read" /\ turn.source = "socket" =>
           turn.dep \in Native /\ wire[turn.dep] \in R!Wires /\ wire[turn.dep].reader # None
    BY <1>t DEF Undisturbed, ReadsOn, Busy, Upstream
  <2> QED  BY <2>1 DEF R!Wires
<1> USE DEF R!endpoint, R!upstream
<1>1. CASE \E prev \in 1..sent \cup {None}, generate, store \in BOOLEAN : R!Send(prev, generate, store)
  <2>1. Connection'
    BY <1>1, <1>t, ResponsesNames DEF R!Send, R!Answer, Connection
  <2>2. Queueing'
    <3>1. PICK prev \in 1..sent \cup {None}, generate \in BOOLEAN, store \in BOOLEAN : R!Send(prev, generate, store)
      BY <1>1
    <3>2. sent + 1 \in R!Ids /\ prev \in R!Ids \cup {None}
      BY <1>t, <3>1, ResponsesNames DEF R!Send, Connection, R!Ids
    <3>3. [n |-> sent + 1, prev |-> prev, generate |-> generate, store |-> store] \in R!Requests
      BY <3>2 DEF R!Requests
    <3> QED  BY <1>t, <3>1, <3>3, ResponsesNames DEF R!Send, Queueing, R!QueuedTurns
  <2>3. Turning'
    BY <1>1, <1>t, ResponsesNames DEF R!Send, R!Answer, Turning
  <2>4. Memory'
    <3>1. PICK prev \in 1..sent \cup {None}, generate \in BOOLEAN, store \in BOOLEAN : R!Send(prev, generate, store)
      BY <1>1
    <3>2. sent + 1 \in R!Ids /\ prev \in R!Ids \cup {None}
      BY <1>t, <3>1, ResponsesNames DEF R!Send, Connection, R!Ids
    <3>3. [n |-> sent + 1, prev |-> prev, kind |-> "refused"] \in R!Answers
      BY <3>2 DEF R!Answers
    <3>4. /\ UNCHANGED <<state, stored>>
          /\ \/ answers' = answers
             \/ answers' = Append(answers, [n |-> sent + 1, prev |-> prev, kind |-> "refused"])
      BY <3>1 DEF R!Send, R!Answer
    <3> QED  BY <1>t, <3>3, <3>4 DEF Memory
  <2>5. Upstream'
    BY <1>1, <1>t, ResponsesNames DEF R!Send, R!Answer, Upstream
  <2> QED  BY <2>1, <2>2, <2>3, <2>4, <2>5
<1>2. CASE R!TimeIsUp
  <2>1. Connection'
    BY <1>2, <1>t, ResponsesNames DEF R!TimeIsUp, R!Fault, Connection
  <2>2. Queueing'
    BY <1>2, <1>t, ResponsesNames DEF R!TimeIsUp, R!Fault, Queueing, R!QueuedTurns
  <2>3. Turning'
    BY <1>2, <1>t, ResponsesNames DEF R!TimeIsUp, R!Fault, Turning
  <2>4. Memory'
    BY <1>2, <1>t, ResponsesNames DEF R!TimeIsUp, R!Fault, Memory
  <2>5. Upstream'
    BY <1>2, <1>t, ResponsesNames DEF R!TimeIsUp, R!Fault, Upstream
  <2> QED  BY <2>1, <2>2, <2>3, <2>4, <2>5
<1>3. CASE R!Restart
  <2>1. Connection'
    BY <1>3, <1>t, ResponsesNames DEF R!Restart, R!AbortTurn, R!CloseUpstreams, R!Fault, Connection
  <2>2. Queueing'
    BY <1>3, <1>t, ResponsesNames DEF R!Restart, R!AbortTurn, R!CloseUpstreams, R!Fault, Queueing, R!QueuedTurns
  <2>3. Turning'
    BY <1>3, <1>t, AbortTypes DEF R!Restart
  <2>4. Memory'
    BY <1>3, <1>t, ResponsesNames DEF R!Restart, R!AbortTurn, R!CloseUpstreams, R!Fault, Memory
  <2>5. Upstream'
    BY <1>3, CloseTypes DEF R!Restart
  <2> QED  BY <2>1, <2>2, <2>3, <2>4, <2>5
<1>4. CASE R!ClientCloses
  <2>1. Connection'
    BY <1>4, <1>t, ResponsesNames DEF R!ClientCloses, R!AbortTurn, R!CloseUpstreams, R!Fault, Connection
  <2>2. Queueing'
    BY <1>4, <1>t, ResponsesNames DEF R!ClientCloses, R!AbortTurn, R!CloseUpstreams, R!Fault, Queueing, R!QueuedTurns
  <2>3. Turning'
    BY <1>4, <1>t, AbortTypes DEF R!ClientCloses
  <2>4. Memory'
    BY <1>4, <1>t, ResponsesNames DEF R!ClientCloses, R!AbortTurn, R!CloseUpstreams, R!Fault, Memory
  <2>5. Upstream'
    BY <1>4, CloseTypes DEF R!ClientCloses
  <2> QED  BY <2>1, <2>2, <2>3, <2>4, <2>5
<1>5. CASE R!Begin
  <2>1. Connection'
    BY <1>5, <1>t, ResponsesNames DEF R!Begin, Connection
  <2>2. Queueing'
    BY <1>5, <1>t, ResponsesNames DEF R!Begin, Queueing, R!QueuedTurns
  <2>3. Turning'
    <3>1. Head(queue) \in R!Requests
      BY <1>5, <1>t DEF R!Begin, Queueing
    <3>2. <<>> \in R!Contents /\ 0 \in 0..MaxTries
      BY ResponsesNames DEF R!Contents
    <3> QED  BY <1>5, <3>1, <3>2 DEF R!Begin, Turning, R!Requests, R!Turns
  <2>4. Memory'
    BY <1>5, <1>t, ResponsesNames DEF R!Begin, Memory
  <2>5. Upstream'
    BY <1>5, <1>t, ResponsesNames DEF R!Begin, Upstream
  <2> QED  BY <2>1, <2>2, <2>3, <2>4, <2>5
<1>6. CASE R!Prepare
  <2>1. Connection'
    BY <1>6, <1>t, ResponsesNames DEF R!Prepare, Connection
  <2>2. Queueing'
    BY <1>6, <1>t, ResponsesNames DEF R!Prepare, Queueing, R!QueuedTurns
  <2>3. Turning'
    <3>1. turn \in R!Turns
      BY <1>6, <1>t DEF R!Prepare, Turning
    <3>2. turn.prev # None => R!PreviousItems(turn.prev) \in R!Contents
      BY <1>6, <1>t, <3>1 DEF R!Prepare, R!PreviousItems, R!Turns, R!States, Memory
    <3>3. Append(IF turn.prev = None THEN <<>> ELSE R!PreviousItems(turn.prev), turn.n) \in R!Contents
      BY <3>1, <3>2 DEF R!Contents, R!Turns
    <3> QED  BY <1>6, <3>1, <3>3, TurnTypes DEF R!Prepare, Turning
  <2>4. Memory'
    BY <1>6, <1>t, ResponsesNames DEF R!Prepare, Memory
  <2>5. Upstream'
    BY <1>6, <1>t, ResponsesNames DEF R!Prepare, Upstream
  <2> QED  BY <2>1, <2>2, <2>3, <2>4, <2>5
<1>7. CASE R!PrepareFails
  <2>1. turn # None /\ \E told \in BOOLEAN : R!Fail(told)
    BY <1>7 DEF R!PrepareFails, R!Fault
  <2>2. Connection' /\ wire' = wire
    BY <1>7, <1>t, ResponsesNames DEF R!PrepareFails, R!Fault, R!Fail, Connection
  <2> QED  BY <1>t, <2>1, <2>2, FailTypes DEF Upstream
<1>8. CASE R!NoRoute
  <2>1. turn # None /\ \E told \in BOOLEAN : R!Fail(told)
    BY <1>8 DEF R!NoRoute
  <2>2. Connection' /\ wire' = wire
    BY <1>8, <1>t, ResponsesNames DEF R!NoRoute, R!Fail, Connection
  <2> QED  BY <1>t, <2>1, <2>2, FailTypes DEF Upstream
<1>9. CASE R!AttemptFails
  <2>1. turn # None /\ wire' = R!Detached /\ faults' = faults
        /\ \/ turn' = [turn EXCEPT !.stage = "route"] /\ UNCHANGED <<client, sent, queue, state, stored, answers, bindings>>
           \/ R!Fail(TRUE)
    BY <1>9 DEF R!AttemptFails, R!FailAttempt, R!Reading
  <2>2. wire' \in [Native -> R!Wires]
    BY <2>1, DetachTypes
  <2>3. CASE turn' = [turn EXCEPT !.stage = "route"] /\ UNCHANGED <<client, sent, queue, state, stored, answers, bindings>>
    <3>1. Turning' /\ turn' # None
      BY <1>t, <2>1, <2>3, TurnTypes, ResponsesNames DEF Turning
    <3> QED  BY <1>t, <2>1, <2>2, <2>3, <3>1 DEF Connection, Queueing, R!QueuedTurns, Memory, Upstream
  <2>4. CASE R!Fail(TRUE)
    BY <1>t, <2>1, <2>2, <2>4, FailTypes DEF Connection, Upstream, R!Fail
  <2> QED  BY <2>1, <2>3, <2>4
<1>10. CASE R!RetryInFull
  <2>1. Connection'
    BY <1>10, <1>t, ResponsesNames DEF R!RetryInFull, R!Reading, Connection
  <2>2. Queueing'
    BY <1>10, <1>t, ResponsesNames DEF R!RetryInFull, R!Reading, Queueing, R!QueuedTurns
  <2>3. Turning'
    BY <1>10, <1>t, TurnTypes DEF R!RetryInFull, R!Reading, Turning
  <2>4. Memory'
    BY <1>10, <1>t, ResponsesNames DEF R!RetryInFull, R!Reading, Memory
  <2>5. Upstream'
    <3> DEFINE w == wire[turn.dep]
               v == IF w.open THEN R!Creates(w, turn.input) ELSE [w EXCEPT !.reader.end = "closed"]
    <3>1. R!NoIds \in R!Bindings
      BY DEF R!NoIds, R!Bindings
    <3>2. ASSUME turn.dep \in Native PROVE v \in R!Wires
      <4>1. w \in R!Wires /\ turn.input \in R!Contents
        BY <1>10, <1>t, <3>2 DEF R!RetryInFull, R!Reading, Turning, R!Turns, Upstream
      <4>2. w.open => v \in R!Wires
        BY <4>1, WireTypes
      <4>3. w.reader # None
        BY <1>10, <1>r, ResponsesNames DEF R!RetryInFull, R!Reading
      <4> QED  BY <4>1, <4>2, <4>3 DEF R!Wires, R!Readers, R!Endings
    <3>3. wire' = [wire EXCEPT ![turn.dep] = v] /\ bindings' = [bindings EXCEPT ![turn.dep] = R!NoIds]
      BY <1>10 DEF R!RetryInFull
    <3> HIDE DEF v
    <3> QED  BY <1>t, <3>1, <3>2, <3>3 DEF Upstream
  <2> QED  BY <2>1, <2>2, <2>3, <2>4, <2>5
<1>11. CASE R!Terminal
  <2>1. Connection'
    BY <1>11, <1>t, ResponsesNames DEF R!Terminal, R!Reading, Connection
  <2>2. Queueing'
    BY <1>11, <1>t, ResponsesNames DEF R!Terminal, R!Reading, Queueing, R!QueuedTurns
  <2>3. Turning'
    <3>1. turn \in R!Turns /\ turn.input \in R!Contents /\ turn.stage = "read" /\ turn # None
      BY <1>11, <1>t DEF R!Terminal, R!Reading, Turning, R!Turns
    <3>2. CASE turn' = [turn EXCEPT !.stage = "store", !.got = turn.input]
      BY <3>1, <3>2, StoreTypes DEF Turning
    <3>3. CASE turn.source = "socket"
      <4> DEFINE r == wire[turn.dep].reader
      <4>1. r.got \in R!Contents \cup {None} /\ r.id \in R!Contents \cup {None}
        BY <1>r, <3>1, <3>3 DEF R!Readers
      <4>2. turn' = [turn EXCEPT !.stage = "store", !.got = r.got, !.id = r.id]
        BY <1>11, <3>3 DEF R!Terminal
      <4> HIDE DEF r
      <4> QED  BY <3>1, <4>1, <4>2, StoreTypes DEF Turning
    <3> QED  BY <1>11, <3>2, <3>3 DEF R!Terminal
  <2>4. Memory'
    BY <1>11, <1>t, ResponsesNames DEF R!Terminal, R!Reading, Memory
  <2>5. Upstream'
    BY <1>11, <1>t, DetachTypes DEF R!Terminal, Upstream
  <2> QED  BY <2>1, <2>2, <2>3, <2>4, <2>5
<1>12. CASE R!Complete
  <2>1. Connection'
    BY <1>12, <1>t, ResponsesNames DEF R!Complete, R!Answer, R!Commit, Connection
  <2>2. Queueing'
    BY <1>12, <1>t, ResponsesNames DEF R!Complete, R!Answer, R!Commit, Queueing, R!QueuedTurns
  <2>3. Turning'
    BY <1>12, <1>t, ResponsesNames DEF R!Complete, R!Answer, R!Commit, Turning
  <2>4. Memory'
    <3>1. turn \in R!Turns
      BY <1>12, <1>t DEF R!Complete, Turning
    <3>2. [id |-> turn.n, items |-> turn.input] \in R!States /\ turn.n \in R!Ids /\ turn.input \in R!Contents
      BY <3>1 DEF R!Turns, R!States
    <3>3. [n |-> turn.n, prev |-> turn.prev, kind |-> "completed"] \in R!Answers
      BY <3>1 DEF R!Turns, R!Answers
    <3> QED  BY <1>12, <1>t, <3>2, <3>3 DEF R!Complete, R!Answer, Memory
  <2>5. Upstream'
    <3>1. turn \in R!Turns
      BY <1>12, <1>t DEF R!Complete, Turning
    <3>2. [public |-> turn.n, upstream |-> turn.id] \in R!Bindings
      BY <3>1 DEF R!Turns, R!Bindings
    <3>3. \A d \in Native : bindings[d] # None => R!Committed(bindings[d], d) \in R!Bindings
      BY <1>t, <3>2 DEF R!Committed, Upstream
    <3>4. \A d \in Native : R!Closed(wire[d]) \in R!Wires
      BY <1>t, WireTypes DEF Upstream
    <3> QED  BY <1>12, <1>t, <3>3, <3>4 DEF R!Complete, R!Commit, R!OthersClosed, Upstream
  <2> QED  BY <2>1, <2>2, <2>3, <2>4, <2>5
<1>13. CASE R!StoreFails
  <2>1. turn # None /\ \E told \in BOOLEAN : R!Fail(told)
    BY <1>13 DEF R!StoreFails, R!Fault
  <2>2. Connection' /\ wire' = wire
    BY <1>13, <1>t, ResponsesNames DEF R!StoreFails, R!Fault, R!Fail, Connection
  <2> QED  BY <1>t, <2>1, <2>2, FailTypes DEF Upstream
<1>14. CASE \E d \in Native : R!Reuse(d)
  <2>1. Connection'
    BY <1>14, <1>t, ResponsesNames DEF R!Reuse, R!Routable, R!Reads, Connection
  <2>2. Queueing'
    BY <1>14, <1>t, ResponsesNames DEF R!Reuse, R!Routable, R!Reads, Queueing, R!QueuedTurns
  <2>3. Turning'
    <3>1. PICK d \in Native : R!Reuse(d)
      BY <1>14
    <3>2. turn \in R!Turns /\ turn.tries < MaxTries /\ d \in Deployments
      BY <1>t, <3>1, SocketsAssumption DEF R!Reuse, R!Routable, Turning, R!Turns
    <3>3. \/ turn' = [turn EXCEPT !.tries = @ + 1]
          \/ \E c \in BOOLEAN : R!Reads(d, "socket", c)
      BY <3>1 DEF R!Reuse, R!CanContinue
    <3>4. CASE turn' = [turn EXCEPT !.tries = @ + 1]
      BY <3>2, <3>4, TriedTypes DEF Turning
    <3>5. ASSUME NEW c \in BOOLEAN, R!Reads(d, "socket", c) PROVE Turning'
      BY <3>2, <3>5, ReadTypes DEF R!Reads, ReadFrom, Turning
    <3> QED  BY <3>3, <3>4, <3>5
  <2>4. Memory'
    BY <1>14, <1>t, ResponsesNames DEF R!Reuse, R!Routable, R!Reads, Memory
  <2>5. Upstream'
    <3>1. PICK d \in Native : R!Reuse(d)
      BY <1>14
    <3>2. turn \in R!Turns /\ wire[d] \in R!Wires
      BY <1>t, <3>1 DEF R!Reuse, R!Routable, Turning, Upstream
    <3>3. \/ UNCHANGED wire
          \/ \E c \in R!Contents : wire' = [wire EXCEPT ![d] = R!Creates(@, c)]
      <4>1. turn.n \in R!Ids /\ turn.input \in R!Contents
        BY <3>2 DEF R!Turns
      <4>2. R!CanContinue(bindings[d]) => Append(bindings[d].upstream, turn.n) \in R!Contents
        BY <1>t, <3>1, <4>1 DEF R!CanContinue, R!Reuse, R!Bindings, R!Contents, Upstream
      <4> QED  BY <3>1, <4>1, <4>2 DEF R!Reuse
    <3>4. UNCHANGED bindings
      BY <3>1 DEF R!Reuse
    <3> QED  BY <1>t, <3>2, <3>3, <3>4, WireTypes DEF Upstream
  <2> QED  BY <2>1, <2>2, <2>3, <2>4, <2>5
<1>15. CASE \E d \in Native : R!Connect(d)
  <2>1. Connection'
    BY <1>15, <1>t, ResponsesNames DEF R!Connect, R!Routable, R!Reads, Connection
  <2>2. Queueing'
    BY <1>15, <1>t, ResponsesNames DEF R!Connect, R!Routable, R!Reads, Queueing, R!QueuedTurns
  <2>3. Turning'
    <3>1. PICK d \in Native : R!Connect(d)
      BY <1>15
    <3>2. turn \in R!Turns /\ turn.tries < MaxTries /\ d \in Deployments
      BY <1>t, <3>1, SocketsAssumption DEF R!Connect, R!Routable, Turning, R!Turns
    <3> QED  BY <3>1, <3>2, ReadTypes DEF R!Connect, R!Reads, ReadFrom, Turning
  <2>4. Memory'
    BY <1>15, <1>t, ResponsesNames DEF R!Connect, R!Routable, R!Reads, Memory
  <2>5. Upstream'
    <3>1. PICK d \in Native : R!Connect(d)
      BY <1>15
    <3>2. turn \in R!Turns /\ wire[d] \in R!Wires /\ turn.input \in R!Contents
      BY <1>t, <3>1 DEF R!Connect, R!Routable, Turning, R!Turns, Upstream
    <3>3. R!Creates(R!Fresh, turn.input) \in R!Wires
      BY <3>2, WireTypes
    <3>4. R!NoIds \in R!Bindings
      BY DEF R!NoIds, R!Bindings
    <3> QED  BY <1>t, <3>1, <3>3, <3>4 DEF R!Connect, Upstream
  <2> QED  BY <2>1, <2>2, <2>3, <2>4, <2>5
<1>16. CASE \E d \in Deployments : R!WithoutSocket(d)
  <2>1. Connection'
    BY <1>16, <1>t, ResponsesNames DEF R!WithoutSocket, R!Routable, R!Reads, R!Fault, Connection
  <2>2. Queueing'
    BY <1>16, <1>t, ResponsesNames DEF R!WithoutSocket, R!Routable, R!Reads, R!Fault, Queueing, R!QueuedTurns
  <2>3. Turning'
    <3>1. PICK d \in Deployments : R!WithoutSocket(d)
      BY <1>16
    <3>2. turn \in R!Turns /\ turn.tries < MaxTries
      BY <1>t, <3>1 DEF R!WithoutSocket, R!Routable, Turning, R!Turns
    <3>3. \E source \in {"http", "local"} : R!Reads(d, source, FALSE)
      BY <3>1 DEF R!WithoutSocket
    <3>4. ASSUME NEW source \in {"http", "local"}, R!Reads(d, source, FALSE) PROVE Turning'
      BY <3>2, <3>4, ReadTypes DEF R!Reads, ReadFrom, Turning
    <3> QED  BY <3>3, <3>4
  <2>4. Memory'
    BY <1>16, <1>t, ResponsesNames DEF R!WithoutSocket, R!Routable, R!Reads, R!Fault, Memory
  <2>5. Upstream'
    BY <1>16, <1>t, ResponsesNames DEF R!WithoutSocket, R!Routable, R!Reads, R!Fault, Upstream
  <2> QED  BY <2>1, <2>2, <2>3, <2>4, <2>5
<1>17. CASE \E told \in BOOLEAN : R!ConsumerFails(told)
  <2>1. turn # None /\ wire' = R!Detached /\ (\E told \in BOOLEAN : R!Fail(told)) /\ faults < MaxFaults /\ faults' = faults + 1
    BY <1>17 DEF R!ConsumerFails, R!Reading, R!Fault
  <2>2. wire' \in [Native -> R!Wires]
    BY <2>1, DetachTypes
  <2>3. Connection'
    BY <1>t, <2>1, ResponsesNames DEF Connection, R!Fail
  <2> QED  BY <2>1, <2>2, <2>3, FailTypes DEF Upstream
<1>18. CASE \E d \in Native : R!Created(d)
  <2>1. Connection'
    BY <1>18, <1>t, ResponsesNames DEF R!Created, R!Emits, Connection
  <2>2. Queueing'
    BY <1>18, <1>t, ResponsesNames DEF R!Created, R!Emits, Queueing, R!QueuedTurns
  <2>3. Turning'
    BY <1>18, <1>t, ResponsesNames DEF R!Created, R!Emits, Turning
  <2>4. Memory'
    BY <1>18, <1>t, ResponsesNames DEF R!Created, R!Emits, Memory
  <2>5. Upstream'
    BY <1>18, <1>t, CreatedTypes DEF R!Created, Upstream
  <2> QED  BY <2>1, <2>2, <2>3, <2>4, <2>5
<1>19. CASE \E d \in Native : R!Garbles(d)
  <2>1. Connection'
    BY <1>19, <1>t, ResponsesNames DEF R!Garbles, R!Fault, Connection
  <2>2. Queueing'
    BY <1>19, <1>t, ResponsesNames DEF R!Garbles, R!Fault, Queueing, R!QueuedTurns
  <2>3. Turning'
    BY <1>19, <1>t, ResponsesNames DEF R!Garbles, R!Fault, Turning
  <2>4. Memory'
    BY <1>19, <1>t, ResponsesNames DEF R!Garbles, R!Fault, Memory
  <2>5. Upstream'
    BY <1>19, <1>t, GarbleTypes DEF R!Garbles, Upstream
  <2> QED  BY <2>1, <2>2, <2>3, <2>4, <2>5
<1>20. CASE \E d \in Native : R!UpstreamCloses(d)
  <2>1. Connection'
    BY <1>20, <1>t, ResponsesNames DEF R!UpstreamCloses, R!Fault, Connection
  <2>2. Queueing'
    BY <1>20, <1>t, ResponsesNames DEF R!UpstreamCloses, R!Fault, Queueing, R!QueuedTurns
  <2>3. Turning'
    BY <1>20, <1>t, ResponsesNames DEF R!UpstreamCloses, R!Fault, Turning
  <2>4. Memory'
    BY <1>20, <1>t, ResponsesNames DEF R!UpstreamCloses, R!Fault, Memory
  <2>5. Upstream'
    <3>1. PICK d \in Native : R!UpstreamCloses(d)
      BY <1>20
    <3>2. R!Closed(wire[d]) \in R!Wires
      BY <1>t, WireTypes DEF Upstream
    <3> QED  BY <1>t, <3>1, <3>2 DEF R!UpstreamCloses, Upstream
  <2> QED  BY <2>1, <2>2, <2>3, <2>4, <2>5
<1>21. CASE \E d \in Native, end \in {"completed", "not_found", "failed"} : R!Finishes(d, end)
  <2>1. Connection'
    <3>1. client' = client /\ sent' = sent /\ (faults' = faults \/ R!Fault)
      BY <1>21 DEF R!Finishes
    <3> QED  BY <1>t, <3>1, ResponsesNames DEF R!Fault, Connection
  <2>2. Queueing'
    BY <1>21, <1>t, ResponsesNames DEF R!Finishes, R!Emits, R!Fault, Queueing, R!QueuedTurns
  <2>3. Turning'
    BY <1>21, <1>t, ResponsesNames DEF R!Finishes, R!Emits, R!Fault, Turning
  <2>4. Memory'
    BY <1>21, <1>t, ResponsesNames DEF R!Finishes, R!Emits, R!Fault, Memory
  <2>5. Upstream'
    BY <1>21, <1>t, FinishTypes DEF R!Finishes, Upstream
  <2> QED  BY <2>1, <2>2, <2>3, <2>4, <2>5
<1>22. CASE \E id \in R!Ids : R!Deleted(id)
  <2>1. Connection'
    BY <1>22, <1>t, ResponsesNames DEF R!Deleted, R!Fault, Connection
  <2>2. Queueing'
    BY <1>22, <1>t, ResponsesNames DEF R!Deleted, R!Fault, Queueing, R!QueuedTurns
  <2>3. Turning'
    BY <1>22, <1>t, ResponsesNames DEF R!Deleted, R!Fault, Turning
  <2>4. Memory'
    BY <1>22, <1>t, ResponsesNames DEF R!Deleted, R!Fault, Memory
  <2>5. Upstream'
    BY <1>22, <1>t, ResponsesNames DEF R!Deleted, R!Fault, Upstream
  <2> QED  BY <2>1, <2>2, <2>3, <2>4, <2>5
<1> QED
  BY <1>1, <1>2, <1>3, <1>4, <1>5, <1>6, <1>7, <1>8, <1>9, <1>10, <1>11, <1>12, <1>13, <1>14, <1>15, <1>16, <1>17, <1>18, <1>19, <1>20, <1>21, <1>22
     DEF R!Next, R!Turn, R!Provider

-----------------------------------------------------------------------------
(* A Responses WebSocket: the sockets of upstream.                         *)

Runs == [content : R!Contents, seen : BOOLEAN]

\* The response a socket runs first.
LEMMA First ==
    ASSUME NEW w \in R!Wires
    PROVE  /\ w.running \in Seq(Runs)
           /\ w.running # <<>> => /\ Head(w.running) = w.running[1] /\ Head(w.running) \in Runs
                                 /\ Head(w.running).content \in R!Contents
<1>1. w.running \in Seq(Runs)
  BY DEF R!Wires, Runs
<1>2. w.running # <<>> => Head(w.running) = w.running[1] /\ Head(w.running) \in Runs
  BY <1>1
<1> QED  BY <1>1, <1>2 DEF Runs

\* A response that is created on a socket that runs none.
LEMMA Alone ==
    ASSUME NEW w \in R!Wires, NEW i \in R!Contents, w.running = <<>>
    PROVE  LET s == R!Creates(w, i).running
           IN  Len(s) = 1 /\ s[1].content = i /\ ~s[1].seen
<1> DEFINE x == [content |-> i, seen |-> FALSE]
<1>1. R!Creates(w, i).running = Append(w.running, x)
  BY WireTypes
<1>2. x.content = i /\ ~x.seen
  OBVIOUS
<1> HIDE DEF x
<1>3. Len(Append(<<>>, x)) = 1 /\ Append(<<>>, x)[1] = x
  OBVIOUS
<1> QED  BY <1>1, <1>2, <1>3

LEMMA IdleSteps ==
    ASSUME NEW w \in R!Wires, Idle(w), NEW i \in R!Contents
    PROVE  Idle(R!Closed(w)) /\ Busy(R!Creates(w, i), i)
<1>1. Idle(R!Closed(w))
  BY WireTypes DEF Idle, R!Settled
<1>2. Busy(R!Creates(w, i), i)
  <2>1. /\ R!Creates(w, i).reader # None /\ R!Creates(w, i).reader.end = None /\ R!Creates(w, i).reader.id = None
        /\ R!Creates(w, i).garbled = w.garbled
    BY WireTypes, ResponsesNames
  <2>2. ~w.garbled => LET s == R!Creates(w, i).running IN Len(s) = 1 /\ s[1].content = i /\ ~s[1].seen
    BY Alone DEF Idle
  <2>3. None # "completed"
    BY SocketsAssumption DEF R!Endings
  <2> QED  BY <2>1, <2>2, <2>3 DEF Busy
<1> QED  BY <1>1, <1>2

LEMMA BusySteps ==
    ASSUME NEW w \in R!Wires, NEW i \in R!Contents, Busy(w, i)
    PROVE  /\ Busy(R!Closed(w), i)
           /\ w.reader.end # None => Busy(R!Creates(w, i), i)
           /\ w.reader.end # None => Busy([w EXCEPT !.reader.end = "closed"], i)
<1>0. w.reader \in R!Readers /\ w.reader # None /\ "closed" # None /\ "closed" # "completed"
  BY SocketsAssumption DEF R!Wires, Busy, R!Endings
<1>1. Busy(R!Closed(w), i)
  <2> DEFINE v == R!Closed(w)
  <2>1. /\ v.garbled = w.garbled /\ v.running = <<>>
        /\ v.reader = IF w.reader.end # None THEN w.reader ELSE [w.reader EXCEPT !.end = "closed"]
    BY <1>0, WireTypes DEF R!Settled
  <2>2. v.reader # None /\ v.reader.end # None /\ (v.reader.end = "completed" => v.reader = w.reader)
    <3>1. LET r == [w.reader EXCEPT !.end = "closed"] IN r \in R!Readers /\ r.end = "closed"
      BY <1>0 DEF R!Readers, R!Endings
    <3> QED  BY <1>0, <2>1, <3>1, ResponsesNames
  <2> HIDE DEF v
  <2> QED  BY <2>1, <2>2 DEF Busy, v
<1>2. w.reader.end # None => Busy(R!Creates(w, i), i)
  <2>1. /\ R!Creates(w, i).reader # None /\ R!Creates(w, i).reader.end = None /\ R!Creates(w, i).reader.id = None
        /\ R!Creates(w, i).garbled = w.garbled
    BY WireTypes, ResponsesNames
  <2>2. w.reader.end # None /\ ~w.garbled =>
           LET s == R!Creates(w, i).running IN Len(s) = 1 /\ s[1].content = i /\ ~s[1].seen
    BY Alone DEF Busy
  <2>3. None # "completed"
    BY SocketsAssumption DEF R!Endings
  <2> QED  BY <2>1, <2>2, <2>3 DEF Busy
<1>3. w.reader.end # None => Busy([w EXCEPT !.reader.end = "closed"], i)
  <2> DEFINE r == [w.reader EXCEPT !.end = "closed"]
             v == [w EXCEPT !.reader = r]
  <2>1. r \in R!Readers /\ r.end = "closed"
    BY <1>0 DEF R!Readers, R!Endings
  <2>2. [w EXCEPT !.reader.end = "closed"] = v
    BY <1>0 DEF R!Wires
  <2> HIDE DEF r
  <2>3. v.reader = r /\ v.garbled = w.garbled /\ v.running = w.running
    BY DEF R!Wires
  <2> HIDE DEF v
  <2>4. w.reader.end # None => Busy(v, i)
    BY <1>0, <2>1, <2>3, ResponsesNames DEF Busy
  <2> QED  BY <2>2, <2>4
<1> QED  BY <1>1, <1>2, <1>3

LEMMA LetsIdle ==
    ASSUME NEW w \in R!Wires, NEW i, Busy(w, i) \/ Idle(w)
    PROVE  Idle([(IF R!Settled(w.reader) THEN w ELSE R!Closed(w)) EXCEPT !.reader = None])
<1> DEFINE v == [(IF R!Settled(w.reader) THEN w ELSE R!Closed(w)) EXCEPT !.reader = None]
<1>1. v.garbled = w.garbled /\ v.reader = None /\ v.running = IF R!Settled(w.reader) THEN w.running ELSE <<>>
  BY Lets
<1> HIDE DEF v
<1>2. ~w.garbled /\ R!Settled(w.reader) => w.running = <<>>
  BY DEF Busy, Idle, R!Settled
<1>3. Idle(v)
  BY <1>1, <1>2 DEF Idle
<1> QED  BY <1>3 DEF v

\* An attempt that ends leaves every socket idle.
LEMMA DetachedIdle ==
    ASSUME R!TypeOK, Undisturbed, turn # None, turn.stage = "read", wire' = R!Detached
    PROVE  \A d \in Native : Idle(wire'[d])
<1>1. wire \in [Native -> R!Wires]
  BY DEF R!TypeOK
<1>2. CASE turn.source # "socket"
  BY <1>2 DEF R!Detached, Undisturbed, ReadsOn
<1>3. CASE turn.source = "socket"
  <2>1. ASSUME NEW d \in Native, d # turn.dep PROVE Idle(wire'[d])
    BY <1>1, <1>3, <2>1 DEF R!Detached, Undisturbed, ReadsOn
  <2>2. ASSUME NEW d \in Native, d = turn.dep PROVE Idle(wire'[d])
    <3>1. Busy(wire[d], turn.input)
      BY <1>3, <2>2 DEF Undisturbed, ReadsOn
    <3>2. wire'[d] = [(IF R!Settled(wire[d].reader) THEN wire[d] ELSE R!Closed(wire[d])) EXCEPT !.reader = None]
      BY <1>1, <1>3, <2>2 DEF R!Detached
    <3> QED  BY <1>1, <3>1, <3>2, LetsIdle
  <2> QED  BY <2>1, <2>2
<1> QED  BY <1>2, <1>3

\* While no turn reads, every socket is idle.
LEMMA AllIdle ==
    ASSUME Undisturbed, turn = None \/ turn.stage # "read"
    PROVE  \A d \in Native : Idle(wire[d])
BY DEF Undisturbed, ReadsOn

\* The response a socket runs is told of as it was made.
LEMMA Speaks ==
    ASSUME NEW w \in R!Wires, NEW v, NEW i, w.running # <<>>, v.garbled = w.garbled
    PROVE  /\ Idle(w) /\ v.reader = w.reader => Idle(v)
           /\ \A e \in {"completed", "not_found", "failed"} :
                 /\ Busy(w, i) /\ v.running = Tail(w.running)
                 /\ v.reader = IF R!Settled(w.reader) THEN w.reader
                               ELSE [w.reader EXCEPT !.end = e, !.got = Head(w.running).content]
                 /\ e = "completed" => Head(w.running).seen
                 => Busy(v, i)
           /\ /\ Busy(w, i) /\ v.running = [w.running EXCEPT ![1] = [Head(w.running) EXCEPT !.seen = TRUE]]
              /\ v.reader = IF R!Settled(w.reader) THEN w.reader
                            ELSE R!Resolves(w.reader, Head(w.running).content)
              => Busy(v, i)
<1>1. Idle(w) /\ v.reader = w.reader => Idle(v)
  BY DEF Idle
<1>2. ASSUME Busy(w, i), w.garbled PROVE \A r \in R!Readers : v.reader = r => Busy(v, i)
  BY <1>2, ResponsesNames DEF Busy
<1>3. ASSUME Busy(w, i) PROVE w.reader \in R!Readers /\ w.reader # None /\ (~w.garbled => ~R!Settled(w.reader))
  BY <1>3 DEF Busy, R!Wires, R!Settled
<1>4. ASSUME Busy(w, i), ~w.garbled
      PROVE  /\ Len(w.running) = 1 /\ w.running[1].content = i
             /\ w.reader.id = IF w.running[1].seen THEN i ELSE None
  BY <1>3, <1>4 DEF Busy, R!Settled
<1>5. ASSUME NEW e \in {"completed", "not_found", "failed"}, Busy(w, i), v.running = Tail(w.running),
             v.reader = (IF R!Settled(w.reader) THEN w.reader
                         ELSE [w.reader EXCEPT !.end = e, !.got = Head(w.running).content]),
             e = "completed" => Head(w.running).seen
      PROVE  Busy(v, i)
  <2>1. CASE w.garbled
    <3>1. v.reader # None
      <4> DEFINE got == Head(w.running).content
      <4>1. got \in R!Contents /\ e \in R!Endings
        BY First DEF R!Endings
      <4> HIDE DEF got
      <4>2. [w.reader EXCEPT !.end = e, !.got = got] \in R!Readers
        BY <1>3, <1>5, <4>1 DEF R!Readers
      <4> QED  BY <1>3, <1>5, <4>2, ResponsesNames DEF got
    <3> QED  BY <2>1, <3>1 DEF Busy
  <2>2. CASE ~w.garbled
    <3>1. /\ Len(w.running) = 1 /\ w.running[1].content = i
          /\ w.reader.id = IF w.running[1].seen THEN i ELSE None
      BY <1>4, <1>5, <2>2
    <3>2. Head(w.running) = w.running[1] /\ Head(w.running).content = i /\ i \in R!Contents /\ Tail(w.running) = <<>>
      <4>1. w.running \in Seq(Runs) /\ Head(w.running) = w.running[1] /\ Head(w.running).content \in R!Contents
        BY First
      <4>2. Tail(w.running) = <<>>
        <5>1. w.running # <<>>
          BY <3>1
        <5>2. Tail(w.running) \in Seq(Runs) /\ Len(Tail(w.running)) = 0
          BY <3>1, <4>1, <5>1, HeadTailProperties
        <5> QED  BY <5>2, EmptySeq
      <4> QED  BY <3>1, <4>1, <4>2
    <3>3. v.reader = [w.reader EXCEPT !.end = e, !.got = i]
      BY <1>3, <1>5, <2>2, <3>2
    <3>4. w.reader \in R!Readers /\ e \in R!Endings /\ e # None
      BY <1>3, <1>5, SocketsAssumption DEF R!Endings
    <3>5. v.reader.end = e /\ v.reader.got = i /\ v.reader.id = w.reader.id
      BY <3>3, <3>4 DEF R!Readers
    <3>6. v.reader # None
      <4>1. v.reader \in R!Readers
        BY <3>2, <3>3, <3>4 DEF R!Readers
      <4> QED  BY <4>1, ResponsesNames
    <3>7. v.running = <<>> /\ (e = "completed" => w.reader.id = i)
      BY <1>5, <3>1, <3>2
    <3> QED  BY <3>4, <3>5, <3>6, <3>7 DEF Busy
  <2> QED  BY <2>1, <2>2
<1>6. ASSUME Busy(w, i), v.running = [w.running EXCEPT ![1] = [Head(w.running) EXCEPT !.seen = TRUE]],
             v.reader = (IF R!Settled(w.reader) THEN w.reader ELSE R!Resolves(w.reader, Head(w.running).content))
      PROVE  Busy(v, i)
  <2>0. /\ Head(w.running).content \in R!Contents
        /\ R!Resolves(w.reader, Head(w.running).content) \in R!Readers
    <3>1. Head(w.running).content \in R!Contents
      BY First
    <3> QED  BY <1>3, <1>6, <3>1 DEF R!Resolves, R!Readers
  <2>1. CASE w.garbled
    BY <1>3, <1>6, <2>0, <2>1, ResponsesNames DEF Busy
  <2>2. CASE ~w.garbled
    <3>1. Len(w.running) = 1 /\ w.running[1].content = i
      BY <1>4, <1>6, <2>2
    <3>2. Head(w.running) = w.running[1] /\ Head(w.running).content = i /\ w.running \in Seq(Runs) /\ Head(w.running) \in Runs
      BY <3>1, First
    <3>3. Len(v.running) = 1 /\ v.running[1].content = i /\ v.running[1].seen
      <4> DEFINE x == [Head(w.running) EXCEPT !.seen = TRUE]
      <4>1. x.content = i /\ x.seen
        BY <3>2 DEF Runs
      <4> HIDE DEF x
      <4>2. v.running = [w.running EXCEPT ![1] = x]
        BY <1>6 DEF x
      <4> QED  BY <3>1, <3>2, <4>1, <4>2
    <3>4. v.reader = R!Resolves(w.reader, i) /\ ~R!Settled(w.reader)
      BY <1>3, <1>6, <2>2, <3>2
    <3>5. v.reader.end = None /\ v.reader.id = i /\ v.reader \in R!Readers
      <4>1. w.reader \in R!Readers /\ w.reader.end = None /\ w.reader.id \in {None, i}
        BY <1>3, <1>4, <1>6, <2>2, <3>4 DEF R!Settled
      <4>2. v.reader = [w.reader EXCEPT !.id = i]
        BY <3>4, <4>1 DEF R!Resolves, R!Readers
      <4>3. i \in R!Contents
        BY <2>0, <3>2
      <4> QED  BY <4>1, <4>2, <4>3 DEF R!Readers
    <3>6. None # "completed"
      BY SocketsAssumption DEF R!Endings
    <3> QED  BY <3>3, <3>5, <3>6, ResponsesNames DEF Busy
  <2> QED  BY <2>1, <2>2
<1> QED  BY <1>1, <1>5, <1>6

\* What is left of an attempt that is over, or not begun.
LEMMA Rests ==
    ASSUME \A d \in Native : Idle(wire'[d]), turn' = None \/ turn'.stage # "read",
           turn' # None /\ turn'.stage = "store" /\ turn'.source = "socket" => turn'.dep \in Native
    PROVE  Undisturbed'
BY DEF Undisturbed, ReadsOn

\* A turn that goes on reading what it reads.
LEMMA Onward ==
    ASSUME Undisturbed, turn' = None <=> turn = None,
           turn # None => /\ turn'.stage = turn.stage /\ turn'.source = turn.source /\ turn'.dep = turn.dep
                          /\ turn'.input = turn.input,
           \A d \in Native : (ReadsOn(d) /\ Busy(wire[d], turn.input) => Busy(wire'[d], turn.input))
                             /\ (Idle(wire[d]) => Idle(wire'[d]))
    PROVE  Undisturbed'
<1>1. \A d \in Native : ReadsOn(d)' <=> ReadsOn(d)
  BY DEF ReadsOn
<1>2. \A d \in Native : ReadsOn(d) => Busy(wire'[d], turn'.input)
  BY DEF Undisturbed, ReadsOn
<1>3. \A d \in Native : ~ReadsOn(d) => Idle(wire'[d])
  BY DEF Undisturbed
<1>4. turn' # None /\ turn'.stage \in {"read", "store"} /\ turn'.source = "socket" => turn'.dep \in Native
  BY DEF Undisturbed
<1> QED  BY <1>1, <1>2, <1>3, <1>4 DEF Undisturbed

\* A turn that begins to read one socket.
LEMMA ReadsOne ==
    ASSUME R!TypeOK, Undisturbed, turn # None, turn.stage = "route", turn.tries < MaxTries, NEW d \in Native,
           NEW c \in BOOLEAN, R!Reads(d, "socket", c), NEW w, wire' = [wire EXCEPT ![d] = w],
           Busy(w, turn.input)
    PROVE  Undisturbed'
<1>1. turn \in R!Turns /\ d \in Deployments /\ wire \in [Native -> R!Wires]
  BY SocketsAssumption DEF R!TypeOK
<1>2. turn' \in R!Turns /\ turn'.input = turn.input /\ turn'.stage = "read" /\ turn'.dep = d /\ turn'.source = "socket"
  <2>1. turn' = [turn EXCEPT !.stage = "read", !.tries = @ + 1, !.dep = d, !.source = "socket", !.continues = c]
    BY DEF R!Reads
  <2>2. turn \in R!Turns /\ turn.tries < MaxTries /\ "socket" \in {"socket", "http", "local"}
    BY <1>1
  <2>3. ReadFrom(turn', turn, d, "socket")
    BY <1>1, <2>1, <2>2, ReadTypes
  <2> QED  BY <2>3 DEF ReadFrom
<1>3. \A e \in Native : Idle(wire[e])
  BY AllIdle
<1>4. wire'[d] = w /\ \A e \in Native \ {d} : wire'[e] = wire[e]
  BY <1>1
<1>5. \A e \in Native : ReadsOn(e)' <=> e = d
  BY <1>2, ResponsesNames DEF ReadsOn
<1>6. Busy(wire'[d], turn'.input)
  BY <1>2, <1>4
<1>7. \A e \in Native \ {d} : Idle(wire'[e])
  BY <1>3, <1>4
<1> QED  BY <1>2, <1>5, <1>6, <1>7 DEF Undisturbed

\* Every socket that no turn reads is left alone.
LEMMA UndisturbedKept == R!TypeOK /\ Undisturbed /\ Continued /\ R!Next => Undisturbed'
<1> SUFFICES ASSUME R!TypeOK, Undisturbed, Continued, R!Next PROVE Undisturbed'
  OBVIOUS
<1>t. /\ turn \in R!Turns \cup {None} /\ wire \in [Native -> R!Wires]
      /\ \A d \in Native : wire[d] \in R!Wires
  BY DEF R!TypeOK
<1>i. turn # None => turn.input \in R!Contents /\ turn.n \in R!Ids
  BY <1>t DEF R!Turns
<1>e. <<>> \in R!Contents
  BY DEF R!Contents
<1> USE DEF R!endpoint, R!upstream
<1>1. CASE UNCHANGED <<turn, wire>>
  BY <1>1, Onward
<1>2. CASE R!AbortTurn /\ R!CloseUpstreams
  <2>1. turn' = None <=> turn = None
    BY <1>2, <1>t, AbortTypes DEF Turning
  <2>2. turn # None => /\ turn'.stage = turn.stage /\ turn'.source = turn.source /\ turn'.dep = turn.dep
                       /\ turn'.input = turn.input
    BY <1>2, <1>t, TurnTypes DEF R!AbortTurn
  <2>3. \A d \in Native : wire'[d] \in {wire[d], R!Closed(wire[d])}
    BY <1>2, CloseTypes
  <2>4. ASSUME NEW d \in Native, Idle(wire[d]) PROVE Idle(wire'[d])
    BY <1>t, <1>e, <2>3, <2>4, IdleSteps
  <2>5. ASSUME NEW d \in Native, ReadsOn(d), Busy(wire[d], turn.input) PROVE Busy(wire'[d], turn.input)
    <3>1. turn.input \in R!Contents
      BY <1>i, <2>5 DEF ReadsOn
    <3> QED  BY <1>t, <2>3, <2>5, <3>1, BusySteps
  <2> QED  BY <2>1, <2>2, <2>4, <2>5, Onward
<1>3. CASE turn = None /\ UNCHANGED wire /\ (turn' = None \/ turn'.stage = "prepare")
  BY <1>3, AllIdle, Rests
<1>4. CASE R!Prepare
  <2>1. turn # None /\ turn.stage = "prepare" /\ UNCHANGED wire /\ \E i : turn' = [turn EXCEPT !.stage = "route", !.input = i]
    BY <1>4 DEF R!Prepare
  <2>2. turn'.stage = "route"
    BY <1>t, <2>1 DEF R!Turns
  <2> QED  BY <2>1, <2>2, AllIdle, Rests
<1>5. CASE turn # None /\ turn.stage # "read" /\ turn' = None /\ UNCHANGED wire
  BY <1>5, AllIdle, Rests
<1>6. CASE turn # None /\ turn.stage = "read" /\ wire' = R!Detached /\ (turn' = None \/ turn' = [turn EXCEPT !.stage = "route"])
  <2>1. turn' = None \/ turn'.stage = "route"
    BY <1>t, <1>6 DEF R!Turns
  <2> QED  BY <1>6, <2>1, DetachedIdle, Rests
<1>7. CASE R!Terminal
  <2>1. turn # None /\ turn.stage = "read" /\ wire' = R!Detached
    BY <1>7 DEF R!Terminal, R!Reading
  <2>2. \/ turn' = [turn EXCEPT !.stage = "store", !.got = turn.input]
        \/ \E got, id : turn' = [turn EXCEPT !.stage = "store", !.got = got, !.id = id]
    BY <1>7 DEF R!Terminal
  <2>3. turn'.stage = "store" /\ turn'.source = turn.source /\ turn'.dep = turn.dep
    BY <1>t, <2>1, <2>2 DEF R!Turns
  <2>4. turn.source = "socket" => turn.dep \in Native
    BY <2>1 DEF Undisturbed
  <2> QED  BY <2>1, <2>3, <2>4, DetachedIdle, Rests
<1>8. CASE R!RetryInFull
  <2> DEFINE w == wire[turn.dep]
             v == IF w.open THEN R!Creates(w, turn.input) ELSE [w EXCEPT !.reader.end = "closed"]
  <2>1. /\ turn # None /\ turn.stage = "read" /\ turn.source = "socket" /\ w.reader.end = "not_found"
        /\ turn' = [turn EXCEPT !.continues = FALSE] /\ wire' = [wire EXCEPT ![turn.dep] = v]
    BY <1>8 DEF R!RetryInFull, R!Reading, R!ReaderEnd
  <2>2. turn.dep \in Native /\ Busy(w, turn.input)
    BY <2>1 DEF Undisturbed, ReadsOn
  <2>3. turn' # None /\ turn'.stage = turn.stage /\ turn'.source = turn.source /\ turn'.dep = turn.dep
        /\ turn'.input = turn.input
    BY <1>t, <2>1, TurnTypes, ResponsesNames
  <2>4. "not_found" # None
    BY SocketsAssumption DEF R!Endings
  <2>5. Busy(v, turn.input)
    BY <1>t, <1>i, <2>1, <2>2, <2>4, BusySteps
  <2> HIDE DEF v, w
  <2>6. wire'[turn.dep] = v /\ \A d \in Native \ {turn.dep} : wire'[d] = wire[d]
    BY <1>t, <2>1, <2>2
  <2>7. \A d \in Native : ReadsOn(d) => Busy(wire'[d], turn.input)
    BY <2>5, <2>6 DEF ReadsOn
  <2>8. \A d \in Native : Idle(wire[d]) => Idle(wire'[d])
    <3>1. ~Idle(wire[turn.dep])
      BY <2>2 DEF Idle, Busy, w
    <3> QED  BY <2>6, <3>1
  <2> QED  BY <2>1, <2>3, <2>7, <2>8, Onward
<1>9. CASE R!Complete
  <2>1. turn # None /\ turn.stage = "store" /\ turn' = None
        /\ wire' = [e \in Native |-> IF e # turn.dep /\ bindings[e] # None THEN R!Closed(wire[e]) ELSE wire[e]]
    BY <1>9 DEF R!Complete, R!Commit, R!OthersClosed
  <2>2. \A d \in Native : Idle(wire[d])
    BY <2>1, AllIdle
  <2>3. \A d \in Native : Idle(R!Closed(wire[d]))
    BY <1>t, <1>e, <2>2, IdleSteps
  <2> QED  BY <2>1, <2>2, <2>3, Rests
<1>10. CASE \E d \in Native : R!Reuse(d)
  <2>1. PICK d \in Native : R!Reuse(d)
    BY <1>10
  <2>2. turn # None /\ turn.stage = "route" /\ turn.tries < MaxTries /\ bindings[d] # None
    BY <2>1 DEF R!Reuse, R!Routable
  <2>3. Idle(wire[d]) /\ wire[d] \in R!Wires
    BY <1>t, <2>2, AllIdle
  <2> DEFINE continues == R!CanContinue(bindings[d])
             content == IF continues THEN Append(bindings[d].upstream, turn.n) ELSE turn.input
             w == R!Creates(wire[d], content)
  <2>4. wire' = [wire EXCEPT ![d] = w] /\ R!Reads(d, "socket", continues)
    BY <2>1, <2>3 DEF R!Reuse, Idle
  <2>5. continues \in BOOLEAN
    BY DEF R!CanContinue
  <2>6. content \in R!Contents
    <3>1. continues => bindings[d].upstream \in R!Contents
      BY <2>2 DEF R!CanContinue, R!TypeOK, R!Bindings
    <3> QED  BY <1>i, <2>2, <3>1 DEF R!Contents
  <2>7. Busy(w, content)
    BY <2>3, <2>6, IdleSteps
  <2>8. ~wire[d].garbled => content = turn.input
    BY <2>2 DEF R!CanContinue, Continued
  <2>9. Busy(w, turn.input)
    <3>1. CASE wire[d].garbled
      <4>1. w.garbled
        BY <2>3, <2>6, <3>1, WireTypes
      <4> QED  BY <2>7, <4>1 DEF Busy
    <3> QED  BY <2>7, <2>8, <3>1
  <2> HIDE DEF w, continues
  <2> QED  BY <2>2, <2>4, <2>5, <2>9, ReadsOne
<1>11. CASE \E d \in Native : R!Connect(d)
  <2>1. PICK d \in Native : R!Connect(d)
    BY <1>11
  <2>2. turn # None /\ turn.stage = "route" /\ turn.tries < MaxTries /\ R!Reads(d, "socket", FALSE)
        /\ wire' = [wire EXCEPT ![d] = R!Creates(R!Fresh, turn.input)]
    BY <2>1 DEF R!Connect, R!Routable
  <2>3. Idle(R!Fresh)
    BY WireTypes DEF Idle, R!Fresh, R!Shut
  <2>4. Busy(R!Creates(R!Fresh, turn.input), turn.input)
    <3>1. \E w \in R!Wires : TRUE
      BY <1>t, <2>1
    <3>2. R!Fresh \in R!Wires
      BY <3>1, WireTypes
    <3> QED  BY <1>i, <2>2, <2>3, <3>2, IdleSteps
  <2> QED  BY <2>2, <2>4, ReadsOne
<1>12. CASE \E d \in Deployments : R!WithoutSocket(d)
  <2>1. PICK d \in Deployments : R!WithoutSocket(d)
    BY <1>12
  <2>2. turn # None /\ turn.stage = "route" /\ turn.tries < MaxTries /\ UNCHANGED wire
    BY <2>1 DEF R!WithoutSocket, R!Routable
  <2>3. PICK source \in {"http", "local"} : R!Reads(d, source, FALSE)
    BY <2>1 DEF R!WithoutSocket
  <2>4. turn'.source = source
    <3>1. turn' = [turn EXCEPT !.stage = "read", !.tries = @ + 1, !.dep = d, !.source = source, !.continues = FALSE]
      BY <2>3 DEF R!Reads
    <3>2. turn \in R!Turns /\ turn.tries < MaxTries /\ source \in {"socket", "http", "local"} /\ FALSE \in BOOLEAN
      BY <1>t, <2>2
    <3>3. ReadFrom(turn', turn, d, source)
      BY <3>1, <3>2, ReadTypes
    <3> QED  BY <3>3 DEF ReadFrom
  <2>5. \A e \in Native : Idle(wire[e])
    BY <2>2, AllIdle
  <2> QED  BY <2>2, <2>4, <2>5 DEF Undisturbed, ReadsOn
<1>13. CASE \E d \in Native : R!Created(d)
  <2>1. PICK d \in Native : R!Created(d)
    BY <1>13
  <2>2. UNCHANGED turn
    BY <2>1 DEF R!Created
  <2> DEFINE w == wire[d]
             v == wire'[d]
  <2>3. /\ w.running # <<>> /\ v.garbled = w.garbled
        /\ v.running = [w.running EXCEPT ![1] = [Head(w.running) EXCEPT !.seen = TRUE]]
        /\ v.reader = IF R!Settled(w.reader) THEN w.reader ELSE R!Resolves(w.reader, Head(w.running).content)
        /\ \A e \in Native \ {d} : wire'[e] = wire[e]
    BY <2>1, CreatedTypes
  <2>4. w \in R!Wires
    BY <1>t
  <2> HIDE DEF w, v
  <2>5. Busy(w, turn.input) => Busy(v, turn.input)
    BY <2>3, <2>4, Speaks
  <2>6. Idle(w) => Idle(v)
    BY <2>3, <2>4, Speaks DEF Idle, R!Settled
  <2> QED  BY <2>2, <2>3, <2>5, <2>6, Onward DEF w, v
<1>14. CASE \E d \in Native, end \in {"completed", "not_found", "failed"} : R!Finishes(d, end)
  <2>1. PICK d \in Native, end \in {"completed", "not_found", "failed"} : R!Finishes(d, end)
    BY <1>14
  <2>2. UNCHANGED turn
    BY <2>1 DEF R!Finishes
  <2> DEFINE w == wire[d]
             v == wire'[d]
  <2>3. /\ w.running # <<>> /\ v.garbled = w.garbled
        /\ v.running = Tail(w.running)
        /\ v.reader = IF R!Settled(w.reader) THEN w.reader
                      ELSE [w.reader EXCEPT !.end = end, !.got = Head(w.running).content]
        /\ \A e \in Native \ {d} : wire'[e] = wire[e]
    BY <2>1, FinishTypes
  <2>4. w \in R!Wires
    BY <1>t
  <2>5. end = "completed" => Head(w.running).seen
    BY <2>1 DEF R!Finishes, R!Head1
  <2> HIDE DEF w, v
  <2>6. Busy(w, turn.input) => Busy(v, turn.input)
    BY <2>3, <2>4, <2>5, Speaks
  <2>7. Idle(w) => Idle(v)
    BY <2>3, <2>4, Speaks DEF Idle, R!Settled
  <2> QED  BY <2>2, <2>3, <2>6, <2>7, Onward DEF w, v
<1>15. CASE \E d \in Native : R!Garbles(d)
  <2>1. PICK d \in Native : R!Garbles(d)
    BY <1>15
  <2>2. UNCHANGED turn
    BY <2>1 DEF R!Garbles
  <2>3. /\ wire'[d].garbled /\ wire[d].reader # None /\ wire'[d].reader # None
        /\ \A e \in Native \ {d} : wire'[e] = wire[e]
    BY <2>1, GarbleTypes, ResponsesNames
  <2>4. Busy(wire'[d], turn.input) /\ ~Idle(wire[d])
    BY <2>3 DEF Busy, Idle
  <2> QED  BY <2>2, <2>3, <2>4, Onward
<1>16. CASE \E d \in Native : R!UpstreamCloses(d)
  <2>1. PICK d \in Native : R!UpstreamCloses(d)
    BY <1>16
  <2>2. UNCHANGED turn /\ wire'[d] = R!Closed(wire[d]) /\ \A e \in Native \ {d} : wire'[e] = wire[e]
    BY <1>t, <2>1 DEF R!UpstreamCloses
  <2>3. Idle(wire[d]) => Idle(R!Closed(wire[d]))
    BY <1>t, <1>e, IdleSteps
  <2>4. turn # None /\ Busy(wire[d], turn.input) => Busy(R!Closed(wire[d]), turn.input)
    BY <1>t, <1>i, BusySteps
  <2> QED  BY <2>2, <2>3, <2>4, Onward DEF ReadsOn
<1>17. \/ UNCHANGED <<turn, wire>>
       \/ R!AbortTurn /\ R!CloseUpstreams
       \/ R!Begin \/ R!Prepare \/ R!PrepareFails \/ R!NoRoute \/ R!AttemptFails \/ R!RetryInFull
       \/ R!Terminal \/ R!Complete \/ R!StoreFails
       \/ \E d \in Native : R!Reuse(d) \/ R!Connect(d)
       \/ \E d \in Deployments : R!WithoutSocket(d)
       \/ \E told \in BOOLEAN : R!ConsumerFails(told)
       \/ \E d \in Native : R!Created(d) \/ R!Garbles(d) \/ R!UpstreamCloses(d)
                            \/ \E end \in {"completed", "not_found", "failed"} : R!Finishes(d, end)
  BY DEF R!Next, R!Turn, R!Provider, R!Send, R!TimeIsUp, R!Restart, R!ClientCloses, R!Deleted
<1>18. R!Begin => turn = None /\ UNCHANGED wire /\ (turn' = None \/ turn'.stage = "prepare")
  BY DEF R!Begin
<1>19. R!PrepareFails \/ R!NoRoute \/ R!StoreFails =>
          turn # None /\ turn.stage # "read" /\ turn' = None /\ UNCHANGED wire
  BY DEF R!PrepareFails, R!NoRoute, R!StoreFails, R!Fail
<1>20. R!AttemptFails \/ (\E told \in BOOLEAN : R!ConsumerFails(told)) =>
          /\ turn # None /\ turn.stage = "read" /\ wire' = R!Detached
          /\ turn' = None \/ turn' = [turn EXCEPT !.stage = "route"]
  BY DEF R!AttemptFails, R!FailAttempt, R!ConsumerFails, R!Reading, R!Fail
<1> QED
  BY <1>1, <1>2, <1>3, <1>4, <1>5, <1>6, <1>7, <1>8, <1>9, <1>10, <1>11, <1>12, <1>13, <1>14, <1>15, <1>16,
     <1>17, <1>18, <1>19, <1>20

-----------------------------------------------------------------------------
(* A Responses WebSocket: what a step does to turns and memories.          *)

\* The same turn goes on, or none does.
Carries ==
    /\ turn' = None <=> turn = None
    /\ turn # None => /\ Same(turn, turn') /\ turn'.input = turn.input
                      /\ turn'.stage = "prepare" <=> turn.stage = "prepare"

\* Upstream's memory of a response is kept or given up, and what was garbled stays so.
Forgets ==
    \A d \in Native :
        \/ bindings'[d] = None
        \/ bindings'[d].public = None
        \/ bindings'[d] = bindings[d] /\ (wire[d].garbled => wire'[d].garbled)

Goes ==
    /\ UNCHANGED <<sent, queue, answers, state>> /\ Carries /\ Forgets
    /\ \A id \in R!Ids : stored'[id] \in {stored[id], None}
    /\ client' = "open" => client = "open"

Fails == turn # None /\ (\E told \in BOOLEAN : R!Fail(told)) /\ (\A d \in Native : wire'[d].garbled = wire[d].garbled)

\* What a turn is when the terminal of upstream has been read.
LEMMA TerminalTypes ==
    ASSUME R!TypeOK, Undisturbed, R!Terminal
    PROVE  /\ turn' \in R!Turns /\ Same(turn, turn') /\ turn'.input = turn.input /\ turn'.stage = "store"
           /\ turn'.source = turn.source /\ turn'.dep = turn.dep
           /\ turn.source # "socket" => turn'.got = turn.input
           /\ turn.source = "socket" => /\ wire[turn.dep].reader.end = "completed"
                                        /\ turn'.got = wire[turn.dep].reader.got
                                        /\ turn'.id = wire[turn.dep].reader.id
<1>1. turn \in R!Turns /\ turn.input \in R!Contents /\ turn.stage = "read" /\ turn # None
      /\ turn.input \in R!Contents \cup {None}
  BY DEF R!Terminal, R!Reading, R!TypeOK, R!Turns
<1>2. CASE turn.source # "socket"
  <2>1. turn' = [turn EXCEPT !.stage = "store", !.got = turn.input]
    BY <1>2 DEF R!Terminal
  <2> DEFINE u == [turn EXCEPT !.stage = "store", !.got = turn.input]
  <2>2. u \in R!Turns /\ Same(turn, u) /\ u.input = turn.input /\ u.stage = "store" /\ u.got = turn.input
        /\ u.dep = turn.dep /\ u.source = turn.source
    BY <1>1 DEF Same, R!Turns
  <2> HIDE DEF u
  <2> QED  BY <1>2, <2>1, <2>2 DEF u
<1>3. CASE turn.source = "socket"
  <2> DEFINE r == wire[turn.dep].reader
             u == [turn EXCEPT !.stage = "store", !.got = r.got, !.id = r.id]
  <2>1. turn' = u /\ r.end = "completed"
    BY <1>3 DEF R!Terminal, R!ReaderEnd
  <2>2. r.got \in R!Contents \cup {None} /\ r.id \in R!Contents \cup {None}
    <3>1. turn.dep \in Native /\ wire[turn.dep] \in R!Wires /\ r # None
      BY <1>1, <1>3 DEF Undisturbed, ReadsOn, Busy, R!TypeOK
    <3> QED  BY <3>1 DEF R!Wires, R!Readers
  <2> HIDE DEF r
  <2>3. u \in R!Turns /\ Same(turn, u) /\ u.input = turn.input /\ u.stage = "store" /\ u.got = r.got /\ u.id = r.id
        /\ u.dep = turn.dep /\ u.source = turn.source
    BY <1>1, <2>2 DEF Same, R!Turns
  <2> HIDE DEF u
  <2> QED  BY <1>3, <2>1, <2>3 DEF r
<1> QED  BY <1>2, <1>3

LEMMA DetachedGarbled ==
    ASSUME R!TypeOK, wire' = R!Detached
    PROVE  \A d \in Native : wire'[d].garbled = wire[d].garbled
<1>1. wire \in [Native -> R!Wires] /\ \A d \in Native : wire[d] \in R!Wires
  BY DEF R!TypeOK
<1>2. CASE turn.source # "socket"
  BY <1>2 DEF R!Detached
<1>3. CASE turn.source = "socket"
  <2> DEFINE v == [(IF R!Settled(wire[turn.dep].reader) THEN wire[turn.dep] ELSE R!Closed(wire[turn.dep])) EXCEPT !.reader = None]
  <2>1. wire' = [wire EXCEPT ![turn.dep] = v]
    BY <1>3 DEF R!Detached
  <2>2. turn.dep \in Native => v.garbled = wire[turn.dep].garbled
    BY <1>1, Lets
  <2> HIDE DEF v
  <2> QED  BY <1>1, <2>1, <2>2
<1> QED  BY <1>2, <1>3

\* A step takes a message, begins, prepares, fails or completes a turn, or carries on.
LEMMA Steps ==
    ASSUME R!TypeOK, Undisturbed, R!Next
    PROVE  \/ \E prev \in 1..sent \cup {None}, generate, store \in BOOLEAN : R!Send(prev, generate, store)
           \/ R!Begin \/ R!Prepare \/ R!Complete \/ Fails \/ Goes
<1>t. /\ turn \in R!Turns \cup {None} /\ wire \in [Native -> R!Wires] /\ bindings \in [Native -> R!Bindings \cup {None}]
      /\ stored \in [R!Ids -> R!Contents \cup {None}]
      /\ \A d \in Native : wire[d] \in R!Wires
  BY DEF R!TypeOK
<1>n. R!NoIds.public = None
  BY DEF R!NoIds
<1> USE DEF R!endpoint, R!upstream
<1>1. CASE R!TimeIsUp
  BY <1>1 DEF R!TimeIsUp, Goes, Carries, Forgets, Same
<1>2. CASE R!Restart \/ R!ClientCloses
  <2>1. R!AbortTurn /\ R!CloseUpstreams /\ client' # "open" /\ UNCHANGED <<sent, queue, state, stored, answers>>
    BY <1>2 DEF R!Restart, R!ClientCloses
  <2>2. Carries
    <3>1. turn' = None <=> turn = None
      BY <1>t, <2>1, AbortTypes DEF Turning
    <3>2. turn # None => Same(turn, turn') /\ turn'.input = turn.input /\ turn'.stage = turn.stage
      BY <1>t, <2>1, TurnTypes DEF R!AbortTurn
    <3> QED  BY <3>1, <3>2 DEF Carries
  <2>3. Forgets
    BY <2>1, CloseTypes DEF Forgets
  <2> QED  BY <2>1, <2>2, <2>3 DEF Goes
<1>3. CASE R!AttemptFails
  <2>1. turn # None /\ turn.stage = "read" /\ wire' = R!Detached
        /\ \/ turn' = [turn EXCEPT !.stage = "route"] /\ UNCHANGED <<client, sent, queue, state, stored, answers, bindings>>
           \/ R!Fail(TRUE)
    BY <1>3 DEF R!AttemptFails, R!FailAttempt, R!Reading
  <2>2. \A d \in Native : wire'[d].garbled = wire[d].garbled
    BY <2>1, DetachedGarbled
  <2>3. CASE turn' = [turn EXCEPT !.stage = "route"] /\ UNCHANGED <<client, sent, queue, state, stored, answers, bindings>>
    <3>1. Carries
      BY <1>t, <2>1, <2>3, TurnTypes, ResponsesNames DEF Carries
    <3>2. Forgets
      BY <2>2, <2>3 DEF Forgets
    <3> QED  BY <2>3, <3>1, <3>2 DEF Goes
  <2>4. CASE R!Fail(TRUE)
    BY <2>1, <2>2, <2>4 DEF Fails
  <2> QED  BY <2>1, <2>3, <2>4
<1>4. CASE R!PrepareFails \/ R!NoRoute \/ R!StoreFails
  BY <1>4 DEF R!PrepareFails, R!NoRoute, R!StoreFails, Fails
<1>5. CASE \E told \in BOOLEAN : R!ConsumerFails(told)
  BY <1>5, DetachedGarbled DEF R!ConsumerFails, R!Reading, Fails
<1>6. CASE R!RetryInFull
  <2>1. /\ turn # None /\ turn.stage = "read" /\ turn.source = "socket"
        /\ turn' = [turn EXCEPT !.continues = FALSE]
        /\ bindings' = [bindings EXCEPT ![turn.dep] = R!NoIds]
        /\ \E v : wire' = [wire EXCEPT ![turn.dep] = v]
        /\ UNCHANGED <<client, sent, queue, state, stored, answers>>
    BY <1>6 DEF R!RetryInFull, R!Reading
  <2>2. Carries
    <3>1. turn' # None /\ Same(turn, turn') /\ turn'.input = turn.input /\ turn'.stage = turn.stage
      BY <1>t, <2>1, TurnTypes, ResponsesNames
    <3> QED  BY <2>1, <3>1 DEF Carries
  <2>3. Forgets
    BY <1>t, <1>n, <2>1 DEF Forgets
  <2> QED  BY <2>1, <2>2, <2>3 DEF Goes
<1>7. CASE R!Terminal
  <2>1. turn # None /\ turn.stage = "read" /\ wire' = R!Detached
        /\ UNCHANGED <<client, sent, queue, state, stored, answers, bindings>>
    BY <1>7 DEF R!Terminal, R!Reading
  <2>3. Carries
    BY <1>7, <2>1, TerminalTypes, ResponsesNames DEF Carries
  <2>4. Forgets
    BY <2>1, DetachedGarbled DEF Forgets
  <2> QED  BY <2>1, <2>3, <2>4 DEF Goes
<1>8. CASE \E d \in Native : R!Reuse(d)
  <2>1. PICK d \in Native : R!Reuse(d)
    BY <1>8
  <2>2. turn # None /\ turn.stage = "route" /\ turn.tries < MaxTries
        /\ UNCHANGED <<client, sent, queue, state, stored, answers, bindings>>
    BY <2>1 DEF R!Reuse, R!Routable
  <2>3. Idle(wire[d]) /\ wire[d] \in R!Wires
    BY <1>t, <2>2, AllIdle
  <2> DEFINE continues == R!CanContinue(bindings[d])
             content == IF continues THEN Append(bindings[d].upstream, turn.n) ELSE turn.input
             w == R!Creates(wire[d], content)
  <2>4. wire' = [wire EXCEPT ![d] = w] /\ R!Reads(d, "socket", continues)
    BY <2>1, <2>3 DEF R!Reuse, Idle
  <2>5. w.garbled = wire[d].garbled
    <3>1. content \in R!Contents
      <4>1. turn.n \in R!Ids /\ turn.input \in R!Contents
        BY <1>t, <2>2 DEF R!Turns
      <4>2. continues => bindings[d].upstream \in R!Contents
        BY <1>t, <2>1 DEF R!CanContinue, R!Reuse, R!Bindings
      <4> QED  BY <4>1, <4>2 DEF R!Contents
    <3> QED  BY <2>3, <3>1, WireTypes
  <2>6. continues \in BOOLEAN
    BY DEF R!CanContinue
  <2> HIDE DEF w, continues
  <2>7. Carries
    <3>1. turn \in R!Turns /\ turn.tries < MaxTries /\ d \in Deployments /\ "socket" \in {"socket", "http", "local"}
      BY <1>t, <2>2, SocketsAssumption
    <3>2. ReadFrom(turn', turn, d, "socket")
      BY <2>4, <2>6, <3>1, ReadTypes DEF R!Reads
    <3> QED  BY <2>2, <3>2, ResponsesNames DEF Carries, ReadFrom
  <2>8. Forgets
    BY <1>t, <2>2, <2>4, <2>5 DEF Forgets
  <2> QED  BY <2>2, <2>7, <2>8 DEF Goes
<1>9. CASE \E d \in Native : R!Connect(d)
  <2>1. PICK d \in Native : R!Connect(d)
    BY <1>9
  <2>2. turn # None /\ turn.stage = "route" /\ turn.tries < MaxTries /\ R!Reads(d, "socket", FALSE)
        /\ bindings' = [bindings EXCEPT ![d] = R!NoIds]
        /\ (\E w : wire' = [wire EXCEPT ![d] = w])
        /\ UNCHANGED <<client, sent, queue, state, stored, answers>>
    BY <2>1 DEF R!Connect, R!Routable
  <2>3. Carries
    <3>1. turn \in R!Turns /\ turn.tries < MaxTries /\ d \in Deployments /\ "socket" \in {"socket", "http", "local"}
          /\ FALSE \in BOOLEAN
      BY <1>t, <2>2, SocketsAssumption
    <3>2. ReadFrom(turn', turn, d, "socket")
      BY <2>2, <3>1, ReadTypes DEF R!Reads
    <3> QED  BY <2>2, <3>2, ResponsesNames DEF Carries, ReadFrom
  <2>4. Forgets
    BY <1>t, <1>n, <2>2 DEF Forgets
  <2> QED  BY <2>2, <2>3, <2>4 DEF Goes
<1>10. CASE \E d \in Deployments : R!WithoutSocket(d)
  <2>1. PICK d \in Deployments : R!WithoutSocket(d)
    BY <1>10
  <2>2. turn # None /\ turn.stage = "route" /\ turn.tries < MaxTries
        /\ UNCHANGED <<client, sent, queue, state, stored, answers, bindings, wire>>
    BY <2>1 DEF R!WithoutSocket, R!Routable
  <2>3. PICK source \in {"http", "local"} : R!Reads(d, source, FALSE)
    BY <2>1 DEF R!WithoutSocket
  <2>4. Carries
    <3>1. turn \in R!Turns /\ turn.tries < MaxTries /\ source \in {"socket", "http", "local"} /\ FALSE \in BOOLEAN
      BY <1>t, <2>2
    <3>2. ReadFrom(turn', turn, d, source)
      BY <2>3, <3>1, ReadTypes DEF R!Reads
    <3> QED  BY <2>2, <3>2, ResponsesNames DEF Carries, ReadFrom
  <2>5. Forgets
    BY <2>2 DEF Forgets
  <2> QED  BY <2>2, <2>4, <2>5 DEF Goes
<1>11. CASE UNCHANGED <<client, sent, queue, state, stored, answers, turn, bindings>>
            /\ \E d \in Native : (wire[d].garbled => wire'[d].garbled) /\ \A e \in Native \ {d} : wire'[e] = wire[e]
  BY <1>11 DEF Goes, Carries, Forgets, Same
<1>12. CASE \E d \in Native : R!Created(d) \/ R!Garbles(d)
  BY <1>11, <1>12, CreatedTypes, GarbleTypes DEF R!Created, R!Garbles
<1>13. CASE \E d \in Native, end \in {"completed", "not_found", "failed"} : R!Finishes(d, end)
  BY <1>11, <1>13, FinishTypes DEF R!Finishes
<1>14. CASE \E d \in Native : R!UpstreamCloses(d)
  <2>1. PICK d \in Native : R!UpstreamCloses(d)
    BY <1>14
  <2>2. wire' = [wire EXCEPT ![d] = R!Closed(wire[d])] /\ UNCHANGED <<client, sent, queue, state, stored, answers, turn, bindings>>
    BY <1>t, <2>1 DEF R!UpstreamCloses
  <2>3. R!Closed(wire[d]).garbled = wire[d].garbled
    BY <1>t, WireTypes
  <2> QED  BY <1>t, <1>11, <2>2, <2>3
<1>15. CASE \E id \in R!Ids : R!Deleted(id)
  <2>1. UNCHANGED <<client, sent, queue, state, answers, turn, bindings, wire>>
        /\ \A id \in R!Ids : stored'[id] \in {stored[id], None}
    BY <1>t, <1>15 DEF R!Deleted
  <2> QED  BY <2>1 DEF Goes, Carries, Forgets, Same
<1> QED
  BY <1>1, <1>2, <1>3, <1>4, <1>5, <1>6, <1>7, <1>8, <1>9, <1>10, <1>12, <1>13, <1>14, <1>15
     DEF R!Next, R!Turn, R!Provider

\* A message that is marked after a step was marked before, or its turn has just ended.
LEMMA Marks ==
    ASSUME ResponsesInv, R!Next, NEW k \in R!Ids, Marked(k)'
    PROVE  Marked(k) \/ (turn # None /\ turn' = None /\ turn.n = k)
<1>t. R!TypeOK /\ Undisturbed
  BY DEF ResponsesInv
<1>a. answers \in Seq(R!Answers) /\ (turn # None => turn \in R!Turns) /\ stored \in [R!Ids -> R!Contents \cup {None}]
  BY <1>t DEF R!TypeOK
<1> USE DEF R!endpoint, R!upstream
<1>1. CASE UNCHANGED <<state, stored, bindings>>
           /\ (answers' = answers \/ \E n, prev : answers' = Append(answers, [n |-> n, prev |-> prev, kind |-> "refused"]))
  <2>1. (\E i \in 1..Len(answers') : answers'[i].kind # "refused" /\ answers'[i].n = k) =>
           \E i \in 1..Len(answers) : answers[i].kind # "refused" /\ answers[i].n = k
    <3>1. CASE answers' = answers
      BY <3>1
    <3>2. ASSUME NEW n, NEW prev, answers' = Append(answers, [n |-> n, prev |-> prev, kind |-> "refused"])
          PROVE  <2>1
      <4> DEFINE a == [n |-> n, prev |-> prev, kind |-> "refused"]
      <4>1. a.kind = "refused"
        OBVIOUS
      <4> HIDE DEF a
      <4>2. Len(answers') = Len(answers) + 1 /\ answers'[Len(answers) + 1] = a
            /\ \A i \in 1..Len(answers) : answers'[i] = answers[i]
        BY <1>a, <3>2 DEF a
      <4> QED  BY <1>a, <4>1, <4>2
    <3> QED  BY <1>1, <3>1, <3>2
  <2> QED  BY <1>1, <2>1 DEF Marked
<1>2. CASE Goes
  BY <1>2 DEF Goes, Forgets, Marked
<1>3. ASSUME turn # None, turn' = None,
             state' = None \/ state' = state \/ state'.id = turn.n,
             \A id \in R!Ids : stored'[id] \in {stored[id], None} \/ id = turn.n,
             \A d \in Native : bindings'[d] = None \/ bindings'[d].public = None \/ bindings'[d] = bindings[d] \/ bindings'[d].public = turn.n,
             NEW prev, NEW kd, R!Answer(turn.n, prev, kd)
      PROVE  Marked(k) \/ turn.n = k
  <2>1. (\E i \in 1..Len(answers') : answers'[i].kind # "refused" /\ answers'[i].n = k) =>
           turn.n = k \/ \E i \in 1..Len(answers) : answers[i].kind # "refused" /\ answers[i].n = k
    <3> DEFINE a == [n |-> turn.n, prev |-> prev, kind |-> kd]
    <3>1. a.n = turn.n
      OBVIOUS
    <3>2. answers' = answers \/ answers' = Append(answers, a)
      BY <1>3 DEF R!Answer
    <3> HIDE DEF a
    <3>3. answers' = Append(answers, a) => /\ Len(answers') = Len(answers) + 1 /\ answers'[Len(answers) + 1] = a
                                           /\ \A i \in 1..Len(answers) : answers'[i] = answers[i]
      BY <1>a
    <3> QED  BY <1>a, <3>1, <3>2, <3>3
  <2> QED  BY <1>3, <2>1 DEF Marked
<1>4. CASE Fails
  <2>1. PICK told \in BOOLEAN : R!Fail(told)
    BY <1>4 DEF Fails
  <2>2. R!NoIds.public = None
    BY DEF R!NoIds
  <2>3. \A d \in Native : bindings'[d] = bindings[d] \/ bindings'[d].public = None
    BY <2>1, <2>2 DEF R!Fail, R!KeptIds
  <2> QED  BY <1>3, <1>4, <2>1, <2>3 DEF Fails, R!Fail, R!KeptState
<1>5. CASE R!Complete
  <2>1. \A d \in Native : bindings'[d] = None \/ bindings'[d] = bindings[d] \/ bindings'[d].public = turn.n
    BY <1>5 DEF R!Complete, R!Commit, R!Committed
  <2>2. \A id \in R!Ids : stored'[id] = stored[id] \/ id = turn.n
    BY <1>5, <1>a DEF R!Complete
  <2>3. state'.id = turn.n
    BY <1>5 DEF R!Complete
  <2> QED  BY <1>3, <1>5, <2>1, <2>2, <2>3 DEF R!Complete
<1> QED
  <2>1. (\E prev \in 1..sent \cup {None}, generate, store \in BOOLEAN : R!Send(prev, generate, store)) => 
           UNCHANGED <<state, stored, bindings>>
           /\ (answers' = answers \/ \E n, prev : answers' = Append(answers, [n |-> n, prev |-> prev, kind |-> "refused"]))
    BY DEF R!Send, R!Answer
  <2>2. R!Begin \/ R!Prepare => UNCHANGED <<state, stored, bindings, answers>>
    BY DEF R!Begin, R!Prepare
  <2>3. R!Complete \/ Fails => turn # None /\ turn' = None
    BY DEF R!Complete, Fails, R!Fail
  <2>4. Fails \/ R!Complete => Marked(k) \/ turn.n = k
    BY <1>4, <1>5
  <2> QED  BY <1>t, <1>1, <1>2, <2>1, <2>2, <2>3, <2>4, Steps

\* Messages keep their order.
LEMMA NumberedKept == ResponsesInv /\ R!Next => Numbered'
<1> SUFFICES ASSUME ResponsesInv, R!Next PROVE Numbered'
  OBVIOUS
<1>t. R!TypeOK /\ Undisturbed /\ Numbered
  BY DEF ResponsesInv
<1>a. /\ sent \in Nat /\ queue \in Seq(R!Requests)
      /\ turn # None => turn \in R!Turns /\ turn.n \in Nat /\ turn.n \in R!Ids
      /\ \A i \in 1..Len(queue) : queue[i].n \in Nat
      /\ R!Ids \subseteq Nat
  <2>1. \A i \in 1..Len(queue) : queue[i] \in R!Requests
    BY <1>t DEF R!TypeOK
  <2> QED  BY <1>t, <2>1, ResponsesNames DEF R!TypeOK, R!Turns, R!Requests
<1>m. \A k \in R!Ids : Marked(k)' => Told(k) \/ (turn # None /\ turn' = None /\ turn.n = k)
  BY <1>t, Marks DEF Numbered
<1> USE DEF R!endpoint, R!upstream
<1>1. CASE \E prev \in 1..sent \cup {None}, generate, store \in BOOLEAN : R!Send(prev, generate, store)
  <2>1. PICK prev \in 1..sent \cup {None}, generate \in BOOLEAN, store \in BOOLEAN : R!Send(prev, generate, store)
    BY <1>1
  <2> DEFINE m == [n |-> sent + 1, prev |-> prev, generate |-> generate, store |-> store]
  <2>2. sent' = sent + 1 /\ turn' = turn /\ (queue' = queue \/ queue' = Append(queue, m))
    BY <2>1 DEF R!Send
  <2>3. m.n = sent + 1
    OBVIOUS
  <2> HIDE DEF m
  <2>4. queue' = Append(queue, m) => /\ Len(queue') = Len(queue) + 1 /\ queue'[Len(queue) + 1] = m
                                     /\ \A i \in 1..Len(queue) : queue'[i] = queue[i]
    BY <1>a
  <2>5. \A i \in 1..Len(queue) : queue[i].n <= sent /\ (turn # None => turn.n < queue[i].n)
                                 /\ \A j \in 1..Len(queue) : i < j => queue[i].n < queue[j].n
    BY <1>t DEF Numbered
  <2>6. turn # None => turn.n <= sent
    BY <1>t DEF Numbered
  <2>l. Len(queue) \in Nat
    BY <1>a
  <2>7. \A i \in 1..Len(queue') : (i \in 1..Len(queue) /\ queue'[i] = queue[i]) \/ (i = Len(queue) + 1 /\ queue'[i] = m)
    <3>1. CASE queue' = queue
      BY <3>1
    <3>2. CASE queue' = Append(queue, m)
      BY <2>l, <2>4, <3>2
    <3> QED  BY <2>2, <3>1, <3>2
  <2>8. \A i \in 1..Len(queue') : queue'[i].n <= sent + 1 /\ (turn # None => turn.n < queue'[i].n)
                                  /\ \A j \in 1..Len(queue') : i < j => queue'[i].n < queue'[j].n
    <3>1. \A i \in 1..Len(queue') : (queue'[i].n <= sent \/ i = Len(queue) + 1) /\ queue'[i].n <= sent + 1 /\ queue'[i].n \in Nat
      BY <1>a, <2>3, <2>5, <2>7
    <3>2. \A i \in 1..Len(queue') : turn # None => turn.n < queue'[i].n
      BY <1>a, <2>3, <2>5, <2>6, <2>7
    <3>3. \A i, j \in 1..Len(queue') : i < j => queue'[i].n < queue'[j].n
      BY <1>a, <2>l, <2>3, <2>5, <2>7, <3>1
    <3> QED  BY <3>1, <3>2, <3>3
  <2>9. ASSUME NEW k \in R!Ids, Told(k) PROVE Told(k)'
    <3>1. k \in Nat /\ k <= sent /\ (turn # None => k < turn.n) /\ \A i \in 1..Len(queue) : k < queue[i].n
      BY <1>a, <2>9 DEF Told
    <3>2. \A i \in 1..Len(queue') : k < queue'[i].n
      BY <1>a, <2>3, <2>7, <3>1
    <3>3. k <= sent' /\ (turn' # None => k < turn'.n)
      BY <1>a, <2>2, <3>1
    <3> QED  BY <3>2, <3>3 DEF Told
  <2>10. \A k \in R!Ids : Marked(k)' => Told(k)'
    BY <1>m, <2>2, <2>9
  <2> QED  BY <1>a, <2>2, <2>6, <2>8, <2>10 DEF Numbered
<1>2. CASE R!Begin
  <2>1. turn = None /\ queue # <<>> /\ queue' = Tail(queue) /\ sent' = sent
        /\ (turn' = None \/ turn'.n = Head(queue).n)
    BY <1>2 DEF R!Begin
  <2>2. /\ Head(queue) = queue[1] /\ Len(queue') = Len(queue) - 1 /\ Len(queue) \in Nat /\ Len(queue) >= 1
        /\ \A i \in 1..Len(queue') : queue'[i] = queue[i + 1] /\ i + 1 \in 1..Len(queue)
    BY <1>a, <2>1
  <2>3. \A i \in 1..Len(queue) : queue[i].n <= sent
                                 /\ \A j \in 1..Len(queue) : i < j => queue[i].n < queue[j].n
    BY <1>t DEF Numbered
  <2>4. \A i, j \in 1..Len(queue') : i < j => queue'[i].n < queue'[j].n
    BY <2>2, <2>3
  <2>5. \A i \in 1..Len(queue') : queue'[i].n <= sent' /\ (turn' # None => turn'.n < queue'[i].n)
    BY <2>1, <2>2, <2>3
  <2>6. turn' # None => turn'.n <= sent'
    BY <2>1, <2>2, <2>3
  <2>7. \A k \in R!Ids : Told(k) => Told(k)'
    BY <2>1, <2>2 DEF Told
  <2>8. \A k \in R!Ids : Marked(k)' => Told(k)'
    BY <1>m, <2>1, <2>7
  <2> QED  BY <2>4, <2>5, <2>6, <2>8 DEF Numbered
<1>3. ASSUME UNCHANGED <<sent, queue>>, turn' = None \/ (turn # None /\ turn'.n = turn.n)
      PROVE  Numbered'
  <2>1. turn' # None => turn'.n <= sent'
    BY <1>t, <1>3 DEF Numbered
  <2>2. \A i \in 1..Len(queue') : queue'[i].n <= sent' /\ (turn' # None => turn'.n < queue'[i].n)
                                  /\ \A j \in 1..Len(queue') : i < j => queue'[i].n < queue'[j].n
    BY <1>t, <1>3 DEF Numbered
  <2>3. \A k \in R!Ids : Told(k) => Told(k)'
    BY <1>3 DEF Told
  <2>4. ASSUME NEW k \in R!Ids, turn # None, turn' = None, turn.n = k PROVE Told(k)'
    BY <1>t, <1>3, <2>4 DEF Told, Numbered
  <2>5. \A k \in R!Ids : Marked(k)' => Told(k)'
    BY <1>m, <2>3, <2>4
  <2> QED  BY <2>1, <2>2, <2>5 DEF Numbered
<1>4. R!Prepare => UNCHANGED <<sent, queue>> /\ turn # None /\ turn'.n = turn.n
  <2>1. R!Prepare => UNCHANGED <<sent, queue>> /\ turn # None /\ \E i : turn' = [turn EXCEPT !.stage = "route", !.input = i]
    BY DEF R!Prepare
  <2> QED  BY <1>a, <2>1 DEF R!Turns
<1>5. R!Complete \/ Fails => UNCHANGED <<sent, queue>> /\ turn' = None
  BY DEF R!Complete, Fails, R!Fail
<1>6. Goes => UNCHANGED <<sent, queue>> /\ (turn' = None \/ (turn # None /\ turn'.n = turn.n))
  BY DEF Goes, Carries, Same
<1> QED  BY <1>t, <1>1, <1>2, <1>3, <1>4, <1>5, <1>6, Steps

\* The memories go on agreeing.
LEMMA RememberedKept == ResponsesInv /\ R!Next => Remembered'
<1> SUFFICES ASSUME ResponsesInv, R!Next PROVE Remembered'
  OBVIOUS
<1>t. R!TypeOK /\ Undisturbed /\ Remembered
  BY DEF ResponsesInv
<1>a. /\ state # None => state.id \in R!Ids
      /\ \A d \in Native : bindings[d] # None /\ bindings[d].public # None => bindings[d].public \in R!Ids
      /\ turn # None => turn.n \in R!Ids
      /\ stored \in [R!Ids -> R!Contents \cup {None}]
      /\ wire \in [Native -> R!Wires]
  BY <1>t DEF R!TypeOK, R!States, R!Bindings, R!Turns
<1> USE DEF R!endpoint, R!upstream
<1>1. CASE Forgets /\ (\A id \in R!Ids : stored'[id] \in {stored[id], None}) /\ (state' = None \/ state' = state)
  <2>1. state' # None /\ stored'[state'.id] # None => stored'[state'.id] = state'.items
    BY <1>1, <1>a, <1>t DEF Remembered
  <2>2. ASSUME NEW d \in Native, bindings'[d] # None, bindings'[d].public # None, ~wire'[d].garbled
        PROVE  /\ state' # None /\ state'.id = bindings'[d].public => bindings'[d].upstream = state'.items
               /\ stored'[bindings'[d].public] # None => bindings'[d].upstream = stored'[bindings'[d].public]
    <3>1. bindings'[d] = bindings[d] /\ ~wire[d].garbled
      BY <1>1, <2>2 DEF Forgets
    <3>2. bindings[d].public \in R!Ids
      BY <1>a, <2>2, <3>1
    <3> QED  BY <1>1, <1>t, <2>2, <3>1, <3>2 DEF Remembered
  <2> QED  BY <2>1, <2>2 DEF Remembered
<1>2. CASE R!Complete
  <2>1. /\ turn # None /\ turn.stage = "store" /\ turn.n \in R!Ids
        /\ state' = [id |-> turn.n, items |-> turn.input]
        /\ stored' = IF turn.store THEN [stored EXCEPT ![turn.n] = turn.input] ELSE stored
    BY <1>2, <1>a DEF R!Complete
  <2>2. \A k \in R!Ids : Marked(k) => k # turn.n
    <3>1. \A k \in R!Ids : Marked(k) => k < turn.n
      BY <2>1 DEF ResponsesInv, Numbered, Told
    <3> QED  BY <2>1, <3>1, ResponsesNames
  <2>3. stored[turn.n] = None
    BY <2>1, <2>2 DEF Marked
  <2>4. stored'[turn.n] \in {turn.input, None} /\ \A k \in R!Ids : k # turn.n => stored'[k] = stored[k]
    BY <1>a, <2>1, <2>3
  <2>5. ASSUME NEW d \in Native, bindings'[d] # None, bindings'[d].public # None, ~wire'[d].garbled
        PROVE  /\ state' # None /\ state'.id = bindings'[d].public => bindings'[d].upstream = state'.items
               /\ stored'[bindings'[d].public] # None => bindings'[d].upstream = stored'[bindings'[d].public]
    <3>1. bindings[d] # None /\ d = turn.dep /\ bindings'[d] = R!Committed(bindings[d], d)
      BY <1>2, <2>5 DEF R!Complete, R!Commit
    <3>2. wire'[d] = wire[d]
      BY <1>2, <1>a, <3>1 DEF R!Complete, R!Commit, R!OthersClosed
    <3>3. CASE bindings'[d] = bindings[d]
      <4>1. bindings[d].public \in R!Ids /\ Marked(bindings[d].public)
        BY <1>a, <2>5, <3>1, <3>3 DEF Marked
      <4>2. bindings[d].public # turn.n
        BY <2>2, <4>1
      <4> QED  BY <1>t, <2>1, <2>4, <2>5, <3>1, <3>2, <3>3, <4>1, <4>2 DEF Remembered
    <3>4. CASE bindings'[d] = [public |-> turn.n, upstream |-> turn.id] /\ turn.source = "socket"
      <4>1. turn.id = turn.input
        BY <2>1, <2>5, <3>1, <3>2, <3>4 DEF ResponsesInv, Faithful
      <4> QED  BY <2>1, <2>4, <3>4, <4>1
    <3> QED  BY <3>1, <3>3, <3>4 DEF R!Committed
  <2> QED  BY <2>1, <2>4, <2>5 DEF Remembered
<1>3. (\E prev \in 1..sent \cup {None}, generate, store \in BOOLEAN : R!Send(prev, generate, store)) \/ R!Begin \/ R!Prepare =>
         UNCHANGED <<state, stored, bindings, wire>>
  BY DEF R!Send, R!Begin, R!Prepare
<1>4. UNCHANGED <<state, stored, bindings, wire>> =>
         Forgets /\ (\A id \in R!Ids : stored'[id] \in {stored[id], None}) /\ (state' = None \/ state' = state)
  BY DEF Forgets
<1>5. Fails => Forgets /\ (\A id \in R!Ids : stored'[id] \in {stored[id], None}) /\ (state' = None \/ state' = state)
  <2>1. R!NoIds.public = None
    BY DEF R!NoIds
  <2> QED  BY <2>1 DEF Fails, Forgets, R!Fail, R!KeptIds, R!KeptState
<1>6. Goes => Forgets /\ (\A id \in R!Ids : stored'[id] \in {stored[id], None}) /\ (state' = None \/ state' = state)
  BY DEF Goes
<1> QED  BY <1>t, <1>1, <1>2, <1>3, <1>4, <1>5, <1>6, Steps

\* What upstream can continue from is what the turn's input begins with.
LEMMA ContinuedKept == ResponsesInv /\ R!Next => Continued'
<1> SUFFICES ASSUME ResponsesInv, R!Next PROVE Continued'
  OBVIOUS
<1>t. R!TypeOK /\ Undisturbed /\ Remembered /\ Continued
  BY DEF ResponsesInv
<1>a. turn # None => turn \in R!Turns
  BY <1>t DEF R!TypeOK
<1> USE DEF R!endpoint, R!upstream
<1>1. CASE \E prev \in 1..sent \cup {None}, generate, store \in BOOLEAN : R!Send(prev, generate, store)
  BY <1>1, <1>t DEF R!Send, Continued
<1>2. CASE R!Begin
  BY <1>2 DEF R!Begin, Continued
<1>3. CASE R!Prepare
  <2> DEFINE input == Append(IF turn.prev = None THEN <<>> ELSE R!PreviousItems(turn.prev), turn.n)
  <2>1. /\ turn # None /\ turn' = [turn EXCEPT !.stage = "route", !.input = input]
        /\ turn.prev # None => R!PreviousItems(turn.prev) # None
        /\ UNCHANGED <<bindings, wire, state, stored>>
    BY <1>3 DEF R!Prepare
  <2>2. turn'.input = input /\ turn'.prev = turn.prev /\ turn'.n = turn.n
    BY <1>a, <2>1 DEF R!Turns
  <2>3. ASSUME NEW d \in Native, bindings[d] # None, bindings[d].public # None, bindings[d].public = turn.prev, ~wire[d].garbled
        PROVE  input = Append(bindings[d].upstream, turn.n)
    <3>1. bindings[d].upstream = R!PreviousItems(turn.prev)
      <4>1. CASE state # None /\ state.id = turn.prev
        BY <1>t, <2>3, <4>1 DEF Remembered, R!PreviousItems
      <4>2. CASE ~(state # None /\ state.id = turn.prev)
        BY <1>t, <2>1, <2>3, <4>2 DEF Remembered, R!PreviousItems
      <4> QED  BY <4>1, <4>2
    <3> QED  BY <2>3, <3>1
  <2> HIDE DEF input
  <2> QED  BY <2>1, <2>2, <2>3 DEF Continued
<1>4. CASE R!Complete \/ Fails
  BY <1>4 DEF R!Complete, Fails, R!Fail, Continued
<1>5. CASE Goes
  <2>1. ASSUME turn' # None, turn'.stage # "prepare", NEW d \in Native, bindings'[d] # None, bindings'[d].public # None,
               bindings'[d].public = turn'.prev, ~wire'[d].garbled
        PROVE  turn'.input = Append(bindings'[d].upstream, turn'.n)
    <3>1. turn # None /\ turn.stage # "prepare" /\ turn'.input = turn.input /\ turn'.n = turn.n /\ turn'.prev = turn.prev
      BY <1>5, <2>1 DEF Goes, Carries, Same
    <3>2. bindings'[d] = bindings[d] /\ ~wire[d].garbled
      BY <1>5, <2>1 DEF Goes, Forgets
    <3> QED  BY <1>t, <2>1, <3>1, <3>2 DEF Continued
  <2> QED  BY <2>1 DEF Continued
<1> QED  BY <1>t, <1>1, <1>2, <1>3, <1>4, <1>5, Steps

\* A turn reads what it asked for.
LEMMA FaithfulKept == ResponsesInv /\ R!Next => Faithful'
<1> SUFFICES ASSUME ResponsesInv, R!Next, turn' # None, turn'.stage = "store"
             PROVE  \/ turn'.source = "socket" /\ wire'[turn'.dep].garbled
                    \/ turn'.got = turn'.input /\ (turn'.source = "socket" => turn'.id = turn'.input)
  BY DEF Faithful
<1>t. R!TypeOK /\ Undisturbed /\ Faithful
  BY DEF ResponsesInv
<1>a. /\ turn # None => turn \in R!Turns
      /\ wire \in [Native -> R!Wires] /\ \A d \in Native : wire[d] \in R!Wires
  BY <1>t DEF R!TypeOK
<1> USE DEF R!endpoint, R!upstream
<1>1. ASSUME turn # None, turn.stage = "store", turn'.input = turn.input, turn'.source = turn.source, turn'.dep = turn.dep,
             turn'.got = turn.got, turn'.id = turn.id, \A d \in Native : wire[d].garbled => wire'[d].garbled
      PROVE  \/ turn'.source = "socket" /\ wire'[turn'.dep].garbled
             \/ turn'.got = turn'.input /\ (turn'.source = "socket" => turn'.id = turn'.input)
  <2>1. turn.source = "socket" => turn.dep \in Native
    BY <1>t, <1>1 DEF Undisturbed
  <2> QED  BY <1>t, <1>1, <2>1 DEF Faithful
<1>2. CASE R!Terminal
  <2>1. turn # None /\ turn.stage = "read" /\ wire' = R!Detached
    BY <1>2 DEF R!Terminal, R!Reading
  <2>2. CASE turn.source # "socket"
    BY <1>t, <1>2, <2>2, TerminalTypes
  <2>3. CASE turn.source = "socket"
    <3>1. turn.dep \in Native /\ Busy(wire[turn.dep], turn.input)
      BY <1>t, <2>1, <2>3 DEF Undisturbed, ReadsOn
    <3>2. wire'[turn.dep].garbled = wire[turn.dep].garbled
      BY <1>t, <2>1, <3>1, DetachedGarbled
    <3>3. /\ turn'.source = "socket" /\ turn'.dep = turn.dep /\ turn'.input = turn.input
          /\ wire[turn.dep].reader.end = "completed"
          /\ turn'.got = wire[turn.dep].reader.got /\ turn'.id = wire[turn.dep].reader.id
      BY <1>t, <1>2, <2>3, TerminalTypes
    <3> QED  BY <3>1, <3>2, <3>3 DEF Busy
  <2> QED  BY <2>2, <2>3
<1>3. CASE UNCHANGED turn /\ \A d \in Native : wire[d].garbled => wire'[d].garbled
  BY <1>1, <1>3
<1>4. CASE R!AbortTurn /\ R!CloseUpstreams
  <2>1. turn # None /\ turn' = [turn EXCEPT !.aborted = TRUE]
    BY <1>4 DEF R!AbortTurn
  <2>2. turn'.stage = turn.stage /\ turn'.input = turn.input /\ turn'.source = turn.source /\ turn'.dep = turn.dep
        /\ turn'.got = turn.got /\ turn'.id = turn.id
    BY <1>a, <2>1, TurnTypes
  <2>3. \A d \in Native : wire'[d].garbled = wire[d].garbled
    BY <1>a, <1>t, <1>4, CloseTypes, WireTypes
  <2> QED  BY <1>1, <2>1, <2>2, <2>3
<1>5. R!Begin => turn'.stage = "prepare"
  BY DEF R!Begin
<1>6. ~R!Prepare
  <2>1. R!Prepare => turn # None /\ \E i : turn' = [turn EXCEPT !.stage = "route", !.input = i]
    BY DEF R!Prepare
  <2> QED  BY <1>a, <2>1 DEF R!Turns
<1>7. ~R!AttemptFails
  <2>1. R!AttemptFails => turn # None /\ turn' = [turn EXCEPT !.stage = "route"]
    BY DEF R!AttemptFails, R!FailAttempt, R!Reading, R!Fail
  <2> QED  BY <1>a, <2>1 DEF R!Turns
<1>8. ~R!RetryInFull
  <2>1. R!RetryInFull => turn # None /\ turn.stage = "read" /\ turn' = [turn EXCEPT !.continues = FALSE]
    BY DEF R!RetryInFull, R!Reading
  <2> QED  BY <1>a, <2>1 DEF R!Turns
<1>9. ~\E d \in Native : R!Reuse(d)
  <2>1. ASSUME NEW d \in Native, R!Reuse(d) PROVE FALSE
    <3>1. /\ turn \in R!Turns /\ turn.stage = "route"
          /\ \/ turn' = [turn EXCEPT !.tries = @ + 1]
             \/ \E c \in BOOLEAN : R!Reads(d, "socket", c)
      BY <1>a, <2>1 DEF R!Reuse, R!Routable, R!CanContinue
    <3> QED  BY <3>1 DEF R!Reads, R!Turns
  <2> QED  BY <2>1
<1>10. ~(\E d \in Native : R!Connect(d)) /\ ~(\E d \in Deployments : R!WithoutSocket(d))
  <2>1. ASSUME NEW d, NEW source, R!Reads(d, source, FALSE), turn # None PROVE FALSE
    <3>1. turn \in R!Turns /\ turn' = [turn EXCEPT !.stage = "read", !.tries = @ + 1, !.dep = d, !.source = source, !.continues = FALSE]
      BY <1>a, <2>1 DEF R!Reads
    <3> QED  BY <3>1 DEF R!Turns
  <2> QED  BY <2>1 DEF R!Connect, R!WithoutSocket, R!Routable
<1>11. ~(R!Complete \/ R!PrepareFails \/ R!NoRoute \/ R!StoreFails \/ \E told \in BOOLEAN : R!ConsumerFails(told))
  BY DEF R!Complete, R!PrepareFails, R!NoRoute, R!StoreFails, R!ConsumerFails, R!Fail
<1>12. ASSUME NEW d \in Native, R!Created(d) \/ R!Garbles(d) \/ R!UpstreamCloses(d)
                               \/ \E end \in {"completed", "not_found", "failed"} : R!Finishes(d, end)
       PROVE  UNCHANGED turn /\ \A e \in Native : wire[e].garbled => wire'[e].garbled
  <2>1. CASE R!Created(d)
    <3>1. \A e \in Native : wire'[e].garbled = wire[e].garbled
      BY <1>t, <2>1, CreatedTypes
    <3> QED  BY <2>1, <3>1 DEF R!Created
  <2>2. CASE R!Garbles(d)
    <3>1. \A e \in Native : wire[e].garbled => wire'[e].garbled
      BY <1>t, <2>2, GarbleTypes
    <3> QED  BY <2>2, <3>1 DEF R!Garbles
  <2>3. CASE R!UpstreamCloses(d)
    <3>1. \A e \in Native : wire'[e] \in {wire[e], R!Closed(wire[e])}
      BY <1>a, <2>3 DEF R!UpstreamCloses
    <3>2. \A e \in Native : wire'[e].garbled = wire[e].garbled
      BY <1>a, <3>1, WireTypes
    <3> QED  BY <2>3, <3>2 DEF R!UpstreamCloses
  <2>4. ASSUME NEW end \in {"completed", "not_found", "failed"}, R!Finishes(d, end)
        PROVE  UNCHANGED turn /\ \A e \in Native : wire[e].garbled => wire'[e].garbled
    <3>1. \A e \in Native : wire'[e].garbled = wire[e].garbled
      BY <1>t, <2>4, FinishTypes
    <3> QED  BY <2>4, <3>1 DEF R!Finishes
  <2> QED  BY <1>12, <2>1, <2>2, <2>3, <2>4
<1>13. (\E prev \in 1..sent \cup {None}, generate, store \in BOOLEAN : R!Send(prev, generate, store))
       \/ R!TimeIsUp \/ (\E id \in R!Ids : R!Deleted(id)) => UNCHANGED <<turn, wire>>
  BY DEF R!Send, R!TimeIsUp, R!Deleted
<1> QED
  BY <1>2, <1>3, <1>4, <1>5, <1>6, <1>7, <1>8, <1>9, <1>10, <1>11, <1>12, <1>13
     DEF R!Next, R!Turn, R!Provider, R!Restart, R!ClientCloses

\* The last word on a turn is the last so far, and the session continues from it.
LEMMA LastWord ==
    ASSUME ResponsesInv, turn # None, NEW kd \in {"completed", "error", "silent"},
           R!Answer(turn.n, turn.prev, kd), client' = client,
           \/ kd = "completed" /\ state' # None /\ state'.id = turn.n
           \/ kd # "completed" /\ state' = R!KeptState(turn.prev)
    PROVE  R!AnswersInOrder'
<1>t. R!TypeOK /\ Numbered /\ R!AnswersInOrder
  BY DEF ResponsesInv
<1> DEFINE total == Len(answers)
           a == [n |-> turn.n, prev |-> turn.prev, kind |-> kd]
<1>a. answers \in Seq(R!Answers) /\ total \in Nat /\ \A i \in 1..total : answers[i].n \in R!Ids
  <2>1. answers \in Seq(R!Answers)
    BY <1>t DEF R!TypeOK
  <2>2. \A i \in 1..total : answers[i] \in R!Answers
    BY <2>1
  <2> QED  BY <2>1, <2>2 DEF R!Answers
<1>b. /\ DOMAIN answers = 1..total
      /\ \A i, j \in 1..total : answers[i].kind # "refused" /\ answers[j].kind # "refused" /\ i < j => answers[i].n < answers[j].n
      /\ client = "open" => \A i \in 1..total : answers[i].kind = "completed" =>
            \/ \E j \in 1..total : answers[j].kind # "refused" /\ i < j
                               /\ (answers[j].kind = "completed" \/ answers[j].prev = answers[i].n)
            \/ state # None /\ state.id = answers[i].n
  <2>1. DOMAIN answers = 1..total
    BY <1>a
  <2> HIDE DEF total
  <2> QED  BY <1>t, <2>1 DEF R!AnswersInOrder
<1>1. \A i \in 1..total : answers[i].kind # "refused" => answers[i].n < turn.n
  <2>1. ASSUME NEW i \in 1..total, answers[i].kind # "refused" PROVE answers[i].n < turn.n
    <3>1. answers[i].n \in R!Ids /\ Marked(answers[i].n)
      BY <1>a, <2>1 DEF Marked
    <3> QED  BY <1>t, <3>1 DEF Numbered, Told
  <2> QED  BY <2>1
<1>2. CASE client # "open"
  <2>1. answers' = answers
    BY <1>2 DEF R!Answer
  <2> QED  BY <1>2, <1>t, <2>1 DEF R!AnswersInOrder
<1>3. CASE client = "open"
  <2>1. answers' = Append(answers, a)
    BY <1>3 DEF R!Answer
  <2>2. a.n = turn.n /\ a.prev = turn.prev /\ a.kind = kd /\ a.kind # "refused"
    OBVIOUS
  <2>3. /\ DOMAIN answers' = 1..(total + 1) /\ answers'[total + 1] = a
        /\ \A i \in 1..total : answers'[i] = answers[i]
    <3> HIDE DEF a
    <3> QED  BY <1>a, <2>1
  <2> HIDE DEF a, total
  <2>4. \A i \in 1..(total + 1) : i = total + 1 \/ i \in 1..total
    BY <1>a
  <2>5. \A i, j \in 1..(total + 1) : answers'[i].kind # "refused" /\ answers'[j].kind # "refused" /\ i < j => answers'[i].n < answers'[j].n
    <3>1. \A i, j \in 1..(total + 1) : i < j => i \in 1..total
      BY <1>a
    <3> QED  BY <1>b, <1>1, <2>2, <2>3, <2>4, <3>1
  <2>6. ASSUME NEW i \in 1..(total + 1), answers'[i].kind = "completed"
        PROVE  \/ \E j \in 1..(total + 1) : answers'[j].kind # "refused" /\ i < j
                                        /\ (answers'[j].kind = "completed" \/ answers'[j].prev = answers'[i].n)
               \/ state' # None /\ state'.id = answers'[i].n
    <3>1. CASE i = total + 1
      BY <2>2, <2>3, <2>6, <3>1
    <3>2. CASE i \in 1..total
      <4>1. total + 1 \in 1..(total + 1) /\ i < total + 1
        BY <1>a, <3>2
      <4>2. CASE kd = "completed"
        BY <2>2, <2>3, <4>1, <4>2
      <4>3. CASE kd # "completed" /\ answers[i].n = turn.prev
        BY <2>2, <2>3, <3>2, <4>1, <4>3
      <4>4. CASE kd # "completed" /\ answers[i].n # turn.prev
        <5>1. CASE state # None /\ state.id = answers[i].n
          <6>1. state' = state
            BY <4>4, <5>1 DEF R!KeptState
          <6> QED  BY <2>3, <3>2, <5>1, <6>1
        <5>2. ASSUME NEW j \in 1..total, answers[j].kind # "refused", i < j,
                     answers[j].kind = "completed" \/ answers[j].prev = answers[i].n
              PROVE  \E k \in 1..(total + 1) : answers'[k].kind # "refused" /\ i < k
                                        /\ (answers'[k].kind = "completed" \/ answers'[k].prev = answers'[i].n)
          <6>1. j \in 1..(total + 1)
            BY <1>a
          <6> QED  BY <2>3, <3>2, <5>2, <6>1
        <5>3. answers[i].kind = "completed"
          BY <2>3, <2>6, <3>2
        <5> QED  BY <1>3, <1>b, <3>2, <5>1, <5>2, <5>3
      <4> QED  BY <4>2, <4>3, <4>4
    <3> QED  BY <2>4, <3>1, <3>2
  <2> QED  BY <2>3, <2>5, <2>6 DEF R!AnswersInOrder
<1> QED  BY <1>2, <1>3

\* Each step leaves the answers in the order of the messages.
LEMMA AnswersKept == ResponsesInv /\ R!Next => R!AnswersInOrder'
<1> SUFFICES ASSUME ResponsesInv, R!Next PROVE R!AnswersInOrder'
  OBVIOUS
<1>t. R!TypeOK /\ Undisturbed /\ R!AnswersInOrder
  BY DEF ResponsesInv
<1> USE DEF R!endpoint, R!upstream
<1>1. CASE UNCHANGED <<answers, state>> /\ (client' = "open" => client = "open")
  BY <1>1, <1>t DEF R!AnswersInOrder
<1>2. ASSUME NEW n, NEW prev, answers' = Append(answers, [n |-> n, prev |-> prev, kind |-> "refused"]),
             state' = state, client' = client
      PROVE  R!AnswersInOrder'
  <2> DEFINE total == Len(answers)
             a == [n |-> n, prev |-> prev, kind |-> "refused"]
  <2>1. answers \in Seq(R!Answers)
    BY <1>t DEF R!TypeOK
  <2>2. a.kind = "refused"
    OBVIOUS
  <2> HIDE DEF a
  <2>3. total \in Nat /\ DOMAIN answers = 1..total /\ DOMAIN answers' = 1..(total + 1) /\ answers'[total + 1] = a
        /\ \A i \in 1..total : answers'[i] = answers[i]
    BY <1>2, <2>1 DEF a
  <2> HIDE DEF total
  <2>4. {i \in DOMAIN answers' : answers'[i].kind # "refused"} = {i \in DOMAIN answers : answers[i].kind # "refused"}
    <3>1. \A i \in 1..(total + 1) : i = total + 1 \/ i \in 1..total
      BY <2>3
    <3>2. 1..total \subseteq 1..(total + 1)
      BY <2>3
    <3> QED  BY <2>2, <2>3, <3>1, <3>2
  <2>5. \A i \in {i \in DOMAIN answers : answers[i].kind # "refused"} : answers'[i] = answers[i]
    BY <2>3
  <2> DEFINE accepted == {i \in DOMAIN answers : answers[i].kind # "refused"}
             done == {i \in accepted : answers[i].kind = "completed"}
  <2>6. {i \in accepted : answers'[i].kind = "completed"} = done
    BY <2>5
  <2>7. \A i, j \in accepted : i < j => answers[i].n < answers[j].n
    BY <1>t DEF R!AnswersInOrder
  <2>8. client = "open" => \A i \in done :
               \/ \E j \in accepted : i < j /\ (j \in done \/ answers[j].prev = answers[i].n)
               \/ state # None /\ state.id = answers[i].n
    BY <1>t DEF R!AnswersInOrder
  <2>9. done \subseteq accepted
    OBVIOUS
  <2> HIDE DEF accepted, done
  <2>10. \A i, j \in accepted : i < j => answers'[i].n < answers'[j].n
    BY <2>5, <2>7 DEF accepted
  <2>11. client' = "open" => \A i \in done :
               \/ \E j \in accepted : i < j /\ (j \in done \/ answers'[j].prev = answers'[i].n)
               \/ state' # None /\ state'.id = answers'[i].n
    <3>1. \A i \in accepted : answers'[i] = answers[i]
      BY <2>5 DEF accepted
    <3> QED  BY <1>2, <2>8, <2>9, <3>1
  <2>12. {i \in DOMAIN answers' : answers'[i].kind # "refused"} = accepted
    BY <2>4 DEF accepted
  <2> QED  BY <2>6, <2>10, <2>11, <2>12 DEF R!AnswersInOrder
<1>3. ASSUME NEW prev \in 1..sent \cup {None}, NEW generate \in BOOLEAN, NEW store \in BOOLEAN, R!Send(prev, generate, store)
      PROVE  R!AnswersInOrder'
  <2>1. state' = state /\ client' = client /\ (answers' = answers \/ answers' = Append(answers, [n |-> sent', prev |-> prev, kind |-> "refused"]))
    BY <1>3 DEF R!Send, R!Answer
  <2> QED  BY <1>1, <1>2, <2>1
<1>4. CASE R!Begin \/ R!Prepare
  BY <1>1, <1>4 DEF R!Begin, R!Prepare
<1>5. CASE R!Complete
  <2>1. turn # None /\ client' = client /\ state' = [id |-> turn.n, items |-> turn.input] /\ R!Answer(turn.n, turn.prev, "completed")
    BY <1>5 DEF R!Complete
  <2>2. state' # None /\ state'.id = turn.n
    <3>1. turn \in R!Turns
      BY <1>t, <2>1 DEF R!TypeOK
    <3>2. [id |-> turn.n, items |-> turn.input] \in R!States
      BY <3>1 DEF R!Turns, R!States
    <3> QED  BY <2>1, <3>2, ResponsesNames
  <2> QED  BY <2>1, <2>2, LastWord
<1>6. CASE Fails
  <2>1. PICK told \in BOOLEAN : R!Fail(told)
    BY <1>6 DEF Fails
  <2> DEFINE kd == IF told THEN "error" ELSE "silent"
  <2>2. turn # None /\ client' = client /\ state' = R!KeptState(turn.prev) /\ R!Answer(turn.n, turn.prev, kd)
    BY <1>6, <2>1 DEF Fails, R!Fail
  <2>3. kd \in {"completed", "error", "silent"} /\ kd # "completed"
    OBVIOUS
  <2> HIDE DEF kd
  <2> QED  BY <2>2, <2>3, LastWord
<1>7. CASE Goes
  BY <1>1, <1>7 DEF Goes
<1> QED  BY <1>t, <1>3, <1>4, <1>5, <1>6, <1>7, Steps

LEMMA ResponsesStarts == R!Init => ResponsesInv
<1> SUFFICES ASSUME R!Init PROVE ResponsesInv
  OBVIOUS
<1>1. /\ client = "open" /\ sent = 0 /\ queue = <<>> /\ turn = None /\ state = None
      /\ bindings = [d \in Native |-> None] /\ wire = [d \in Native |-> R!Shut]
      /\ stored = [id \in R!Ids |-> None]
      /\ answers = <<>> /\ faults = 0
  BY DEF R!Init
<1>2. R!Shut \in R!Wires /\ R!Shut.running = <<>> /\ R!Shut.reader = None
  BY DEF R!Shut, R!Wires
<1>3. R!TypeOK
  BY <1>1, <1>2, ResponsesNames DEF R!TypeOK, R!QueuedTurns
<1>4. Numbered
  BY <1>1 DEF Numbered, Marked, Told
<1>5. Remembered /\ Continued /\ Faithful
  BY <1>1 DEF Remembered, Continued, Faithful
<1>6. Undisturbed
  BY <1>1, <1>2 DEF Undisturbed, ReadsOn, Idle
<1>7. R!AnswersInOrder
  BY <1>1 DEF R!AnswersInOrder
<1> QED  BY <1>3, <1>4, <1>5, <1>6, <1>7 DEF ResponsesInv

LEMMA ResponsesKept == ResponsesInv /\ R!Next => ResponsesInv'
<1> SUFFICES ASSUME ResponsesInv, R!Next PROVE ResponsesInv'
  OBVIOUS
<1>1. R!TypeOK' /\ Undisturbed'
  BY ResponsesTypes, UndisturbedKept DEF ResponsesInv
<1>2. Numbered' /\ Remembered' /\ Continued' /\ Faithful' /\ R!AnswersInOrder'
  BY NumberedKept, RememberedKept, ContinuedKept, FaithfulKept, AnswersKept
<1> QED  BY <1>1, <1>2 DEF ResponsesInv

-----------------------------------------------------------------------------
(* The two kinds of socket side by side.                                   *)

LEMMA Starts == Init => LiveInv /\ ResponsesInv
BY LiveStarts, ResponsesStarts DEF Init

LEMMA Undone == (LiveInv /\ UNCHANGED live => LiveInv') /\ (ResponsesInv /\ UNCHANGED responses => ResponsesInv')
<1>1. LiveInv /\ UNCHANGED live => LiveInv'
  BY DEF live, LiveInv, L!TypeOK, Waiting, Agreed, Over, Balanced, Flying, L!AudioCharged
<1>2. ResponsesInv /\ UNCHANGED responses => ResponsesInv'
  BY DEF responses, ResponsesInv, R!TypeOK, R!QueuedTurns, Numbered, Told, Marked, Remembered, Continued, Undisturbed,
         ReadsOn, Faithful, R!AnswersInOrder
<1> QED  BY <1>1, <1>2

LEMMA SocketsKept == LiveInv /\ ResponsesInv /\ [Next]_vars => (LiveInv /\ ResponsesInv)'
<1>1. ASSUME LiveInv, ResponsesInv, Next PROVE LiveInv' /\ ResponsesInv'
  BY <1>1, LiveKept, ResponsesKept, Undone DEF Next
<1>2. ASSUME LiveInv, ResponsesInv, UNCHANGED vars PROVE LiveInv' /\ ResponsesInv'
  BY <1>2, Undone DEF vars
<1> QED  BY <1>1, <1>2

LEMMA SocketsHold == Spec => [](LiveInv /\ ResponsesInv)
BY Starts, SocketsKept, PTL DEF Spec

\* Whatever clients, providers and storage do, client, turn, sockets, memories,
\* live session and its accounts have the values they should have, and no more
\* turns or events are queued than the limits allow.
THEOREM TypeCorrect == Spec => []TypeOK
<1>1. LiveInv /\ ResponsesInv => TypeOK
  BY DEF LiveInv, ResponsesInv, TypeOK
<1> QED  BY <1>1, SocketsHold, PTL

\* On a Responses WebSocket a turn stores what upstream made of the whole
\* conversation its client referred to, unless a message was garbled on the socket it
\* read; turns are answered in the order they came; and the last response told
\* complete can be continued until a turn that names it has failed.
THEOREM ConversationsContinue == Spec => []HistoryKept
<1>1. LiveInv /\ ResponsesInv => HistoryKept
  BY DEF LiveInv, ResponsesInv, Faithful, HistoryKept, TypeOK, R!HistoryKept
<1> QED  BY <1>1, SocketsHold, PTL

\* A live session that is finished has been charged, format by format, for the
\* audio that upstream received, the piece being flushed left out, if its client
\* waits for each answer and no update was rejected or socket left unclosed.
THEOREM AudioIsPaidFor == Spec => []AudioCharged
<1>1. LiveInv /\ ResponsesInv => AudioCharged
  BY DEF LiveInv, AudioCharged
<1> QED  BY <1>1, SocketsHold, PTL
=============================================================================
