------------------------------- MODULE WebChat -------------------------------
(***************************************************************************)
(* The chat of the web interface (useWebSocket) against the web channel:   *)
(* sockets that open, drop, are refused and are replaced when the user     *)
(* turns to another conversation, frames of turns that go on meanwhile,    *)
(* the entries made of them, and the token the agent remembers for each    *)
(* conversation (updateConversationContext; Grants has what it expires     *)
(* by).  The privilege grant is passed on just as the token is.            *)
(*                                                                         *)
(* A socket keeps the effect it was made by: `active` of its handlers is   *)
(* true while that effect is the last.  A turn's text is the sequence of   *)
(* its chunks, each known by its turn and source; turns of one conversation *)
(* may overlap.  The order in which the entries are shown is left out.     *)
(***************************************************************************)
EXTENDS Integers, SequencesExt

CONSTANTS
  Rooms,        \* the conversations
  PersonalTokens,
  ReceiveAll,   \* receiveAgentProcessing of the channel
  MaxSockets,   \* bound: sockets that are made
  MaxFrames     \* bound: frames of turns, and changes of the token

\* What stands for no room, no token and a frame without one is none of them.
ASSUME ChatAssumption == "none" \notin Rooms /\ PersonalTokens \cap {"none", "keep", "clear"} = {}

VARIABLES
  room,     \* conversationId
  token,    \* personalToken of the page, or "none"
  synced,   \* lastSyncedPersonalTokenRef
  sockets,  \* each: its effect, room, state, the conversation the channel
            \* tagged it with, and (history) whether its effect ended before it opened
  ws,       \* wsRef, or 0
  retrying, \* reconnectTimerRef
  entries,  \* the set of the streamed entries: id, room, parts and isStreaming
  streaming,\* streamingRef: of each room an entry's id, or 0
  remembers,\* the channel's side: the token of each conversation's context
  turns,    \* and the turns each conversation is in, by number
  frames,   \* how many frames there have been
  missed,   \* history: conversations the token was cleared of while no frame could say so
  crossed   \* history: entries that were streaming when their effect ended

uiVars == <<room, token, synced, sockets, ws, retrying, entries, streaming>>
chatVars == <<uiVars, remembers, turns, frames, missed, crossed>>

Sources == {"main", "sub-agent"}
Effect == sockets[Len(sockets)].effect
IsOpen(s) == s # 0 /\ sockets[s].state = "open"
Socket(effect, r) == [effect |-> effect, room |-> r, state |-> "connecting", tag |-> "none", late |-> FALSE]
Framed == frames < MaxFrames /\ frames' = frames + 1

\* What a frame with a token, with null ("clear") or without one leaves remembered.
Remembered(r, frame) ==
  [remembers EXCEPT ![r] = IF frame = "keep" THEN @ ELSE IF frame = "clear" THEN "none" ELSE frame]

-----------------------------------------------------------------------------
(* The socket                                                              *)

\* connect.
Connect(effect, r) ==
  /\ Len(sockets) < MaxSockets
  /\ sockets' = Append(sockets, Socket(effect, r))
  /\ ws' = Len(sockets) + 1

\* onopen.  A socket whose effect has ended is no longer in wsRef: the first check
\* returns, and the close meant for it is never reached.
Opened(s) ==
  /\ sockets[s].state = "connecting"
  /\ sockets' = [sockets EXCEPT ![s].state = "open"]
  /\ IF ws # s THEN UNCHANGED <<remembers, synced>>
       ELSE /\ remembers' = Remembered(sockets[s].room, IF token # "none" THEN token ELSE "keep")
            /\ synced' = token
  /\ UNCHANGED <<room, token, ws, retrying, entries, streaming, turns, frames, missed, crossed>>

\* Variant for mutation: what was streaming is only forgotten.
StopForgotten == streaming' = [r \in Rooms |-> 0] /\ UNCHANGED entries

\* Nothing is streaming any more.
StopStreams ==
  /\ entries' = {[e EXCEPT !.streaming = FALSE] : e \in entries}
  /\ streaming' = [r \in Rooms |-> 0]

\* Variant for mutation: no timer is set.
ClosedQuietly(s) ==
  /\ sockets[s].state # "closed"
  /\ Len(sockets) < MaxSockets
  /\ sockets' = [sockets EXCEPT ![s].state = "closed"]
  /\ IF ws # s THEN UNCHANGED <<ws, retrying, entries, streaming>>
       ELSE /\ ws' = 0 /\ UNCHANGED retrying
            /\ StopStreams
  /\ UNCHANGED <<room, token, synced, remembers, turns, frames, missed, crossed>>

\* onerror and onclose: the connection is lost, or was refused.
Closed(s) ==
  /\ sockets[s].state # "closed"
  /\ Len(sockets) < MaxSockets
  /\ sockets' = [sockets EXCEPT ![s].state = "closed"]
  /\ IF ws # s THEN UNCHANGED <<ws, retrying, entries, streaming>>
       ELSE /\ ws' = 0 /\ retrying' = TRUE
            /\ StopStreams
  /\ UNCHANGED <<room, token, synced, remembers, turns, frames, missed, crossed>>

Reconnect ==
  /\ retrying
  /\ retrying' = FALSE
  /\ Connect(Effect, room)
  /\ UNCHANGED <<room, token, synced, entries, streaming, remembers, turns, frames, missed, crossed>>

\* Variant for mutation: the old socket is let go, not closed.
TurnToOnly(r) ==
  /\ Len(sockets) < MaxSockets
  /\ room' = r
  /\ retrying' = FALSE
  /\ Connect(Effect + 1, r)
  /\ crossed' = crossed \cup {streaming[q] : q \in Rooms}
  /\ UNCHANGED <<token, synced, entries, streaming, remembers, turns, frames, missed>>

\* The effect ends and begins again, for another conversation or another session.
\* What is streaming stays so.
TurnTo(r) ==
  /\ Len(sockets) < MaxSockets
  /\ room' = r
  /\ retrying' = FALSE
  /\ sockets' = Append([s \in DOMAIN sockets |->
                          IF s # ws THEN sockets[s]
                          ELSE IF IsOpen(s) THEN [sockets[s] EXCEPT !.state = "closed"]
                          ELSE [sockets[s] EXCEPT !.late = TRUE]],
                       Socket(Effect + 1, r))
  /\ ws' = Len(sockets) + 1
  /\ crossed' = crossed \cup {streaming[q] : q \in Rooms}
  /\ UNCHANGED <<token, synced, entries, streaming, remembers, turns, frames, missed>>

\* Variant for mutation: a token that is cleared is no news.
TokenOnlySet(t) ==
  /\ t # token /\ Framed
  /\ token' = t
  /\ IF IsOpen(ws)
       THEN /\ remembers' = Remembered(room, IF t # "none" THEN t ELSE "keep")
            /\ synced' = t
       ELSE UNCHANGED <<remembers, synced>>
  /\ missed' = IF t # "none" THEN missed ELSE IF IsOpen(ws) THEN Rooms \ {room} ELSE Rooms
  /\ UNCHANGED <<room, sockets, ws, retrying, entries, streaming, turns, crossed>>

\* The page's token changes: on an open socket a context frame says so.
TokenChanges(t) ==
  /\ t # token /\ Framed
  /\ token' = t
  /\ IF IsOpen(ws)
       THEN /\ remembers' = Remembered(room, IF t # "none" THEN t
                                             ELSE IF synced # "none" THEN "clear" ELSE "keep")
            /\ synced' = t
       ELSE UNCHANGED <<remembers, synced>>
  /\ missed' = IF t # "none" THEN missed \ (IF IsOpen(ws) THEN {room} ELSE {})
               ELSE IF IsOpen(ws) THEN Rooms \ {room} ELSE Rooms
  /\ UNCHANGED <<room, sockets, ws, retrying, entries, streaming, turns, crossed>>

-----------------------------------------------------------------------------
(* Turns                                                                   *)

\* A message begins a turn, whatever turns of its conversation go on.
Begins(r) == turns' = [turns EXCEPT ![r] = @ \cup {frames + 1}]

\* sendMessage, which the page allows while it shows nothing as being written: the
\* channel tags the socket.
SendMessage ==
  /\ IsOpen(ws) /\ Framed
  /\ \A e \in entries : e.room = room => ~e.streaming
  /\ sockets' = [sockets EXCEPT ![ws].tag = room]
  /\ remembers' = Remembered(room, IF token # "none" THEN token ELSE "keep")
  /\ Begins(room)
  /\ UNCHANGED <<room, token, synced, ws, retrying, entries, streaming, missed, crossed>>

\* A message from elsewhere: a page without a token, or another channel.
OthersSend(r) == Framed /\ Begins(r) /\ UNCHANGED <<uiVars, remembers, missed, crossed>>

\* broadcast: whether the page's own socket gets the frames of a conversation.
Receives(r) == IsOpen(ws) /\ (ReceiveAll \/ sockets[ws].tag = r)

\* The entries when one has stopped, or has got a part more.
Stopped(id) == {IF e.id = id THEN [e EXCEPT !.streaming = FALSE] ELSE e : e \in entries}
Longer(id, part, writing) ==
  {IF e.id = id THEN [e EXCEPT !.parts = Append(@, part), !.streaming = @ /\ writing] ELSE e : e \in entries}
Added(r, part, writing) ==
  Stopped(streaming[r]) \cup {[id |-> frames + 1, room |-> r, parts |-> <<part>>, streaming |-> writing]}

\* Variant for mutation: the source is not looked at.
ContinuesAny(r, part) == streaming[r] # 0

\* A chunk goes on with the entry of its conversation if its source is the same.
Continues(r, part) ==
  streaming[r] # 0 /\ \E e \in entries : e.id = streaming[r] /\ Last(e.parts).source = part.source

\* A chunk arrives at the page, and, unless more is being written, done with it.
Shows(r, part, writing) ==
  IF ~Receives(r) THEN UNCHANGED <<entries, streaming>>
    ELSE /\ entries' = IF Continues(r, part) THEN Longer(streaming[r], part, writing) ELSE Added(r, part, writing)
         /\ streaming' = [streaming EXCEPT ![r] = IF ~writing THEN 0 ELSE IF Continues(r, part) THEN @ ELSE frames + 1]

Chunk(r, t, source) ==
  /\ t \in turns[r] /\ Framed
  /\ Shows(r, [turn |-> t, source |-> source], TRUE)
  /\ UNCHANGED <<room, token, synced, sockets, ws, retrying, remembers, turns, missed, crossed>>

\* A message sent whole (the answer to a command, one mirrored from another
\* channel), of no turn (0).
Notice(r) ==
  /\ Framed
  /\ Shows(r, [turn |-> 0, source |-> "main"], FALSE)
  /\ UNCHANGED <<room, token, synced, sockets, ws, retrying, remembers, turns, missed, crossed>>

\* The turn has ended: done, which closes the entry being written, of whatever
\* turn it is; or an error, which takes it away.
TurnEnds(r, t, failed) ==
  LET old == streaming[r] IN
  /\ t \in turns[r]
  /\ turns' = [turns EXCEPT ![r] = @ \ {t}]
  /\ IF ~Receives(r) \/ old = 0 THEN UNCHANGED <<entries, streaming>>
       ELSE /\ entries' = IF failed THEN {e \in entries : e.id # old} ELSE Stopped(old)
            /\ streaming' = [streaming EXCEPT ![r] = 0]
  /\ UNCHANGED <<room, token, synced, sockets, ws, retrying, remembers, frames, missed, crossed>>

ChatInit ==
  /\ room \in Rooms
  /\ token = "none" /\ synced = "none"
  /\ sockets = <<Socket(1, room)>> /\ ws = 1 /\ retrying = FALSE
  /\ entries = {} /\ streaming = [r \in Rooms |-> 0]
  /\ remembers = [r \in Rooms |-> "none"] /\ turns = [r \in Rooms |-> {}]
  /\ frames = 0 /\ missed = {} /\ crossed = {}

ChatNext ==
  \/ \E s \in DOMAIN sockets : Opened(s) \/ Closed(s)
  \/ Reconnect
  \/ \E r \in Rooms : TurnTo(r)
  \/ \E t \in PersonalTokens \cup {"none"} : TokenChanges(t)
  \/ SendMessage
  \/ \E r \in Rooms : OthersSend(r) \/ Notice(r)
  \/ \E r \in Rooms : \E t \in turns[r] :
       (\E source \in Sources : Chunk(r, t, source)) \/ (\E f \in BOOLEAN : TurnEnds(r, t, f))

ChatSpec == ChatInit /\ [][ChatNext]_chatVars

\* The timer fires, and a socket that is made opens or fails.
ChatFair ==
  /\ WF_chatVars(Reconnect)
  /\ WF_chatVars(\E s \in DOMAIN sockets : s = ws /\ Opened(s))

-----------------------------------------------------------------------------
(* Properties                                                              *)

\* What is shown as being written is what the next chunk of its conversation goes
\* to: no entry is left so by a new source, an error, the end of a turn or a lost
\* connection.
StreamsAreTracked ==
  /\ \A e \in entries : e.streaming <=> streaming[e.room] = e.id
  /\ \A r \in Rooms : streaming[r] # 0 => \E e \in entries : e.id = streaming[r]

\* An entry is the text of one source; and while it is being written, all of it is
\* of turns that still go on, so of one turn if they do not overlap, whatever was
\* lost between, unless the page turned away meanwhile: an entry left open by a
\* turn that is over would be gone on with by the next.
EntriesAreNotMixed ==
  \A e \in entries :
    /\ \A i, j \in DOMAIN e.parts : e.parts[i].source = e.parts[j].source
    /\ e.streaming /\ e.id \notin crossed =>
         \A i \in DOMAIN e.parts : e.parts[i].turn \in turns[e.room]

\* While the page is connected, what the agent remembers for its conversation is
\* the page's token, unless the token was cleared when no frame could tell.
ContextFollowsPage ==
  IsOpen(ws) => remembers[room] = token \/ (token = "none" /\ room \in missed)

\* A socket is left open and unheard only by an effect that ended before it opened.
SocketsAreClosed ==
  \A s \in DOMAIN sockets : sockets[s].state = "open" => s = ws \/ sockets[s].late

\* However often the connection is lost or refused, or the page turns away, the
\* page connects again.
ChatReconnects == ws = 0 \/ Len(sockets) > 1 ~> IsOpen(ws)

\* The page against the channel, whatever is lost between them.
ChatCorrect == StreamsAreTracked /\ EntriesAreNotMixed /\ ContextFollowsPage /\ SocketsAreClosed
ChatPromise == [][ChatCorrect']_chatVars /\ ChatReconnects
=============================================================================
