---------------------------- MODULE UnixSocketRpc ----------------------------
(***************************************************************************)
(* One UnixSocketRpcClient (packages/core) and the UnixSocketToolServer    *)
(* (packages/tool-server) it calls, over the connections the client opens  *)
(* one after the other: newline-delimited JSON, calls told apart by id.    *)
(*                                                                         *)
(* A line is a call's id here.  A stream delivers lines in order, but the  *)
(* reader may see a line in two parts, and a connection that breaks keeps  *)
(* of what was sent any prefix.  Server and client are each one Node       *)
(* process: an action is one event callback, run to its next await.        *)
(***************************************************************************)
EXTENDS Naturals, Sequences

CONSTANTS
  Calls,    \* calls the client makes, each with a fresh uuid
  MaxConn,  \* connections it may open (a bound)
  Faults    \* a subset of {"split", "die", "disconnect"}

ASSUME RpcAssumption ==
  /\ MaxConn \in Nat \ {0}
  /\ Faults \subseteq {"split", "die", "disconnect"}

VARIABLES
  serverUp,  \* the tool server listens
  link,      \* each connection, as the client's socket object sees it
  socket,    \* this.socket: the current connection, 0 for null
  call,      \* the promise of each call
  on,        \* the connection a call waits for or was written to
  pending,   \* the keys of this.pending
  toServer,  \* lines written to each connection, not yet read by the server
  work,      \* the data callbacks of the server: lines left, the first handled
  toClient,  \* response lines written to each connection, not yet received
  part,      \* the connections whose first response line was received in part
  buffer,    \* this.readBuffer: empty (0), the part of a line of that
             \* connection, or parts of lines of several (Mixed)
  runs,      \* history: how many times the handler of a call was started
  lost,      \* history: the calls whose response line did not parse
  cut        \* history: the connections that disconnect destroyed

wires == <<toServer, work, toClient, part>>
vars == <<serverUp, link, socket, call, on, pending, wires, buffer, runs, lost, cut>>

Conns == 1..MaxConn
Alive == {"connecting", "open"}

Mixed == MaxConn + 1

\* A promise settles once: who no longer waits is not told.
Settle(S, outcome) ==
  [c \in Calls |-> IF c \in S /\ call[c] = "waiting" THEN outcome ELSE call[c]]

-----------------------------------------------------------------------------
(* The client                                                              *)

\* Variant for mutation: a line is written once more than it should be.
WriteTwice(c, n) == toServer' = IF link[n] \in Alive
                                  THEN [toServer EXCEPT ![n] = @ \o <<c, c>>] ELSE toServer

\* socket.write: a line written to a socket that is dead is lost.
Write(c, n) == toServer' = IF link[n] \in Alive
                             THEN [toServer EXCEPT ![n] = Append(@, c)] ELSE toServer

\* Variant for mutation: a socket already known to be dead counts as none.
NoSocketAlive == IF socket = 0 THEN TRUE ELSE link[socket] \notin Alive

NoSocket == socket = 0

\* call with this.socket set, be it connected yet or dead already.
CallOnSocket(c) ==
  /\ call[c] = "idle"
  /\ ~NoSocket
  /\ call' = [call EXCEPT ![c] = "waiting"]
  /\ on' = [on EXCEPT ![c] = socket]
  /\ pending' = pending \cup {c}
  /\ Write(c, socket)
  /\ UNCHANGED <<serverUp, link, socket, work, toClient, part, buffer, runs, lost, cut>>

\* call with this.socket null: connect creates the socket and is awaited.
CallConnects(c, n) ==
  /\ call[c] = "idle"
  /\ NoSocket
  /\ link[n] = "none" /\ (n > 1 => link[n - 1] # "none")
  /\ link' = [link EXCEPT ![n] = "connecting"]
  /\ socket' = n
  /\ call' = [call EXCEPT ![c] = "connecting"]
  /\ on' = [on EXCEPT ![c] = n]
  /\ UNCHANGED <<serverUp, pending, wires, buffer, runs, lost, cut>>

\* The connection is made and the call that awaited it goes on, with whatever
\* this.socket is by now: the close of an older socket may have nulled it, then
\* the write throws, its id stays in pending and nobody holds the connection; or
\* another call has begun a third connection since, and it writes to that one.
Connected(c, n) ==
  /\ link[n] = "connecting"
  /\ call[c] = "connecting" /\ on[c] = n
  /\ serverUp
  /\ link' = [link EXCEPT ![n] = "open"]
  /\ pending' = pending \cup {c}
  /\ IF socket = 0
       THEN call' = [call EXCEPT ![c] = "failed"] /\ UNCHANGED <<on, toServer>>
       ELSE /\ call' = [call EXCEPT ![c] = "waiting"]
            /\ on' = [on EXCEPT ![c] = socket]
            /\ Write(c, socket)
  /\ UNCHANGED <<serverUp, socket, work, toClient, part, buffer, runs, lost, cut>>

\* The "error" event of a socket that never connected; "close" comes later.
ConnectFails(c, n) ==
  /\ link[n] = "connecting"
  /\ call[c] = "connecting" /\ on[c] = n
  /\ ~serverUp
  /\ link' = [link EXCEPT ![n] = "dying"]
  /\ call' = [call EXCEPT ![c] = "failed"]
  /\ toServer' = [toServer EXCEPT ![n] = <<>>]
  /\ UNCHANGED <<serverUp, socket, on, pending, work, toClient, part, buffer, runs, lost, cut>>

\* The callback of a write to a socket that died before "close".
WriteFails(c) ==
  /\ c \in pending /\ call[c] = "waiting"
  /\ link[on[c]] \notin Alive
  /\ pending' = pending \ {c}
  /\ call' = Settle({c}, "failed")
  /\ UNCHANGED <<serverUp, link, socket, on, wires, buffer, runs, lost, cut>>

\* Variant for mutation: the pending calls are forgotten, not rejected.
RejectNone == UNCHANGED <<call, pending>>

RejectAll == call' = Settle(pending, "failed") /\ pending' = {}

\* The "close" event of any socket, current or not: all pending calls are
\* rejected and this.socket is nulled; this.readBuffer keeps what it holds.
Close(n) ==
  /\ link[n] \in {"ending", "dying"}
  /\ link' = [link EXCEPT ![n] = "closed"]
  /\ RejectAll
  /\ socket' = 0
  /\ toClient' = [toClient EXCEPT ![n] = <<>>]
  /\ part' = part \ {n}
  /\ UNCHANGED <<serverUp, on, toServer, work, buffer, runs, lost, cut>>

\* disconnect: the socket is destroyed, its "close" event is still to come;
\* what it had not sent, not being connected yet, is lost.
Disconnect ==
  /\ "disconnect" \in Faults
  /\ socket # 0
  /\ link' = [link EXCEPT ![socket] = "dying"]
  /\ socket' = 0
  /\ toServer' = [toServer EXCEPT ![socket] = IF link[socket] = "connecting" THEN <<>> ELSE @]
  /\ toClient' = [toClient EXCEPT ![socket] = <<>>]
  /\ part' = part \ {socket}
  /\ cut' = cut \cup {socket}
  /\ UNCHANGED <<serverUp, call, on, pending, work, buffer, runs, lost>>

\* A "data" event that ends inside a line.
ReceivePart(n) ==
  /\ "split" \in Faults
  /\ link[n] \in {"open", "ending"}
  /\ toClient[n] # <<>>
  /\ n \notin part
  /\ part' = part \cup {n}
  /\ buffer' = IF buffer = 0 THEN n ELSE Mixed
  /\ UNCHANGED <<serverUp, link, socket, call, on, pending, toServer, work, toClient, runs, lost, cut>>

\* The line that a newline from connection n completes is its response line
\* only if the buffer holds nothing else.
Intact(n) == buffer = IF n \in part THEN n ELSE 0

\* Variant for mutation: answers are matched to calls by order, not by id.
HandleAnyPending(answer) ==
  \/ pending = {} /\ UNCHANGED <<pending, call>>
  \/ \E c \in pending : /\ pending' = pending \ {c}
                        /\ call' = Settle({c}, answer.outcome)

\* handleResponse: the call of that id is settled, if it is still pending; a
\* line that does not parse is dropped.
HandleResponse(answer) ==
  IF answer.id \in pending
    THEN /\ pending' = pending \ {answer.id}
         /\ call' = Settle({answer.id}, answer.outcome)
    ELSE UNCHANGED <<pending, call>>

Receive(n) ==
  /\ link[n] \in {"open", "ending"}
  /\ toClient[n] # <<>>
  /\ IF Intact(n) THEN HandleResponse(Head(toClient[n])) ELSE UNCHANGED <<pending, call>>
  /\ toClient' = [toClient EXCEPT ![n] = Tail(@)]
  /\ part' = part \ {n}
  /\ buffer' = 0
  /\ lost' = IF Intact(n) THEN lost ELSE lost \cup {Head(toClient[n]).id}
  /\ UNCHANGED <<serverUp, link, socket, on, toServer, work, runs, cut>>

-----------------------------------------------------------------------------
(* The tool server                                                         *)

Started(c) == [runs EXCEPT ![c] = @ + 1]

\* A "data" event: its whole lines are one callback's, which starts the
\* handler of the first at once; bytes sent before a client left still arrive.
ServerReads(n) ==
  /\ serverUp
  /\ link[n] # "connecting"
  /\ \E k \in 1..Len(toServer[n]) :
       /\ work' = [work EXCEPT ![n] = @ \cup {SubSeq(toServer[n], 1, k)}]
       /\ toServer' = [toServer EXCEPT ![n] = SubSeq(@, k + 1, Len(@))]
  /\ runs' = Started(Head(toServer[n]))
  /\ UNCHANGED <<serverUp, link, socket, call, on, pending, toClient, part, buffer, lost, cut>>

\* dispatch of a line settles, with a result or an error: the response is
\* written if the socket is writable, and the callback's next line is handled.
Handled(c, n, lines, outcome) ==
  /\ Head(lines) = c
  /\ work' = [work EXCEPT ![n] = (@ \ {lines})
                             \cup (IF Len(lines) > 1 THEN {Tail(lines)} ELSE {})]
  /\ runs' = IF Len(lines) > 1 THEN Started(lines[2]) ELSE runs
  /\ toClient' = IF link[n] = "open"
                   THEN [toClient EXCEPT ![n] = Append(@, [id |-> c, outcome |-> outcome])]
                   ELSE toClient
  /\ UNCHANGED <<serverUp, link, socket, call, on, pending, toServer, part, buffer, lost, cut>>

HandlerReturns(c) ==
  \E n \in Conns : \E lines \in work[n], outcome \in {"ok", "failed"} : Handled(c, n, lines, outcome)

\* The tool server's process dies: its connections end, what it sent may
\* still arrive before "close".
ServerDies ==
  /\ "die" \in Faults
  /\ serverUp
  /\ serverUp' = FALSE
  /\ link' = [n \in Conns |-> IF link[n] = "open" THEN "ending" ELSE link[n]]
  /\ toServer' = [n \in Conns |-> IF link[n] = "connecting" THEN toServer[n] ELSE <<>>]
  /\ work' = [n \in Conns |-> {}]
  /\ UNCHANGED <<socket, call, on, pending, toClient, part, buffer, runs, lost, cut>>

\* start of the restarted server: the stale socket file is removed first.
ServerStarts ==
  /\ ~serverUp
  /\ serverUp' = TRUE
  /\ UNCHANGED <<link, socket, call, on, pending, wires, buffer, runs, lost, cut>>

-----------------------------------------------------------------------------

Init ==
  /\ serverUp = FALSE
  /\ link = [n \in Conns |-> "none"]
  /\ socket = 0
  /\ call = [c \in Calls |-> "idle"]
  /\ on = [c \in Calls |-> 0]
  /\ pending = {}
  /\ toServer = [n \in Conns |-> <<>>]
  /\ work = [n \in Conns |-> {}]
  /\ toClient = [n \in Conns |-> <<>>]
  /\ part = {}
  /\ buffer = 0
  /\ runs = [c \in Calls |-> 0]
  /\ lost = {} /\ cut = {}

ConnectSettles(n) == \E c \in Calls : Connected(c, n) \/ ConnectFails(c, n)

Next ==
  \/ \E c \in Calls : CallOnSocket(c) \/ WriteFails(c) \/ HandlerReturns(c)
  \/ \E c \in Calls, n \in Conns : CallConnects(c, n)
  \/ \E n \in Conns : \/ ConnectSettles(n) \/ Close(n) \/ ReceivePart(n) \/ Receive(n)
                      \/ ServerReads(n)
  \/ Disconnect \/ ServerDies \/ ServerStarts

Spec == Init /\ [][Next]_vars

\* The kernel delivers what was sent and reports what broke, and handlers
\* return (RemoteTool sets no timeout of its own: a handler that never returns
\* is waited for).
Fairness ==
  /\ \A n \in Conns : /\ WF_vars(ConnectSettles(n)) /\ WF_vars(Close(n))
                      /\ WF_vars(Receive(n)) /\ WF_vars(ServerReads(n))
  /\ \A c \in Calls : WF_vars(HandlerReturns(c))

FairSpec == Spec /\ Fairness

-----------------------------------------------------------------------------
(* Properties                                                              *)

Outcomes == {"idle", "connecting", "waiting", "ok", "failed"}
Response == [id : Calls, outcome : {"ok", "failed"}]

TypeOK ==
  /\ serverUp \in BOOLEAN
  /\ link \in [Conns -> {"none", "connecting", "open", "ending", "dying", "closed"}]
  /\ socket \in 0..MaxConn
  /\ call \in [Calls -> Outcomes]
  /\ on \in [Calls -> 0..MaxConn]
  /\ {c \in Calls : call[c] = "waiting"} \subseteq pending
  /\ pending \subseteq {c \in Calls : call[c] \in {"waiting", "failed"}}
  /\ toServer \in [Conns -> Seq(Calls)]
  /\ work \in [Conns -> SUBSET (Seq(Calls) \ {<<>>})]
  /\ toClient \in [Conns -> Seq(Response)]
  /\ part \subseteq Conns
  /\ buffer \in 0..Mixed
  /\ runs \in [Calls -> 0..1]
  /\ lost \subseteq Calls /\ cut \subseteq Conns

InLines(c, lines) == \E i \in 1..Len(lines) : lines[i] = c

OnItsWay(c, n) ==
  \/ InLines(c, toServer[n])
  \/ \E lines \in work[n] : InLines(c, lines)
  \/ \E i \in 1..Len(toClient[n]) : toClient[n][i].id = c

\* The call that awaits connect when disconnect destroys its socket: no "error"
\* event comes, and its promise is never settled.
Abandoned(c) == call[c] = "connecting" /\ on[c] \in cut

\* No call is stranded: one that waits for its answer has its request or its
\* response on a connection that still works, or its connection is broken and
\* the "close" event that will reject it is still to come.  Only the calls of
\* a line that did not parse, and of a connect cut short, are.
NoneStranded ==
  /\ \A c \in Calls \ lost : call[c] = "waiting" => \/ link[on[c]] \in Alive /\ OnItsWay(c, on[c])
                                                   \/ link[on[c]] \in {"ending", "dying"}
  /\ \A c \in Calls : call[c] = "connecting" => link[on[c]] = "connecting" \/ Abandoned(c)

\* NoneStranded is not inductive, nor is what RpcCalls says of handlers.  RpcInv
\* adds what is on the wires: a line read by no one has a handler not started, is
\* there once, and behind the handler that runs come lines whose own handlers are
\* not; and what becomes of connections: a socket kept is not closed, only one
\* call waits for a connect, and but for disconnect only one connection is left.
Unstarted(c, n) == call[c] \notin {"idle", "connecting"} /\ on[c] = n /\ runs[c] = 0
HandlerStarted(c, n) == on[c] = n /\ runs[c] = 1

Distinct(lines) == \A i, j \in 1..Len(lines) : (lines[i] = lines[j] => i = j)

UnreadOnce(n) ==
  /\ Distinct(toServer[n])
  /\ \A i \in 1..Len(toServer[n]) : Unstarted(toServer[n][i], n)

BehindHandler(n) ==
  \A lines \in work[n] :
    /\ HandlerStarted(lines[1], n)
    /\ Distinct(lines)
    /\ \A i \in 2..Len(lines) :
         /\ Unstarted(lines[i], n)
         /\ ~InLines(lines[i], toServer[n])
         /\ \A more \in work[n] : InLines(lines[i], more) => more = lines

AnswersFollow(n) == \A i \in 1..Len(toClient[n]) : HandlerStarted(toClient[n][i].id, n)

RunsFollowCalls ==
  \A c \in Calls : /\ call[c] \in {"idle", "connecting"} => runs[c] = 0
                   /\ call[c] = "ok" => runs[c] = 1

ConnectionsInv ==
  /\ \A c \in Calls : call[c] # "idle" => on[c] \in Conns /\ link[on[c]] # "none"
  /\ \A n \in Conns : link[n] = "connecting" => work[n] = {}
  /\ socket # 0 => link[socket] \notin {"none", "closed"}
  /\ \A c, d \in Calls : call[c] = "connecting" /\ call[d] = "connecting" /\ on[c] = on[d] => c = d
  /\ cut = {} => \A n \in Conns : link[n] \notin {"none", "closed"} => n = socket

RpcInv ==
  /\ TypeOK
  /\ \A n \in Conns : UnreadOnce(n) /\ BehindHandler(n) /\ AnswersFollow(n)
  /\ RunsFollowCalls
  /\ ConnectionsInv
  /\ NoneStranded

\* A call fails only by its handler's error, because the connection it was
\* written to, or waits for, broke: never because another one did, unless
\* disconnect has been called, after which late "close" events reject any call.
FailsWithItsConnection ==
  [][\A c \in Calls :
       call[c] \in {"connecting", "waiting"} /\ call'[c] = "failed" =>
         \/ link'[on[c]] \notin Alive
         \/ toClient[on[c]] # <<>> /\ Head(toClient[on[c]]) = [id |-> c, outcome |-> "failed"]
         \/ cut # {}
    ]_vars

\* RpcCalls: handlers start at most once a call, promises settle at most once,
\* and a call resolves only after its own handler was started.
Promise(c) == CASE call[c] = "idle" -> "idle"
                [] call[c] \in {"connecting", "waiting"} -> "called"
                [] OTHER -> call[c]

Abstract == INSTANCE RpcCalls WITH state <- [c \in Calls |-> Promise(c)]

ImplementsCalls == Abstract!Spec

\* UnixSocketRpcClient: "each is keyed by a UUID and resolved when the
\* matching response arrives", however the stream is cut into data events.
AnsweredWhenReceived ==
  [][\A n \in Conns :
       toClient'[n] # toClient[n] /\ link[n] \in {"open", "ending"}
         /\ toClient[n] # <<>> /\ toClient'[n] = Tail(toClient[n]) /\ link'[n] = link[n]
         => call'[Head(toClient[n]).id] # "waiting"]_vars

\* Every call settles, also when the tool server dies and comes back, unless its
\* response did not parse or its connect was cut short.
EverySettles ==
  \A c \in Calls : call[c] \in {"connecting", "waiting"}
                    ~> call[c] \in {"ok", "failed"} \/ c \in lost \/ Abandoned(c)

\* The channel as a whole: a step fails a call for its own connection only, and
\* every call settles.
ChannelPromise == FailsWithItsConnection /\ EverySettles
=============================================================================
