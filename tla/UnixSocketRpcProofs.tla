------------------------- MODULE UnixSocketRpcProofs -------------------------
(***************************************************************************)
(* Proofs about UnixSocketRpc, for any set of calls, any number of         *)
(* connections and any faults: its invariant, that it implements RpcCalls, *)
(* and that a call fails only with its own connection.  Then the promises  *)
(* of the macOS app, for any callers, commands, clients and bounds: of its *)
(* tool server (MacServer) and of its bridge to an MCP server (MacBridge). *)
(* And the two ends of the web interface, for any conversations, tokens    *)
(* and bounds: its chat over a socket (WebChat) and signing in (SignIn).   *)
(***************************************************************************)
EXTENDS UnixSocketRpc, MacServer, MacBridge, WebChat, SignIn, SequenceTheorems, FiniteSetTheorems, TLAPS

-----------------------------------------------------------------------------
(* Lines: what is read in part, handled and passed on.                     *)

\* The head of a sequence, and what comes behind it.
LEMMA HeadAndTail ==
  ASSUME NEW S, NEW s \in Seq(S), s # <<>>
  PROVE  /\ Len(s) \in Nat \ {0}
         /\ Head(s) = s[1] /\ s[1] \in S
         /\ Tail(s) \in Seq(S) /\ Len(Tail(s)) = Len(s) - 1
         /\ \A i \in 1..Len(Tail(s)) : Tail(s)[i] = s[i + 1]
BY HeadTailProperties, EmptySeq, ElementOfSeq

\* What is taken from the front of a sequence, and what is left.
LEMMA FrontAndRest ==
  ASSUME NEW S, NEW s \in Seq(S), NEW k \in 1..Len(s)
  PROVE  /\ SubSeq(s, 1, k) \in Seq(S) \ {<<>>}
         /\ Len(SubSeq(s, 1, k)) = k
         /\ \A i \in 1..k : SubSeq(s, 1, k)[i] = s[i]
         /\ SubSeq(s, k + 1, Len(s)) \in Seq(S)
         /\ Len(SubSeq(s, k + 1, Len(s))) = Len(s) - k
         /\ \A i \in 1..(Len(s) - k) : SubSeq(s, k + 1, Len(s))[i] = s[k + i]
<1>1. Len(s) \in Nat /\ \A i \in 1..Len(s) : s[i] \in S
  BY LenProperties, ElementOfSeq
<1>2. /\ SubSeq(s, 1, k) \in Seq(S)
      /\ Len(SubSeq(s, 1, k)) = k
      /\ \A i \in 1..k : SubSeq(s, 1, k)[i] = s[i]
  <2>1. \A i \in 1..k : s[i] \in S
    BY <1>1
  <2>. QED
    BY <1>1, <2>1, SubSeqProperties
<1>3. SubSeq(s, 1, k) # <<>>
  BY <1>1, <1>2, EmptySeq
<1>4. /\ SubSeq(s, k + 1, Len(s)) \in Seq(S)
      /\ Len(SubSeq(s, k + 1, Len(s))) = Len(s) - k
      /\ \A i \in 1..(Len(s) - k) : SubSeq(s, k + 1, Len(s))[i] = s[k + i]
  BY <1>1
<1>. QED
  BY <1>2, <1>3, <1>4

\* A call in what is handed on was in what it was taken from.
LEMMA StillInLines ==
  ASSUME NEW S, NEW s \in Seq(S), NEW c
  PROVE  /\ s # <<>> => (InLines(c, s) <=> c = s[1] \/ InLines(c, Tail(s)))
         /\ \A k \in 1..Len(s) : InLines(c, s) <=> \/ InLines(c, SubSeq(s, 1, k))
                                                   \/ InLines(c, SubSeq(s, k + 1, Len(s)))
<1>1. ASSUME s # <<>>
      PROVE  InLines(c, s) <=> c = s[1] \/ InLines(c, Tail(s))
  <2>1. /\ Len(s) \in Nat \ {0} /\ Len(Tail(s)) = Len(s) - 1
        /\ \A i \in 1..Len(Tail(s)) : Tail(s)[i] = s[i + 1]
    BY <1>1, HeadAndTail
  <2>2. \A i \in 1..Len(s) : i = 1 \/ (i - 1 \in 1..Len(Tail(s)) /\ s[i] = Tail(s)[i - 1])
    BY <2>1
  <2>3. \A i \in 1..Len(Tail(s)) : i + 1 \in 1..Len(s) /\ Tail(s)[i] = s[i + 1]
    BY <2>1
  <2>4. 1 \in 1..Len(s)
    BY <2>1
  <2>. QED
    BY <2>2, <2>3, <2>4 DEF InLines
<1>2. ASSUME NEW k \in 1..Len(s)
      PROVE  InLines(c, s) <=> \/ InLines(c, SubSeq(s, 1, k))
                               \/ InLines(c, SubSeq(s, k + 1, Len(s)))
  <2>1. Len(s) \in Nat
    BY LenProperties
  <2>2. ASSUME NEW i \in 1..Len(s)
        PROVE  \/ i \in 1..k
               \/ i - k \in 1..(Len(s) - k) /\ i = k + (i - k)
    BY <2>1
  <2>3. \A i \in 1..(Len(s) - k) : k + i \in 1..Len(s)
    BY <2>1
  <2>4. \A i \in 1..k : i \in 1..Len(s)
    BY <2>1
  <2>5. /\ \A i \in 1..k : SubSeq(s, 1, k)[i] = s[i]
        /\ \A i \in 1..(Len(s) - k) : SubSeq(s, k + 1, Len(s))[i] = s[k + i]
        /\ Len(SubSeq(s, 1, k)) = k /\ Len(SubSeq(s, k + 1, Len(s))) = Len(s) - k
    BY SMTT(40), FrontAndRest
  <2>6. InLines(c, SubSeq(s, 1, k)) <=> \E i \in 1..k : s[i] = c
    BY <2>5 DEF InLines
  <2>7. InLines(c, SubSeq(s, k + 1, Len(s))) <=> \E i \in 1..(Len(s) - k) : s[k + i] = c
    BY <2>5 DEF InLines
  <2>8. InLines(c, s) <=> \E i \in 1..Len(s) : s[i] = c
    BY DEF InLines
  <2>9. ASSUME NEW i \in 1..Len(s), s[i] = c
        PROVE  (\E j \in 1..k : s[j] = c) \/ \E j \in 1..(Len(s) - k) : s[k + j] = c
    BY <2>2, <2>9
  <2>. QED
    BY <2>3, <2>4, <2>6, <2>7, <2>8, <2>9
<1>. QED
  BY <1>1, <1>2

-----------------------------------------------------------------------------
(* Types                                                                   *)

LEMMA TypeStep ==
  ASSUME RpcInv, Next
  PROVE  TypeOK'
<1>. USE RpcAssumption DEF TypeOK, Conns, Mixed, Outcomes, wires
<1>0. TypeOK /\ \A n \in Conns : UnreadOnce(n) /\ BehindHandler(n)
  BY DEF RpcInv
<1>1. ASSUME NEW c \in Calls, CallOnSocket(c)
      PROVE  TypeOK'
  <2>1. socket \in Conns
    BY <1>0, <1>1 DEF CallOnSocket, NoSocket
  <2>2. toServer' \in [Conns -> Seq(Calls)]
    BY <1>0, <1>1, <2>1 DEF CallOnSocket, Write
  <2>3. /\ {d \in Calls : call'[d] = "waiting"} \subseteq pending'
        /\ pending' \subseteq {d \in Calls : call'[d] \in {"waiting", "failed"}}
    BY <1>0, <1>1 DEF CallOnSocket
  <2>. QED
    BY <1>0, <1>1, <2>1, <2>2, <2>3 DEF CallOnSocket
<1>2. ASSUME NEW c \in Calls, WriteFails(c)
      PROVE  TypeOK'
  BY <1>0, <1>2 DEF WriteFails, Settle
<1>4. ASSUME NEW c \in Calls, NEW n \in Conns, CallConnects(c, n)
      PROVE  TypeOK'
  BY <1>0, <1>4, SMTT(30) DEF CallConnects
<1>6. ASSUME NEW c \in Calls, NEW n \in Conns, ConnectFails(c, n)
      PROVE  TypeOK'
  BY <1>0, <1>6, SMTT(30) DEF ConnectFails
<1>13. ASSUME ServerStarts
      PROVE  TypeOK'
  BY <1>0, <1>13 DEF ServerStarts
<1>5. ASSUME NEW c \in Calls, NEW n \in Conns, Connected(c, n)
      PROVE  TypeOK'
  <2>1. CASE socket = 0
    <3>1. /\ call' = [call EXCEPT ![c] = "failed"] /\ call[c] = "connecting"
          /\ pending' = pending \cup {c} /\ UNCHANGED <<on, toServer>>
      BY <1>5, <2>1 DEF Connected
    <3>2. /\ call' \in [Calls -> Outcomes]
          /\ {d \in Calls : call'[d] = "waiting"} \subseteq pending'
          /\ pending' \subseteq {d \in Calls : call'[d] \in {"waiting", "failed"}}
      BY <1>0, <3>1
    <3>. QED
      BY <1>0, <1>5, <3>1, <3>2 DEF Connected
  <2>2. CASE socket # 0
    <3>1. socket \in Conns
      BY <1>0, <2>2
    <3>2. /\ call' = [call EXCEPT ![c] = "waiting"] /\ pending' = pending \cup {c}
          /\ on' = [on EXCEPT ![c] = socket]
      BY <1>5, <2>2 DEF Connected
    <3>3. Write(c, socket)
      BY <1>5, <2>2 DEF Connected
    <3>4. toServer' \in [Conns -> Seq(Calls)]
      BY <1>0, <3>1, <3>3 DEF Write
    <3>5. call' \in [Calls -> Outcomes] /\ on' \in [Calls -> 0..MaxConn]
      BY <1>0, <3>1, <3>2
    <3>11. \A d \in Calls : d # c => call'[d] = call[d]
      BY <1>0, <3>2
    <3>12. call'[c] = "waiting"
      BY <1>0, <3>2
    <3>9. {d \in Calls : call'[d] = "waiting"} \subseteq pending'
      BY <1>0, <3>2, <3>11
    <3>10. pending' \subseteq {d \in Calls : call'[d] \in {"waiting", "failed"}}
      BY <1>0, <3>2, <3>11, <3>12
    <3>6. UNCHANGED <<serverUp, socket, work, toClient, part, buffer, runs, lost, cut>>
      BY <1>5 DEF Connected
    <3>7. link' \in [Conns -> {"none", "connecting", "open", "ending", "dying", "closed"}]
      BY <1>0, <1>5 DEF Connected
    <3>. QED
      BY <1>0, <3>4, <3>5, <3>6, <3>7, <3>9, <3>10
  <2>. QED
    BY <2>1, <2>2
<1>7. ASSUME NEW n \in Conns, Close(n)
      PROVE  TypeOK'
  <2>1. /\ {d \in Calls : call'[d] = "waiting"} \subseteq pending'
        /\ pending' \subseteq {d \in Calls : call'[d] \in {"waiting", "failed"}}
    BY <1>0, <1>7 DEF Close, RejectAll, Settle
  <2>2. call' \in [Calls -> Outcomes]
    BY <1>0, <1>7 DEF Close, RejectAll, Settle
  <2>3. toClient' \in [Conns -> Seq(Response)]
    BY <1>0, <1>7 DEF Close
  <2>. QED
    BY <1>0, <1>7, <2>1, <2>2, <2>3 DEF Close
<1>8. ASSUME NEW n \in Conns, ReceivePart(n)
      PROVE  TypeOK'
  <2>1. buffer' \in 0..Mixed
    BY <1>0, <1>8 DEF ReceivePart
  <2>. QED
    BY <1>0, <1>8, <2>1 DEF ReceivePart
<1>11. ASSUME Disconnect
      PROVE  TypeOK'
  <2>1. socket \in Conns
    BY <1>0, <1>11 DEF Disconnect
  <2>2. toServer' \in [Conns -> Seq(Calls)]
    BY <1>0, <1>11, <2>1 DEF Disconnect
  <2>3. toClient' \in [Conns -> Seq(Response)]
    BY <1>0, <1>11, <2>1 DEF Disconnect
  <2>. QED
    BY <1>0, <1>11, <2>1, <2>2, <2>3, SMTT(30) DEF Disconnect
<1>12. ASSUME ServerDies
      PROVE  TypeOK'
  <2>1. link' \in [Conns -> {"none", "connecting", "open", "ending", "dying", "closed"}]
    BY <1>0, <1>12 DEF ServerDies
  <2>2. toServer' \in [Conns -> Seq(Calls)]
    BY <1>0, <1>12 DEF ServerDies
  <2>. QED
    BY <1>0, <1>12, <2>1, <2>2 DEF ServerDies
<1>9. ASSUME NEW n \in Conns, Receive(n)
      PROVE  TypeOK'
  <2>1. Head(toClient[n]) \in Response /\ Tail(toClient[n]) \in Seq(Response)
    BY <1>0, <1>9, HeadTailProperties DEF Receive
  <2>2. Head(toClient[n]).id \in Calls /\ Head(toClient[n]).outcome \in Outcomes \ {"waiting"}
    BY <1>0, <2>1 DEF Response
  <2>3. /\ {d \in Calls : call'[d] = "waiting"} \subseteq pending'
        /\ pending' \subseteq {d \in Calls : call'[d] \in {"waiting", "failed"}}
        /\ call' \in [Calls -> Outcomes]
    BY <1>0, <1>9, <2>2 DEF Receive, HandleResponse, Settle
  <2>4. toClient' \in [Conns -> Seq(Response)]
    BY <1>0, <1>9, <2>1 DEF Receive
  <2>5. part' \subseteq Conns /\ lost' \subseteq Calls /\ buffer' \in 0..Mixed
    BY <1>0, <1>9, <2>2 DEF Receive
  <2>6. UNCHANGED <<serverUp, link, socket, on, toServer, work, runs, cut>>
    BY <1>9 DEF Receive
  <2>. HIDE DEF Mixed, Outcomes, Conns
  <2>. QED
    BY <1>0, <2>3, <2>4, <2>5, <2>6
<1>10. ASSUME NEW n \in Conns, ServerReads(n)
       PROVE  TypeOK'
  <2>0. toServer[n] \in Seq(Calls) /\ UnreadOnce(n)
    BY <1>0
  <2>1. PICK k \in 1..Len(toServer[n]) :
          /\ work' = [work EXCEPT ![n] = @ \cup {SubSeq(toServer[n], 1, k)}]
          /\ toServer' = [toServer EXCEPT ![n] = SubSeq(@, k + 1, Len(@))]
    BY <1>0, <1>10 DEF ServerReads
  <2>2. /\ SubSeq(toServer[n], 1, k) \in Seq(Calls) \ {<<>>}
        /\ SubSeq(toServer[n], k + 1, Len(toServer[n])) \in Seq(Calls)
    BY <2>0, FrontAndRest
  <2>3. toServer' \in [Conns -> Seq(Calls)]
    BY <1>0, <2>1, <2>2
  <2>4. work' \in [Conns -> SUBSET (Seq(Calls) \ {<<>>})]
    BY <1>0, <2>1, <2>2
  <2>5. runs' \in [Calls -> 0..1]
    <3>1. toServer[n] # <<>> /\ 1 \in 1..Len(toServer[n])
      BY <2>0, <2>1, EmptySeq
    <3>2. Head(toServer[n]) = toServer[n][1] /\ runs[toServer[n][1]] = 0
      BY <1>0, <3>1, <2>0, HeadAndTail DEF UnreadOnce, Unstarted
    <3>. QED
      BY <1>0, <1>10, <3>2, SMTT(30) DEF ServerReads, Started
  <2>. QED
    BY <1>0, <1>10, <2>3, <2>4, <2>5 DEF ServerReads
<1>3. ASSUME NEW c \in Calls, HandlerReturns(c)
      PROVE  TypeOK'
  <2>0. PICK n \in Conns : \E lines \in work[n], outcome \in {"ok", "failed"} :
          Handled(c, n, lines, outcome)
    BY <1>0, <1>3 DEF HandlerReturns
  <2>1. PICK lines \in work[n], outcome \in {"ok", "failed"} : Handled(c, n, lines, outcome)
    BY <2>0
  <2>2. /\ lines \in Seq(Calls) /\ lines # <<>>
        /\ Len(lines) \in Nat \ {0} /\ lines[1] = c
        /\ Tail(lines) \in Seq(Calls) /\ Len(Tail(lines)) = Len(lines) - 1
    BY <1>0, <2>1, HeadAndTail DEF Handled
  <2>3. Len(lines) > 1 => Tail(lines) # <<>>
    <3>. USE <2>2
    <3>1. Len(lines) > 1 => Len(Tail(lines)) # 0
      OBVIOUS
    <3>. QED
      BY <3>1, EmptySeq
  <2>4. work' \in [Conns -> SUBSET (Seq(Calls) \ {<<>>})]
    BY <1>0, <2>1, <2>2, <2>3 DEF Handled
  <2>5. toClient' \in [Conns -> Seq(Response)]
    <3>1. [id |-> c, outcome |-> outcome] \in Response
      BY DEF Response
    <3>. QED
      BY <1>0, <2>1, <3>1 DEF Handled
  <2>6. runs' \in [Calls -> 0..1]
    <3>1. ASSUME Len(lines) > 1
          PROVE  lines[2] \in Calls /\ runs[lines[2]] = 0
      <4>1. 2 \in 1..Len(lines) /\ 2 \in 2..Len(lines)
        BY <2>2, <3>1
      <4>. QED
        BY <1>0, <2>1, <2>2, <4>1, ElementOfSeq DEF BehindHandler, Unstarted
    <3>. QED
      BY <1>0, <2>1, <3>1 DEF Handled, Started
  <2>. QED
    BY <1>0, <2>1, <2>4, <2>5, <2>6 DEF Handled
<1>. QED
  BY <1>1, <1>2, <1>3, <1>4, <1>5, <1>6, <1>7, <1>8, <1>9, <1>10, <1>11, <1>12, <1>13
     DEF Next, ConnectSettles
-----------------------------------------------------------------------------
(* The wires                                                               *)

WiresInv(n) == UnreadOnce(n) /\ BehindHandler(n) /\ AnswersFollow(n)

\* What RpcInv says of one connection.
LEMMA OneConnection ==
  ASSUME RpcInv, NEW n \in Conns
  PROVE  /\ toServer[n] \in Seq(Calls) /\ toClient[n] \in Seq(Response)
         /\ Len(toServer[n]) \in Nat /\ Len(toClient[n]) \in Nat
         /\ \A i \in 1..Len(toServer[n]) : toServer[n][i] \in Calls
         /\ \A i \in 1..Len(toClient[n]) : toClient[n][i] \in Response /\ toClient[n][i].id \in Calls
         /\ \A lines \in work[n] :
              /\ lines \in Seq(Calls) \ {<<>>} /\ Len(lines) \in Nat \ {0}
              /\ \A i \in 1..Len(lines) : lines[i] \in Calls
         /\ UnreadOnce(n) /\ BehindHandler(n) /\ AnswersFollow(n)
<1>1. TypeOK
  BY DEF RpcInv
<1>2. toServer[n] \in Seq(Calls) /\ toClient[n] \in Seq(Response)
  BY <1>1 DEF TypeOK
<1>3. \A i \in 1..Len(toClient[n]) : toClient[n][i] \in Response
  BY <1>2, ElementOfSeq
<1>4. \A r \in Response : r.id \in Calls
  BY DEF Response
<1>5. ASSUME NEW lines \in work[n]
      PROVE  /\ lines \in Seq(Calls) \ {<<>>} /\ Len(lines) \in Nat \ {0}
             /\ \A i \in 1..Len(lines) : lines[i] \in Calls
  <2>1. lines \in Seq(Calls) /\ lines # <<>>
    BY <1>1 DEF TypeOK
  <2>. QED
    BY <2>1, EmptySeq, ElementOfSeq
<1>6. UnreadOnce(n) /\ BehindHandler(n) /\ AnswersFollow(n)
  BY DEF RpcInv
<1>. QED
  BY <1>2, <1>3, <1>4, <1>5, <1>6, LenProperties, ElementOfSeq

\* A step that takes lines away at most, and leaves every request on its way what
\* it was, keeps the order of the wires.
LEMMA WiresShrink ==
  ASSUME RpcInv, NEW n \in Conns,
         \A c \in Calls : Unstarted(c, n) => Unstarted(c, n)',
         \A c \in Calls : HandlerStarted(c, n) => HandlerStarted(c, n)',
         toServer'[n] \in {toServer[n], <<>>},
         work'[n] \in {work[n], {}},
         \/ toClient'[n] \in {toClient[n], <<>>}
         \/ toClient[n] # <<>> /\ toClient'[n] = Tail(toClient[n])
  PROVE  WiresInv(n)'
<1>. USE OneConnection
<1>1. Len(<<>>) = 0
  BY EmptySeq
<1>2. UnreadOnce(n)'
  <2>1. CASE toServer'[n] = toServer[n]
    BY <2>1 DEF UnreadOnce, Distinct
  <2>2. CASE toServer'[n] = <<>>
    BY <1>1, <2>2 DEF UnreadOnce, Distinct
  <2>. QED
    BY <2>1, <2>2
<1>3. BehindHandler(n)'
  <2>1. CASE work'[n] = {}
    BY <2>1 DEF BehindHandler
  <2>2. CASE work'[n] = work[n]
    <3>1. ASSUME NEW lines \in work[n]
          PROVE  /\ HandlerStarted(lines[1], n)'
                 /\ Distinct(lines)
                 /\ \A i \in 2..Len(lines) :
                      /\ Unstarted(lines[i], n)'
                      /\ ~InLines(lines[i], toServer'[n])
                      /\ \A more \in work[n] : InLines(lines[i], more) => more = lines
      <4>1. /\ 1 \in 1..Len(lines)
            /\ \A i \in 2..Len(lines) : i \in 1..Len(lines)
        OBVIOUS
      <4>2. ASSUME NEW i \in 2..Len(lines)
            PROVE  ~InLines(lines[i], toServer'[n])
        <5>1. ~InLines(lines[i], toServer[n])
          BY DEF BehindHandler
        <5>2. ~InLines(lines[i], <<>>)
          BY <1>1 DEF InLines
        <5>. QED
          BY <5>1, <5>2
      <4>. QED
        BY <4>1, <4>2 DEF BehindHandler
    <3>. QED
      BY <2>2, <3>1 DEF BehindHandler
  <2>. QED
    BY <2>1, <2>2
<1>4. AnswersFollow(n)'
  <2>1. CASE toClient'[n] \in {toClient[n], <<>>}
    BY <1>1, <2>1 DEF AnswersFollow
  <2>2. CASE toClient[n] # <<>> /\ toClient'[n] = Tail(toClient[n])
    <3>1. /\ Len(Tail(toClient[n])) = Len(toClient[n]) - 1
          /\ \A i \in 1..Len(Tail(toClient[n])) : Tail(toClient[n])[i] = toClient[n][i + 1]
      BY <2>2, HeadAndTail
    <3>2. \A i \in 1..Len(Tail(toClient[n])) : i + 1 \in 1..Len(toClient[n])
      BY <3>1
    <3>. QED
      BY <2>2, <3>1, <3>2 DEF AnswersFollow
  <2>. QED
    BY <2>1, <2>2
<1>. QED
  BY <1>2, <1>3, <1>4 DEF WiresInv

\* A call's request is not on the wires before it is written: Write adds it once.
LEMMA WriteKeepsWires ==
  ASSUME RpcInv, NEW c \in Calls, NEW n \in Conns, NEW m \in Conns,
         call[c] \in {"idle", "connecting"},
         call' = [call EXCEPT ![c] = "waiting"], on' = [on EXCEPT ![c] = n],
         Write(c, n), UNCHANGED <<work, toClient, runs>>
  PROVE  WiresInv(m)'
<1>. USE OneConnection
<1>0. TypeOK /\ runs[c] = 0
  BY DEF RpcInv, RunsFollowCalls
<1>1. \A d \in Calls : /\ Unstarted(d, m) => Unstarted(d, m)' /\ d # c
                       /\ HandlerStarted(d, m) => HandlerStarted(d, m)' /\ d # c
  BY <1>0 DEF Unstarted, HandlerStarted, TypeOK
<1>2. CASE m = n /\ link[n] \in Alive
  <2>1. toServer'[m] = Append(toServer[m], c)
    BY <1>0, <1>2 DEF Write, TypeOK
  <2>2. /\ Len(Append(toServer[m], c)) = Len(toServer[m]) + 1
        /\ \A i \in 1..Len(toServer[m]) : Append(toServer[m], c)[i] = toServer[m][i]
        /\ Append(toServer[m], c)[Len(toServer[m]) + 1] = c
    BY AppendProperties
  <2>3. \A i \in 1..Len(toServer'[m]) : \/ i \in 1..Len(toServer[m]) /\ toServer'[m][i] = toServer[m][i]
                                        \/ i = Len(toServer[m]) + 1 /\ toServer'[m][i] = c
    BY <2>1, <2>2
  <2>4. \A d \in Calls : InLines(d, toServer[m]) => d # c /\ Unstarted(d, m)'
    <3>1. \A d \in Calls : InLines(d, toServer[m]) => Unstarted(d, m)
      BY OneConnection DEF UnreadOnce, InLines
    <3>. QED
      BY <1>1, <3>1
  <2>5. Unstarted(c, m)'
    BY <1>0, <1>2 DEF Unstarted, TypeOK
  <2>6. UnreadOnce(m)'
    <3>0. \A i \in 1..Len(toServer[m]) : toServer[m][i] \in Calls /\ InLines(toServer[m][i], toServer[m])
      BY DEF InLines
    <3>1. \A i, j \in 1..Len(toServer'[m]) : toServer'[m][i] = toServer'[m][j] => i = j
      <4>1. Distinct(toServer[m])
        BY DEF UnreadOnce
      <4>2. \A i \in 1..Len(toServer[m]) : toServer[m][i] # c
        BY <2>4, <3>0
      <4>. QED
        BY <2>3, <4>1, <4>2 DEF Distinct
    <3>2. \A i \in 1..Len(toServer'[m]) : \E d \in Calls : toServer'[m][i] = d /\ Unstarted(d, m)'
      BY <2>3, <2>4, <2>5, <3>0
    <3>. QED
      BY <3>1, <3>2 DEF UnreadOnce, Distinct
  <2>7. ASSUME NEW lines \in work[m]
        PROVE  /\ HandlerStarted(lines[1], m)'
               /\ Distinct(lines)
               /\ \A i \in 2..Len(lines) :
                    /\ Unstarted(lines[i], m)'
                    /\ ~InLines(lines[i], toServer'[m])
                    /\ \A more \in work[m] : InLines(lines[i], more) => more = lines
    <3>1. /\ 1 \in 1..Len(lines)
          /\ \A i \in 2..Len(lines) : i \in 1..Len(lines)
      OBVIOUS
    <3>2. ASSUME NEW i \in 2..Len(lines)
          PROVE  ~InLines(lines[i], toServer'[m]) /\ Unstarted(lines[i], m)'
      <4>1. lines[i] # c /\ Unstarted(lines[i], m)' /\ ~InLines(lines[i], toServer[m])
        BY <1>1, <3>1 DEF BehindHandler
      <4>. QED
        BY <2>3, <4>1 DEF InLines
    <3>. QED
      BY <1>1, <3>1, <3>2 DEF BehindHandler
  <2>8. AnswersFollow(m)'
    BY <1>1 DEF AnswersFollow
  <2>. QED
    BY <2>6, <2>7, <2>8 DEF BehindHandler, WiresInv
<1>3. CASE m # n \/ link[n] \notin Alive
  <2>1. toServer'[m] = toServer[m]
    BY <1>0, <1>3 DEF Write, TypeOK
  <2>. QED
    BY <1>1, <2>1, WiresShrink
<1>. QED
  BY <1>2, <1>3

\* The first k lines of a connection, and the lines behind them.
LEMMA LinesTaken ==
  ASSUME TypeOK, NEW n \in Conns, NEW k \in 1..Len(toServer[n])
  PROVE  /\ Len(SubSeq(toServer[n], 1, k)) = k
         /\ \A i \in 1..k : SubSeq(toServer[n], 1, k)[i] = toServer[n][i]
         /\ Len(SubSeq(toServer[n], k + 1, Len(toServer[n]))) = Len(toServer[n]) - k
         /\ \A i \in 1..(Len(toServer[n]) - k) :
              SubSeq(toServer[n], k + 1, Len(toServer[n]))[i] = toServer[n][k + i]
<1>1. toServer[n] \in Seq(Calls)
  BY DEF TypeOK
<1>. QED
  BY <1>1, FrontAndRest

\* The server reads lines: the handler of the first is started, the others wait
\* behind it.
LEMMA ReadKeepsWires ==
  ASSUME RpcInv, NEW n \in Conns, ServerReads(n), NEW m \in Conns
  PROVE  /\ WiresInv(m)'
         /\ \E c \in Calls : Unstarted(c, n) /\ runs' = Started(c)
<1>. USE OneConnection
<1>0. TypeOK
  BY DEF RpcInv
<1>1. PICK k \in 1..Len(toServer[n]) :
        /\ work' = [work EXCEPT ![n] = @ \cup {SubSeq(toServer[n], 1, k)}]
        /\ toServer' = [toServer EXCEPT ![n] = SubSeq(@, k + 1, Len(@))]
  BY DEF ServerReads
<1>. DEFINE s == toServer[n]
            read == SubSeq(s, 1, k)
            rest == SubSeq(s, k + 1, Len(s))
<1>2. PICK c \in Calls : 1 \in 1..Len(s) /\ c = s[1] /\ Head(s) = c
  BY HeadAndTail, EmptySeq
<1>3. /\ call' = call /\ on' = on /\ toClient' = toClient
      /\ runs[c] = 0 /\ runs' = Started(c) /\ runs' = [runs EXCEPT ![c] = 1] /\ on[c] = n
  <2>1. Unstarted(c, n)
    BY <1>2 DEF UnreadOnce
  <2>. QED
    <3>1. UNCHANGED <<call, on, toClient>> /\ runs' = Started(c)
      BY <1>2 DEF ServerReads
    <3>2. runs[c] = 0 /\ on[c] = n
      BY <2>1 DEF Unstarted
    <3>3. Started(c) = [runs EXCEPT ![c] = 1]
      BY <3>2 DEF Started
    <3>. QED
      BY <3>1, <3>2, <3>3
<1>4. \A d \in Calls : /\ Unstarted(d, m) /\ d # c => Unstarted(d, m)'
                       /\ HandlerStarted(d, m) => HandlerStarted(d, m)'
  BY <1>0, <1>3 DEF Unstarted, HandlerStarted, TypeOK
<1>5. ASSUME m # n
      PROVE  WiresInv(m)'
  <2>1. toServer'[m] = toServer[m] /\ work'[m] = work[m]
    BY <1>0, <1>1, <1>5 DEF TypeOK
  <2>2. \A d \in Calls : Unstarted(d, m) => Unstarted(d, m)'
    BY <1>3, <1>4, <1>5 DEF Unstarted
  <2>. QED
    <3>1. ASSUME NEW d \in Calls
          PROVE  HandlerStarted(d, m) => HandlerStarted(d, m)'
      BY <1>4
    <3>2. toClient'[m] = toClient[m]
      BY <1>3
    <3>3. ~(m = n)
      BY <1>5
    <3>. QED
      BY <3>1, <3>2, <2>1, <2>2, <1>3, WiresShrink
<1>6. ASSUME m = n
      PROVE  WiresInv(m)'
  <2>1. toServer'[n] = rest /\ work'[n] = work[n] \cup {read}
    BY <1>0, <1>1 DEF TypeOK
  <2>2. /\ Len(read) = k /\ \A i \in 1..k : read[i] = s[i]
        /\ Len(rest) = Len(s) - k /\ \A i \in 1..(Len(s) - k) : rest[i] = s[k + i]
    BY <1>0, LinesTaken
  <2>. HIDE DEF read, rest
  <2>3. \A i, j \in 1..Len(s) : s[i] = s[j] => i = j
    BY DEF UnreadOnce, Distinct
  <2>4. /\ \A i \in 1..(Len(s) - k) : k + i \in 1..Len(s) /\ k + i # 1
        /\ \A i \in 1..k : i \in 1..Len(s)
    OBVIOUS
  <2>5. \A i \in 2..Len(s) : \E d \in Calls : d = s[i] /\ d # c /\ Unstarted(d, n)'
    <3>1. \A i \in 2..Len(s) : i \in 1..Len(s) /\ i # 1
      OBVIOUS
    <3>2. \A i \in 1..Len(s) : s[i] \in Calls /\ Unstarted(s[i], n)
      BY DEF UnreadOnce
    <3>3. \A i \in 2..Len(s) : s[i] # c
      BY <1>2, <2>3, <3>1
    <3>. QED
      BY <1>4, <1>6, <3>1, <3>2, <3>3
  <2>6. UnreadOnce(n)'
    <3>1. Distinct(rest)
      <4>1. \A i, j \in 1..(Len(s) - k) : k + i = k + j => i = j
        OBVIOUS
      <4>2. \A i \in 1..Len(rest) : rest[i] = s[k + i] /\ k + i \in 1..Len(s) /\ i \in 1..(Len(s) - k)
        BY <2>2, <2>4
      <4>. QED
        BY <2>3, <4>1, <4>2 DEF Distinct
    <3>2. \A i \in 1..Len(rest) : \E d \in Calls : d = rest[i] /\ Unstarted(d, n)'
      <4>1. \A i \in 1..(Len(s) - k) : k + i \in 2..Len(s)
        OBVIOUS
      <4>2. ASSUME NEW i \in 1..Len(rest)
            PROVE  rest[i] = s[k + i] /\ k + i \in 2..Len(s)
        BY <2>2, <4>1
      <4>. QED
        BY <2>5, <4>2
    <3>. QED
      BY <2>1, <3>1, <3>2 DEF UnreadOnce
  <2>7. ASSUME NEW d \in Calls
        PROVE  /\ InLines(d, rest) => InLines(d, s)
               /\ InLines(d, read) => InLines(d, s)
    <3>1. s \in Seq(Calls)
      OBVIOUS
    <3>. QED
      BY <3>1, StillInLines DEF read, rest
  <2>8. ASSUME NEW lines \in work[n]
        PROVE  /\ HandlerStarted(lines[1], n)'
               /\ Distinct(lines)
               /\ \A i \in 2..Len(lines) :
                    /\ Unstarted(lines[i], n)'
                    /\ ~InLines(lines[i], rest)
                    /\ \A more \in work[n] \cup {read} : InLines(lines[i], more) => more = lines
    <3>1. /\ 1 \in 1..Len(lines)
          /\ \A i \in 2..Len(lines) : i \in 1..Len(lines)
      OBVIOUS
    <3>2. ASSUME NEW i \in 2..Len(lines)
          PROVE  ~InLines(lines[i], s) /\ lines[i] # c /\ Unstarted(lines[i], n)'
      <4>1. ~InLines(lines[i], s) /\ Unstarted(lines[i], n)
        BY DEF BehindHandler
      <4>2. lines[i] # c
        BY <1>2, <4>1 DEF InLines
      <4>. QED
        BY <1>4, <1>6, <3>1, <4>1, <4>2
    <3>3. ASSUME NEW i \in 2..Len(lines), NEW more \in work[n] \cup {read}, InLines(lines[i], more)
          PROVE  more = lines
      BY <2>7, <3>1, <3>2, <3>3 DEF BehindHandler
    <3>4. HandlerStarted(lines[1], n)' /\ Distinct(lines)
      BY <1>4, <1>6, <3>1 DEF BehindHandler
    <3>. QED
      BY <2>7, <3>1, <3>2, <3>3, <3>4
  <2>9. /\ read[1] = c /\ HandlerStarted(c, n)'
        /\ Distinct(read)
        /\ \A i \in 2..Len(read) :
             /\ \E d \in Calls : d = read[i] /\ Unstarted(d, n)'
             /\ ~InLines(read[i], rest)
             /\ \A more \in work[n] \cup {read} : InLines(read[i], more) => more = read
    <3>1. read[1] = c /\ HandlerStarted(c, n)'
      <4>1. read[1] = c
        BY <1>0, <1>2, <2>2
      <4>2. HandlerStarted(c, n)'
        BY <1>0, <1>2, <1>3 DEF HandlerStarted, TypeOK
      <4>. QED
        BY <4>1, <4>2
    <3>2. Distinct(read)
      BY <2>2, <2>3, <2>4 DEF Distinct
    <3>3. \A i \in 2..Len(read) : i \in 1..k /\ i \in 2..Len(s) /\ read[i] = s[i]
      BY <2>2
    <3>4. ASSUME NEW i \in 2..Len(read)
          PROVE  ~InLines(read[i], rest)
      <4>1. \A j \in 1..(Len(s) - k) : k + j # i
        <5>1. k \in Nat /\ i \in 1..k
          BY <3>3
        <5>2. ASSUME NEW j \in 1..(Len(s) - k)
              PROVE  k + j # i
          <6>1. Len(s) \in Nat
            OBVIOUS
          <6>2. j \in Nat /\ j >= 1
            BY <5>1, <6>1
          <6>. QED
            BY ONLY <5>1, <6>2
        <5>. QED
          BY <5>2
      <4>2. ASSUME NEW j \in 1..Len(rest)
            PROVE  rest[j] # read[i]
        <5>1. j \in 1..(Len(s) - k) /\ rest[j] = s[k + j]
          BY <2>2
        <5>2. k + j \in 1..Len(s) /\ k + j # i
          BY <2>4, <4>1, <5>1
        <5>3. i \in 1..Len(s) /\ read[i] = s[i]
          BY <2>4, <3>3
        <5>. QED
          BY <2>3, <5>1, <5>2, <5>3
      <4>. QED
        BY <4>2 DEF InLines
    <3>5. ASSUME NEW i \in 2..Len(read), NEW more \in work[n], InLines(read[i], more)
          PROVE  FALSE
      <4>1. PICK j \in 1..Len(more) : more[j] = s[i]
        BY <3>3, <3>5 DEF InLines
      <4>2. runs[s[i]] = 0 /\ InLines(s[i], s)
        BY <2>4, <3>3 DEF UnreadOnce, Unstarted, InLines
      <4>3. j = 1 \/ j \in 2..Len(more)
        OBVIOUS
      <4>. QED
        BY <4>1, <4>2, <4>3 DEF BehindHandler, HandlerStarted
    <3>. QED
      BY <2>5, <3>1, <3>2, <3>3, <3>4, <3>5
  <2>10. BehindHandler(n)'
    BY <2>1, <2>8, <2>9 DEF BehindHandler
  <2>11. AnswersFollow(n)'
    BY <1>3, <1>4, <1>6 DEF AnswersFollow
  <2>. QED
    BY <1>6, <2>6, <2>10, <2>11 DEF WiresInv
<1>7. Unstarted(c, n)
  BY <1>2 DEF UnreadOnce
<1>. QED
  BY <1>3, <1>5, <1>6, <1>7

\* A handler returns: its answer is written, and the handler of the next line
\* is started.
LEMMA HandledKeepsWires ==
  ASSUME RpcInv, NEW c \in Calls, NEW n \in Conns, NEW lines \in work[n],
         NEW outcome \in {"ok", "failed"}, Handled(c, n, lines, outcome), NEW m \in Conns
  PROVE  WiresInv(m)'
<1>0. TypeOK /\ HandlerStarted(c, n)
  <2>1. lines \in Seq(Calls) /\ lines # <<>>
    BY OneConnection
  <2>2. lines[1] = c
    BY <2>1, HeadAndTail DEF Handled
  <2>. QED
    BY <2>2, OneConnection DEF RpcInv, BehindHandler
<1>1. UNCHANGED <<call, on, toServer>>
  BY DEF Handled
<1>2. /\ lines \in Seq(Calls) /\ Len(lines) \in Nat \ {0} /\ lines[1] = c
      /\ Tail(lines) \in Seq(Calls) /\ Len(Tail(lines)) = Len(lines) - 1
      /\ \A i \in 1..Len(Tail(lines)) : Tail(lines)[i] = lines[i + 1]
  <2>1. lines \in Seq(Calls) /\ lines # <<>>
    BY OneConnection
  <2>. QED
    BY <2>1, HeadAndTail DEF Handled
<1>3. \A d \in Calls : HandlerStarted(d, m) => HandlerStarted(d, m)'
  <2>1. CASE Len(lines) > 1
    <3>1. 2 \in 1..Len(lines) /\ 2 \in 2..Len(lines)
      BY <1>2, <2>1
    <3>2. runs[lines[2]] = 0 /\ lines[2] \in Calls
      BY <3>1, OneConnection DEF BehindHandler, Unstarted
    <3>. QED
      BY <1>0, <1>1, <2>1, <3>2 DEF Handled, Started, HandlerStarted, TypeOK
  <2>2. CASE ~(Len(lines) > 1)
    BY <1>1, <2>2 DEF Handled, HandlerStarted
  <2>. QED
    BY <2>1, <2>2
<1>4. AnswersFollow(m)'
  <2>1. CASE toClient'[m] = toClient[m]
    <3>1. \A i \in 1..Len(toClient[m]) : toClient[m][i].id \in Calls /\ HandlerStarted(toClient[m][i].id, m)
      BY OneConnection DEF AnswersFollow
    <3>2. \A i \in 1..Len(toClient[m]) : \E d \in Calls : d = toClient[m][i].id /\ HandlerStarted(d, m)'
      BY <1>3, <3>1
    <3>. QED
      BY <2>1, <3>2 DEF AnswersFollow
  <2>2. CASE m = n /\ toClient'[m] = Append(toClient[m], [id |-> c, outcome |-> outcome])
    <3>0. toClient[m] \in Seq(Response) /\ [id |-> c, outcome |-> outcome] \in Response
      BY <1>0 DEF TypeOK, Response
    <3>1. /\ Len(toClient'[m]) = Len(toClient[m]) + 1
          /\ \A i \in 1..Len(toClient[m]) : toClient'[m][i] = toClient[m][i]
          /\ toClient'[m][Len(toClient[m]) + 1] = [id |-> c, outcome |-> outcome]
      BY <2>2, <3>0, AppendProperties
    <3>2. \A i \in 1..Len(toClient[m]) : toClient[m][i].id \in Calls /\ HandlerStarted(toClient[m][i].id, m)
      BY OneConnection DEF AnswersFollow
    <3>3. \A i \in 1..Len(toClient[m]) : \E d \in Calls : d = toClient[m][i].id /\ HandlerStarted(d, m)'
      BY <1>3, <3>2
    <3>4. HandlerStarted(c, m)'
      BY <1>0, <1>3, <2>2
    <3>5. Len(toClient[m]) \in Nat
      BY OneConnection
    <3>6. \A i \in 1..Len(toClient'[m]) : i \in 1..Len(toClient[m]) \/ i = Len(toClient[m]) + 1
      BY <3>1, <3>5
    <3>7. \A i \in 1..Len(toClient'[m]) : \E d \in Calls : d = toClient'[m][i].id /\ HandlerStarted(d, m)'
      BY <3>1, <3>3, <3>4, <3>6, SMTT(30)
    <3>. QED
      BY <3>7 DEF AnswersFollow
  <2>. QED
    BY <1>0, <2>1, <2>2 DEF Handled, TypeOK
<1>5. CASE Len(lines) > 1
  <2>0. 2 \in 1..Len(lines) /\ 2 \in 2..Len(lines)
    BY <1>2, <1>5
  <2>1. PICK b \in Calls : b = lines[2]
    BY <2>0, OneConnection
  <2>2. runs[b] = 0 /\ on[b] = n /\ runs' = [runs EXCEPT ![b] = 1]
    <3>1. Unstarted(b, n)
      BY <2>0, <2>1, OneConnection DEF BehindHandler
    <3>. QED
      BY <1>5, <2>1, <3>1 DEF Handled, Started, Unstarted
  <2>3. \A d \in Calls : Unstarted(d, m) /\ d # b => Unstarted(d, m)'
    BY <1>0, <1>1, <2>2 DEF Unstarted, TypeOK
  <2>4. ASSUME m # n
        PROVE  WiresInv(m)'
    <3>1. toServer'[m] = toServer[m] /\ work'[m] = work[m] /\ toClient'[m] = toClient[m]
      BY <1>0, <2>4 DEF Handled, TypeOK
    <3>2. \A d \in Calls : Unstarted(d, m) => Unstarted(d, m)'
      BY <2>2, <2>3, <2>4 DEF Unstarted
    <3>. QED
      BY <1>3, <3>1, <3>2, WiresShrink
  <2>5. ASSUME m = n
        PROVE  WiresInv(m)'
    <3>. DEFINE s == toServer[n]
                left == Tail(lines)
    <3>1. toServer'[n] = s /\ work'[n] = (work[n] \ {lines}) \cup {left}
      BY <1>0, <1>5 DEF Handled, TypeOK
    <3>2. \A i \in 1..Len(lines) : lines[i] \in Calls
      BY OneConnection
    <3>3. /\ \A i \in 1..Len(left) : i + 1 \in 2..Len(lines) /\ left[i] = lines[i + 1]
          /\ 1 \in 1..Len(left)
      BY <1>2, <1>5
    <3>4. \A i, j \in 1..Len(lines) : lines[i] = lines[j] => i = j
      BY OneConnection DEF BehindHandler, Distinct
    <3>. HIDE DEF left
    <3>5. ASSUME NEW i \in 2..Len(lines)
          PROVE  /\ i \in 1..Len(lines) /\ lines[i] \in Calls
                 /\ Unstarted(lines[i], n) /\ ~InLines(lines[i], s)
                 /\ \A more \in work[n] : InLines(lines[i], more) => more = lines
      <4>1. i \in 1..Len(lines)
        BY <1>2
      <4>. QED
        BY <3>2, <4>1, OneConnection DEF BehindHandler
    <3>6. UnreadOnce(n)'
      <4>1. ASSUME NEW i \in 1..Len(s)
            PROVE  \E d \in Calls : d = s[i] /\ Unstarted(d, n)'
        <5>1. s[i] \in Calls /\ Unstarted(s[i], n) /\ InLines(s[i], s)
          BY OneConnection DEF UnreadOnce, InLines
        <5>2. s[i] # b
          BY <2>0, <2>1, <3>5, <5>1
        <5>. QED
          BY <2>3, <2>5, <5>1, <5>2
      <4>2. Distinct(s)
        BY OneConnection DEF UnreadOnce
      <4>. QED
        BY <3>1, <4>1, <4>2 DEF UnreadOnce
    <3>7. ASSUME NEW more \in work[n] \ {lines}
          PROVE  /\ more[1] \in Calls /\ HandlerStarted(more[1], n)
                 /\ Distinct(more)
                 /\ \A i \in 2..Len(more) :
                      /\ \E d \in Calls : d = more[i] /\ Unstarted(d, n)'
                      /\ ~InLines(more[i], s)
                      /\ \A third \in work'[n] : InLines(more[i], third) => third = more
      <4>1. /\ 1 \in 1..Len(more) /\ \A i \in 2..Len(more) : i \in 1..Len(more)
            /\ \A i \in 1..Len(more) : more[i] \in Calls
        BY OneConnection
      <4>2. BehindHandler(n)
        BY OneConnection
      <4>3. ASSUME NEW i \in 2..Len(more)
            PROVE  ~InLines(more[i], lines) /\ more[i] # b
        <5>1. ~InLines(more[i], lines)
          BY <4>2 DEF BehindHandler
        <5>. QED
          BY <2>0, <2>1, <5>1 DEF InLines
      <4>4. ASSUME NEW i \in 2..Len(more)
            PROVE  ~InLines(more[i], left)
        <5>1. \A j \in 1..Len(left) : j + 1 \in 1..Len(lines)
          BY <3>3, <3>5
        <5>. QED
          BY <3>3, <4>3, <5>1 DEF InLines
      <4>5. ASSUME NEW i \in 2..Len(more)
            PROVE  \E d \in Calls : d = more[i] /\ Unstarted(d, n)'
        <5>1. Unstarted(more[i], n)
          BY <4>2 DEF BehindHandler
        <5>. QED
          BY <2>3, <2>5, <4>1, <4>3, <5>1
      <4>. QED
        BY <3>1, <4>1, <4>2, <4>3, <4>4, <4>5 DEF BehindHandler
    <3>8. /\ left[1] = b /\ HandlerStarted(b, n)'
          /\ Distinct(left)
          /\ \A i \in 2..Len(left) :
               /\ \E d \in Calls : d = left[i] /\ Unstarted(d, n)'
               /\ ~InLines(left[i], s)
               /\ \A more \in work'[n] : InLines(left[i], more) => more = left
      <4>1. left[1] = b /\ HandlerStarted(b, n)'
        BY <1>0, <1>1, <2>1, <2>2, <3>3 DEF HandlerStarted, TypeOK
      <4>2. \A i \in 2..Len(left) : /\ i \in 1..Len(left) /\ i + 1 \in 2..Len(lines)
                                    /\ left[i] = lines[i + 1] /\ lines[i + 1] # b
        BY <1>2, <2>0, <2>1, <3>3, <3>4, <3>5
      <4>3. Distinct(left)
        <5>1. \A i, j \in 1..Len(left) : i + 1 = j + 1 => i = j
          OBVIOUS
        <5>. QED
          BY <3>3, <3>4, <3>5, <5>1 DEF Distinct
      <4>4. ASSUME NEW i \in 2..Len(left), NEW more \in work'[n], InLines(left[i], more)
            PROVE  more = left
        <5>1. \/ more \in work[n] /\ more # lines
              \/ more = left
          BY <3>1
        <5>. QED
          BY <3>5, <4>2, <4>4, <5>1
      <4>. QED
        BY <2>3, <2>5, <3>5, <4>1, <4>2, <4>3, <4>4
    <3>9. BehindHandler(n)'
      <4>1. ASSUME NEW more \in work'[n]
            PROVE  /\ HandlerStarted(more[1], n)'
                   /\ Distinct(more)
                   /\ \A i \in 2..Len(more) :
                        /\ Unstarted(more[i], n)'
                        /\ ~InLines(more[i], s)
                        /\ \A third \in work'[n] : InLines(more[i], third) => third = more
        <5>1. CASE more = left
          BY <3>8, <5>1
        <5>2. CASE more \in work[n] \ {lines}
          BY <1>3, <2>5, <3>7, <5>2
        <5>. QED
          BY <3>1, <5>1, <5>2
      <4>. QED
        BY <3>1, <4>1 DEF BehindHandler
    <3>. QED
      BY <1>4, <2>5, <3>6, <3>9 DEF WiresInv
  <2>. QED
    BY <2>4, <2>5
<1>6. CASE ~(Len(lines) > 1)
  <2>1. runs' = runs /\ (m # n => work'[m] = work[m]) /\ work'[n] = work[n] \ {lines}
    BY <1>0, <1>6 DEF Handled, TypeOK
  <2>2. \A d \in Calls : Unstarted(d, m) => Unstarted(d, m)'
    BY <1>1, <2>1 DEF Unstarted
  <2>3. UnreadOnce(m) /\ BehindHandler(m)
    BY OneConnection
  <2>4. UnreadOnce(m)'
    <3>1. toServer'[m] = toServer[m]
      BY <1>1
    <3>2. \A i \in 1..Len(toServer[m]) : \E d \in Calls : d = toServer[m][i] /\ Unstarted(d, m)'
      BY <2>2, <2>3, OneConnection DEF UnreadOnce
    <3>. QED
      BY <2>3, <3>1, <3>2 DEF UnreadOnce
  <2>5. BehindHandler(m)'
    <3>1. ASSUME NEW more \in work[m]
          PROVE  /\ 1 \in 1..Len(more) /\ \A i \in 2..Len(more) : i \in 1..Len(more)
                 /\ \A i \in 1..Len(more) : more[i] \in Calls
      BY OneConnection
    <3>2. work'[m] \subseteq work[m] /\ toServer'[m] = toServer[m]
      BY <1>1, <2>1
    <3>. QED
      BY <1>3, <2>2, <2>3, <3>1, <3>2 DEF BehindHandler
  <2>. QED
    BY <1>4, <2>4, <2>5 DEF WiresInv
<1>. QED
  BY <1>5, <1>6

\* A call that connects, settles or waits was not started by that.
LEMMA CallsKeepRequests ==
  ASSUME RpcInv, NEW n \in Conns, runs' = runs,
         \A c \in Calls : /\ on'[c] # on[c] => call[c] \in {"idle", "connecting"}
                          /\ call'[c] \in {"idle", "connecting"} => call[c] \in {"idle", "connecting"}
  PROVE  \A c \in Calls : /\ Unstarted(c, n) => Unstarted(c, n)'
                          /\ HandlerStarted(c, n) => HandlerStarted(c, n)'
BY DEF RpcInv, RunsFollowCalls, Unstarted, HandlerStarted

\* What a received line settles had its handler started, on that connection.
LEMMA ReceivedWasStarted ==
  ASSUME RpcInv, NEW n \in Conns, Receive(n)
  PROVE  /\ Head(toClient[n]) \in Response /\ Head(toClient[n]).id \in Calls
         /\ HandlerStarted(Head(toClient[n]).id, n)
<1>1. toClient[n] \in Seq(Response) /\ toClient[n] # <<>>
  BY OneConnection DEF Receive
<1>2. Head(toClient[n]) = toClient[n][1] /\ 1 \in 1..Len(toClient[n])
  BY <1>1, HeadAndTail
<1>. QED
  BY <1>2, OneConnection DEF AnswersFollow

\* What a step does to a call: it is sent, waits once its connection is there,
\* and is settled while it waits; answered only after its handler was started.
Moves(c) ==
  \/ call[c] = "idle" /\ call'[c] \in {"connecting", "waiting"}
  \/ call[c] = "connecting" /\ call'[c] \in {"waiting", "failed"}
  \/ call[c] = "waiting" /\ call'[c] = "failed"
  \/ call[c] = "waiting" /\ call'[c] = "ok" /\ runs[c] = 1

LEMMA CallsMove ==
  ASSUME RpcInv, Next
  PROVE  /\ \A c \in Calls : on'[c] # on[c] => \/ call[c] = "idle"
                                               \/ call[c] = "connecting" /\ call'[c] = "waiting"
         /\ \A c \in Calls : call'[c] # call[c] => Moves(c)
<1>0. TypeOK
  BY DEF RpcInv
<1>1. CASE \E c \in Calls : CallOnSocket(c)
  BY <1>0, <1>1 DEF CallOnSocket, Moves, TypeOK
<1>2. CASE \E c \in Calls, n \in Conns : CallConnects(c, n)
  BY <1>0, <1>2 DEF CallConnects, Moves, TypeOK
<1>3. CASE \E c \in Calls, n \in Conns : Connected(c, n) \/ ConnectFails(c, n)
  BY <1>0, <1>3 DEF Connected, ConnectFails, Moves, TypeOK
<1>4. CASE (\E c \in Calls : WriteFails(c)) \/ \E n \in Conns : Close(n)
  BY <1>0, <1>4 DEF WriteFails, Close, RejectAll, Settle, Moves, TypeOK
<1>5. CASE \E n \in Conns : Receive(n)
  <2>1. PICK n \in Conns : Receive(n)
    BY <1>5
  <2>2. /\ Head(toClient[n]).outcome \in {"ok", "failed"}
        /\ runs[Head(toClient[n]).id] = 1
    BY <2>1, ReceivedWasStarted DEF Response, HandlerStarted
  <2>. QED
    BY <1>0, <2>1, <2>2 DEF Receive, HandleResponse, Settle, Moves, TypeOK
<1>6. CASE \/ Disconnect \/ ServerDies \/ ServerStarts
           \/ \E n \in Conns : ReceivePart(n) \/ ServerReads(n)
           \/ \E c \in Calls : HandlerReturns(c)
  BY <1>6 DEF Disconnect, ServerDies, ServerStarts, ReceivePart, ServerReads, HandlerReturns, Handled
<1>. QED
  BY <1>1, <1>2, <1>3, <1>4, <1>5, <1>6 DEF Next, ConnectSettles

LEMMA WiresStep ==
  ASSUME RpcInv, Next, NEW m \in Conns
  PROVE  WiresInv(m)'
<1>0. TypeOK /\ on \in [Calls -> 0..MaxConn] /\ call \in [Calls -> Outcomes] /\ pending \subseteq Calls
  BY DEF RpcInv, TypeOK
<1>1. ASSUME NEW c \in Calls, CallOnSocket(c)
      PROVE  WiresInv(m)'
  <2>1. socket \in Conns
    BY <1>0, <1>1 DEF CallOnSocket, NoSocket, TypeOK, Conns
  <2>. QED
    BY <1>1, <2>1, WriteKeepsWires DEF CallOnSocket
<1>2. ASSUME NEW c \in Calls, NEW n \in Conns, Connected(c, n)
      PROVE  WiresInv(m)'
  <2>1. CASE socket # 0
    <3>1. socket \in Conns
      BY <1>0, <2>1 DEF TypeOK, Conns
    <3>. QED
      BY <1>2, <2>1, <3>1, WriteKeepsWires DEF Connected
  <2>2. CASE socket = 0
    <3>1. UNCHANGED <<on, runs, toServer, work, toClient>> /\ call' = [call EXCEPT ![c] = "failed"]
      BY <1>2, <2>2 DEF Connected
    <3>2. \A d \in Calls : call'[d] \in {"idle", "connecting"} => call[d] \in {"idle", "connecting"}
      BY <1>0, <3>1
    <3>. QED
      BY <3>1, <3>2, CallsKeepRequests, WiresShrink
  <2>. QED
    BY <2>1, <2>2
<1>3. ASSUME NEW n \in Conns, ServerReads(n)
      PROVE  WiresInv(m)'
  BY <1>3, ReadKeepsWires
<1>4. ASSUME NEW c \in Calls, HandlerReturns(c)
      PROVE  WiresInv(m)'
  <2>1. PICK n \in Conns : \E lines \in work[n], outcome \in {"ok", "failed"} : Handled(c, n, lines, outcome)
    BY <1>4 DEF HandlerReturns
  <2>. QED
    BY <2>1, HandledKeepsWires
<1>5. CASE \/ \E c \in Calls : WriteFails(c) \/ \E n \in Conns : CallConnects(c, n) \/ ConnectFails(c, n)
           \/ \E n \in Conns : Close(n) \/ ReceivePart(n) \/ Receive(n)
           \/ Disconnect \/ ServerDies \/ ServerStarts
  <2>1. \A c \in Calls : /\ on'[c] # on[c] => call[c] \in {"idle", "connecting"}
                         /\ call'[c] \in {"idle", "connecting"} => call[c] \in {"idle", "connecting"}
    BY CallsMove DEF Moves
  <2>2. runs' = runs
    BY <1>5 DEF WriteFails, CallConnects, ConnectFails, Close, ReceivePart, Receive, Disconnect,
                ServerDies, ServerStarts, wires
  <2>3. toServer'[m] \in {toServer[m], <<>>}
    <3>1. CASE Disconnect
      BY <1>0, <3>1 DEF Disconnect, TypeOK
    <3>. QED
      BY <1>0, <1>5, <3>1 DEF WriteFails, CallConnects, ConnectFails, Close, ReceivePart, Receive,
                              ServerDies, ServerStarts, wires, TypeOK
  <2>4. work'[m] \in {work[m], {}}
    BY <1>5 DEF WriteFails, CallConnects, ConnectFails, Close, ReceivePart, Receive, Disconnect,
                ServerDies, ServerStarts, wires
  <2>5. \/ toClient'[m] \in {toClient[m], <<>>}
        \/ toClient[m] # <<>> /\ toClient'[m] = Tail(toClient[m])
    <3>1. CASE Disconnect
      BY <1>0, <3>1 DEF Disconnect, TypeOK
    <3>. QED
      BY <1>0, <1>5, <3>1 DEF WriteFails, CallConnects, ConnectFails, Close, ReceivePart, Receive,
                              ServerDies, ServerStarts, wires, TypeOK
  <2>. QED
    BY <2>1, <2>2, <2>3, <2>4, <2>5, CallsKeepRequests, WiresShrink
<1>. QED
  BY <1>1, <1>2, <1>3, <1>4, <1>5 DEF Next, ConnectSettles

-----------------------------------------------------------------------------
(* Handlers and calls                                                      *)

\* A step starts the handlers of requests on their way, and no other.
LEMMA RunsGrow ==
  ASSUME RpcInv, Next
  PROVE  \/ runs' = runs
         \/ /\ UNCHANGED <<call, on>>
            /\ \E c \in Calls, n \in Conns : Unstarted(c, n) /\ runs' = Started(c)
<1>1. ASSUME NEW n \in Conns, ServerReads(n)
      PROVE  \E c \in Calls : Unstarted(c, n) /\ runs' = Started(c)
  BY <1>1, ReadKeepsWires
<1>2. ASSUME NEW c \in Calls, HandlerReturns(c)
      PROVE  runs' = runs \/ \E b \in Calls, n \in Conns : Unstarted(b, n) /\ runs' = Started(b)
  <2>0. PICK n \in Conns : \E lines \in work[n], outcome \in {"ok", "failed"} : Handled(c, n, lines, outcome)
    BY <1>2 DEF HandlerReturns
  <2>1. PICK lines \in work[n] : \E outcome \in {"ok", "failed"} : Handled(c, n, lines, outcome)
    BY <2>0
  <2>2. /\ Len(lines) \in Nat
        /\ \A i \in 1..Len(lines) : lines[i] \in Calls
        /\ BehindHandler(n)
    BY OneConnection
  <2>3. CASE Len(lines) > 1
    <3>1. 2 \in 1..Len(lines) /\ 2 \in 2..Len(lines)
      BY <2>2, <2>3
    <3>2. lines[2] \in Calls /\ Unstarted(lines[2], n)
      BY <2>2, <3>1 DEF BehindHandler
    <3>. QED
      BY <2>1, <2>3, <3>2 DEF Handled
  <2>. QED
    BY <2>1, <2>3 DEF Handled
<1>3. (\E n \in Conns : ServerReads(n)) \/ (\E c \in Calls : HandlerReturns(c)) => UNCHANGED <<call, on>>
  BY DEF ServerReads, HandlerReturns, Handled
<1>. QED
  BY <1>1, <1>2, <1>3 DEF Next, ConnectSettles, CallOnSocket, WriteFails, CallConnects, Connected,
     ConnectFails, Close, ReceivePart, Receive, Disconnect, ServerDies, ServerStarts, wires

LEMMA RunsStep ==
  ASSUME RpcInv, Next
  PROVE  RunsFollowCalls'
<1>0. TypeOK /\ RunsFollowCalls
  BY DEF RpcInv
<1>1. CASE runs' # runs
  BY <1>0, <1>1, RunsGrow DEF RunsFollowCalls, Unstarted, Started, TypeOK
<1>2. CASE runs' = runs
  <2>1. ASSUME NEW c \in Calls, call'[c] \in {"idle", "connecting"}
        PROVE  call[c] \in {"idle", "connecting"}
    BY <2>1, CallsMove DEF Moves
  <2>2. ASSUME NEW c \in Calls, call'[c] = "ok"
        PROVE  runs[c] = 1
    BY <1>0, <2>2, CallsMove DEF Moves, RunsFollowCalls
  <2>. QED
    BY <1>0, <1>2, <2>1, <2>2 DEF RunsFollowCalls
<1>. QED
  BY <1>1, <1>2

-----------------------------------------------------------------------------
(* Connections                                                             *)

\* What a step does to a connection.
LinkMoves(n) ==
  \/ link[n] = "none" /\ link'[n] = "connecting" /\ socket = 0 /\ socket' = n
  \/ link[n] = "connecting" /\ link'[n] \in {"open", "dying"}
  \/ link[n] = "open" /\ link'[n] \in {"ending", "dying"}
  \/ link[n] = "ending" /\ link'[n] = "dying" /\ socket = n
  \/ link[n] \in {"ending", "dying"} /\ link'[n] = "closed" /\ socket' = 0

LEMMA LinksMove ==
  ASSUME RpcInv, Next
  PROVE  /\ \A n \in Conns : link'[n] # link[n] => LinkMoves(n)
         /\ cut \subseteq cut'
         /\ \/ socket' = socket
            \/ socket' = 0 /\ cut' # {}
            \/ socket' = 0 /\ \E n \in Conns : link[n] \in {"ending", "dying"} /\ link'[n] = "closed"
            \/ socket = 0 /\ socket' \in Conns /\ link[socket'] = "none" /\ link'[socket'] = "connecting"
<1>0. TypeOK
  BY DEF RpcInv
<1>1. CASE \E c \in Calls, n \in Conns : CallConnects(c, n)
  BY <1>0, <1>1 DEF CallConnects, LinkMoves, TypeOK, NoSocket
<1>2. CASE \E c \in Calls, n \in Conns : Connected(c, n) \/ ConnectFails(c, n)
  BY <1>0, <1>2 DEF Connected, ConnectFails, LinkMoves, TypeOK
<1>3. CASE \E n \in Conns : Close(n)
  BY <1>0, <1>3 DEF Close, LinkMoves, TypeOK
<1>4. CASE Disconnect
  <2>1. socket \in Conns /\ link[socket] \notin {"none", "closed"}
    BY <1>0, <1>4 DEF Disconnect, TypeOK, Conns, RpcInv, ConnectionsInv
  <2>2. cut' = cut \cup {socket} /\ socket' = 0 /\ link' = [link EXCEPT ![socket] = "dying"]
    BY <1>4 DEF Disconnect
  <2>3. \A n \in Conns : link'[n] # link[n] => LinkMoves(n)
    BY <1>0, <2>1, <2>2 DEF LinkMoves, TypeOK
  <2>. QED
    BY <2>2, <2>3
<1>5. CASE ServerDies
  BY <1>0, <1>5 DEF ServerDies, LinkMoves, TypeOK
<1>6. CASE \/ ServerStarts
           \/ \E n \in Conns : ReceivePart(n) \/ Receive(n) \/ ServerReads(n)
           \/ \E c \in Calls : CallOnSocket(c) \/ WriteFails(c) \/ HandlerReturns(c)
  BY <1>6 DEF ServerStarts, ReceivePart, Receive, ServerReads, CallOnSocket, WriteFails,
              HandlerReturns, Handled
<1>. QED
  BY <1>1, <1>2, <1>3, <1>4, <1>5, <1>6 DEF Next, ConnectSettles

\* A call that goes on its way goes on a connection that has been opened; one
\* that connects, on a new one.
LEMMA CallsGoOut ==
  ASSUME RpcInv, Next, NEW c \in Calls, call[c] = "idle", call'[c] # "idle"
  PROVE  /\ on'[c] \in Conns /\ link'[on'[c]] # "none"
         /\ \A d \in Calls : call'[d] # call[d] => d = c
         /\ call'[c] = "connecting" => link[on'[c]] = "none" /\ link'[on'[c]] = "connecting"
         /\ call'[c] = "waiting" => CallOnSocket(c)
<1>0. TypeOK /\ ConnectionsInv
  BY DEF RpcInv
<1>1. CASE CallOnSocket(c)
  BY <1>0, <1>1 DEF CallOnSocket, NoSocket, TypeOK, Conns, ConnectionsInv
<1>2. CASE \E n \in Conns : CallConnects(c, n)
  BY <1>0, <1>2 DEF CallConnects, TypeOK
<1>3. ASSUME NEW d \in Calls, d # c, CallOnSocket(d) \/ \E n \in Conns : CallConnects(d, n)
      PROVE  FALSE
  BY <1>0, <1>3 DEF CallOnSocket, CallConnects, TypeOK
<1>4. CASE \E n \in Conns : Receive(n)
  BY <1>0, <1>4, ReceivedWasStarted DEF Receive, HandleResponse, Settle, TypeOK
<1>5. CASE \/ \E d \in Calls : WriteFails(d)
           \/ \E n \in Conns : Close(n) \/ ConnectSettles(n)
  BY <1>0, <1>5 DEF WriteFails, Settle, Close, RejectAll, ConnectSettles, Connected, ConnectFails, TypeOK
<1>6. CASE \/ Disconnect \/ ServerDies \/ ServerStarts
           \/ \E n \in Conns : ReceivePart(n) \/ ServerReads(n)
           \/ \E d \in Calls : HandlerReturns(d)
  BY <1>6 DEF Disconnect, ServerDies, ServerStarts, ReceivePart, ServerReads, HandlerReturns, Handled
<1>. QED
  BY <1>1, <1>2, <1>3, <1>4, <1>5, <1>6 DEF Next

\* A call that waited for its connection waits for its answer once that is made.
LEMMA CallsWait ==
  ASSUME RpcInv, Next, NEW c \in Calls, call[c] = "connecting", call'[c] = "waiting"
  PROVE  \E n \in Conns : Connected(c, n)
<1>0. TypeOK
  BY DEF RpcInv
<1>1. ASSUME NEW n \in Conns, Receive(n)
      PROVE  FALSE
  <2>1. Head(toClient[n]).outcome \in {"ok", "failed"}
    BY <1>1, ReceivedWasStarted DEF Response
  <2>. QED
    BY <1>0, <1>1, <2>1 DEF Receive, HandleResponse, Settle, TypeOK
<1>2. CASE \E n \in Conns, d \in Calls : CallConnects(d, n)
  BY <1>0, <1>2 DEF CallConnects, TypeOK
<1>3. ASSUME NEW n \in Conns, ConnectSettles(n)
      PROVE  Connected(c, n)
  BY <1>0, <1>3 DEF ConnectSettles, Connected, ConnectFails, TypeOK
<1>4. CASE \/ \E d \in Calls : WriteFails(d) \/ CallOnSocket(d)
           \/ \E n \in Conns : Close(n)
  BY <1>0, <1>4 DEF WriteFails, CallOnSocket, Settle, Close, RejectAll, TypeOK
<1>5. CASE \/ Disconnect \/ ServerDies \/ ServerStarts
           \/ \E n \in Conns : ReceivePart(n) \/ ServerReads(n)
           \/ \E d \in Calls : HandlerReturns(d)
  BY <1>5 DEF Disconnect, ServerDies, ServerStarts, ReceivePart, ServerReads, HandlerReturns, Handled
<1>. QED
  BY <1>1, <1>2, <1>3, <1>4, <1>5 DEF Next

\* Only its "close" event closes a connection.
LEMMA LinksClose ==
  ASSUME RpcInv, Next, NEW n \in Conns, link'[n] = "closed", link[n] # "closed"
  PROVE  Close(n)
<1>0. TypeOK
  BY DEF RpcInv
<1>1. CASE Disconnect \/ ServerDies
  BY <1>0, <1>1 DEF Disconnect, ServerDies, TypeOK
<1>2. CASE \E d \in Calls, m \in Conns : CallConnects(d, m) \/ Connected(d, m) \/ ConnectFails(d, m)
  BY <1>0, <1>2 DEF CallConnects, Connected, ConnectFails, TypeOK
<1>3. ASSUME NEW m \in Conns, Close(m)
      PROVE  m = n
  BY <1>0, <1>3 DEF Close, TypeOK
<1>4. CASE UNCHANGED link
  BY <1>4
<1>. QED
  BY <1>1, <1>2, <1>3, <1>4 DEF Next, ConnectSettles, ServerStarts, ReceivePart, Receive, ServerReads,
     CallOnSocket, WriteFails, HandlerReturns, Handled

LEMMA ConnectionsStep ==
  ASSUME RpcInv, Next
  PROVE  ConnectionsInv'
<1>0. TypeOK /\ ConnectionsInv
  BY DEF RpcInv
<1>1. ASSUME NEW c \in Calls, call'[c] # "idle"
      PROVE  on'[c] \in Conns /\ link'[on'[c]] # "none"
  <2>1. CASE call[c] = "idle"
    BY <1>1, <2>1, CallsGoOut
  <2>2. CASE call[c] # "idle" /\ on'[c] = on[c]
    BY <1>0, <2>2, LinksMove DEF ConnectionsInv, LinkMoves
  <2>3. CASE call[c] = "connecting" /\ call'[c] = "waiting" /\ on'[c] # on[c]
    <3>1. PICK n \in Conns : Connected(c, n)
      BY <2>3, CallsWait
    <3>2. socket # 0 /\ on'[c] = socket
      BY <1>0, <2>3, <3>1 DEF Connected, TypeOK
    <3>3. socket \in Conns /\ link[socket] # "none"
      BY <1>0, <3>2 DEF ConnectionsInv, TypeOK, Conns
    <3>. QED
      BY <1>0, <3>2, <3>3, LinksMove DEF LinkMoves
  <2>. QED
    BY <2>1, <2>2, <2>3, CallsMove
<1>2. ASSUME NEW n \in Conns, link'[n] = "connecting"
      PROVE  work'[n] = {}
  <2>1. work[n] = {}
    <3>1. CASE link[n] = "connecting"
      BY <1>0, <3>1 DEF ConnectionsInv
    <3>2. CASE link[n] = "none"
      <4>1. ASSUME NEW lines \in work[n]
            PROVE  lines[1] \in Calls /\ HandlerStarted(lines[1], n)
        BY OneConnection DEF BehindHandler
      <4>2. \A c \in Calls : HandlerStarted(c, n) => FALSE
        BY <1>0, <3>2 DEF HandlerStarted, ConnectionsInv, RpcInv, RunsFollowCalls
      <4>. QED
        BY <4>1, <4>2
    <3>. QED
      BY <1>2, <3>1, <3>2, LinksMove DEF LinkMoves
  <2>2. ASSUME NEW m \in Conns, ServerReads(m), m = n
        PROVE  FALSE
    BY <1>2, <2>2 DEF ServerReads
  <2>3. ASSUME NEW m \in Conns, NEW lines \in work[m], NEW c \in Calls,
               NEW outcome \in {"ok", "failed"}, Handled(c, m, lines, outcome)
        PROVE  work'[n] = work[n]
    BY <1>0, <2>1, <2>3 DEF Handled, TypeOK
  <2>. QED
    <3>1. CASE \E m \in Conns : ServerReads(m)
      BY <1>0, <2>1, <2>2, <3>1 DEF ServerReads, TypeOK
    <3>2. CASE \E c \in Calls : HandlerReturns(c)
      BY <2>1, <2>3, <3>2 DEF HandlerReturns
    <3>3. CASE ServerDies
      BY <3>3 DEF ServerDies
    <3>4. CASE UNCHANGED work
      BY <2>1, <3>4
    <3>. QED
      BY <3>1, <3>2, <3>3, <3>4 DEF Next, ConnectSettles, CallOnSocket, WriteFails, CallConnects,
         Connected, ConnectFails, Close, ReceivePart, Receive, Disconnect, ServerStarts, wires
<1>3. ASSUME socket' # 0
      PROVE  link'[socket'] \notin {"none", "closed"}
  BY <1>0, <1>3, LinksMove DEF ConnectionsInv, LinkMoves, TypeOK, Conns
<1>4. ASSUME NEW c \in Calls, NEW d \in Calls,
             call'[c] = "connecting", call'[d] = "connecting", on'[c] = on'[d]
      PROVE  c = d
  <2>1. ASSUME NEW a \in Calls, NEW b \in Calls, a # b, call[a] = "idle",
               call'[a] = "connecting", call'[b] = "connecting", on'[a] = on'[b]
        PROVE  FALSE
    <3>1. link[on'[a]] = "none" /\ call'[b] = call[b]
      BY <2>1, CallsGoOut
    <3>2. on'[b] = on[b]
      BY <2>1, <3>1, CallsMove
    <3>. QED
      BY <1>0, <2>1, <3>1, <3>2 DEF ConnectionsInv
  <2>2. CASE call[c] # "idle" /\ call[d] # "idle"
    <3>1. /\ call[c] = "connecting" /\ on[c] = on'[c]
          /\ call[d] = "connecting" /\ on[d] = on'[d]
      BY <1>4, <2>2, CallsMove DEF Moves
    <3>. QED
      BY <1>0, <1>4, <3>1 DEF ConnectionsInv
  <2>. QED
    BY <1>4, <2>1, <2>2
<1>5. ASSUME cut' = {}, NEW n \in Conns, link'[n] \notin {"none", "closed"}
      PROVE  n = socket'
  <2>1. cut = {}
    BY <1>5, LinksMove
  <2>2. \A m \in Conns : link[m] \notin {"none", "closed"} => m = socket
    BY <1>0, <2>1 DEF ConnectionsInv
  <2>3. CASE link[n] = "none"
    BY <1>5, <2>3, LinksMove DEF LinkMoves
  <2>4. CASE link[n] # "none"
    <3>1. n = socket
      BY <1>5, <2>2, <2>4, LinksMove DEF LinkMoves
    <3>. QED
      <4>1. ~(\E m \in Conns : link[m] \in {"ending", "dying"} /\ link'[m] = "closed")
        BY <1>5, <2>2, <3>1
      <4>2. socket # 0
        BY <1>0, <3>1, RpcAssumption DEF Conns
      <4>. QED
        BY <1>5, <3>1, <4>1, <4>2, LinksMove
  <2>. QED
    BY <2>3, <2>4
<1>. QED
  BY <1>1, <1>2, <1>3, <1>4, <1>5 DEF ConnectionsInv

-----------------------------------------------------------------------------
(* No call is stranded                                                     *)

WaitsWell(c) == \/ link[on[c]] \in Alive /\ OnItsWay(c, on[c])
                \/ link[on[c]] \in {"ending", "dying"}

\* What a call waits for is still there when lines go from hand to hand.
LEMMA StillOnItsWay ==
  ASSUME RpcInv, Next, NEW c \in Calls, NEW n \in Conns,
         c \in pending', c \notin lost',
         link[n] \in Alive, link'[n] \in Alive, OnItsWay(c, n)
  PROVE  OnItsWay(c, n)'
<1>0. TypeOK
  BY DEF RpcInv
<1>1. ASSUME NEW m \in Conns, ServerReads(m)
      PROVE  OnItsWay(c, n)'
  <2>1. PICK k \in 1..Len(toServer[m]) :
          /\ work' = [work EXCEPT ![m] = @ \cup {SubSeq(toServer[m], 1, k)}]
          /\ toServer' = [toServer EXCEPT ![m] = SubSeq(@, k + 1, Len(@))]
    BY <1>1 DEF ServerReads
  <2>2. toClient' = toClient
    BY <1>1 DEF ServerReads
  <2>3. CASE m = n /\ InLines(c, toServer[n])
    <3>1. toServer[n] \in Seq(Calls)
      BY OneConnection
    <3>2. \/ InLines(c, SubSeq(toServer[n], 1, k))
          \/ InLines(c, SubSeq(toServer[n], k + 1, Len(toServer[n])))
      BY <2>1, <2>3, <3>1, StillInLines
    <3>3. /\ SubSeq(toServer[n], 1, k) \in work'[n]
          /\ toServer'[n] = SubSeq(toServer[n], k + 1, Len(toServer[n]))
      BY <1>0, <2>1, <2>3 DEF TypeOK
    <3>. QED
      BY <3>2, <3>3 DEF OnItsWay
  <2>4. work[n] \subseteq work'[n] /\ (m # n => toServer'[n] = toServer[n])
    BY <1>0, <2>1 DEF TypeOK
  <2>. QED
    BY <2>2, <2>3, <2>4 DEF OnItsWay
<1>2. ASSUME NEW d \in Calls, HandlerReturns(d)
      PROVE  OnItsWay(c, n)'
  <2>0. PICK m \in Conns : \E lines \in work[m], outcome \in {"ok", "failed"} : Handled(d, m, lines, outcome)
    BY <1>2 DEF HandlerReturns
  <2>1. PICK lines \in work[m], outcome \in {"ok", "failed"} : Handled(d, m, lines, outcome)
    BY <2>0
  <2>2. toServer' = toServer
    BY <2>1 DEF Handled
  <2>3. /\ lines \in Seq(Calls) /\ lines # <<>> /\ Len(lines) \in Nat \ {0}
        /\ toClient[n] \in Seq(Response) /\ Len(toClient[n]) \in Nat
    BY OneConnection
  <2>4. lines[1] = d /\ Len(Tail(lines)) = Len(lines) - 1
    BY <2>1, <2>3, HeadAndTail DEF Handled
  <2>5. ASSUME \E i \in 1..Len(toClient[n]) : toClient[n][i].id = c
        PROVE  \E i \in 1..Len(toClient'[n]) : toClient'[n][i].id = c
    <3>1. PICK i \in 1..Len(toClient[n]) : toClient[n][i].id = c
      BY <2>5
    <3>2. [id |-> d, outcome |-> outcome] \in Response
      BY DEF Response
    <3>3. \/ toClient'[n] = toClient[n]
          \/ toClient'[n] = Append(toClient[n], [id |-> d, outcome |-> outcome])
      BY <1>0, <2>1 DEF Handled, TypeOK
    <3>4. i \in 1..Len(toClient'[n]) /\ toClient'[n][i] = toClient[n][i]
      BY <2>3, <3>1, <3>2, <3>3, AppendProperties
    <3>. QED
      BY <3>1, <3>4
  <2>6. ASSUME m = n, InLines(c, lines)
        PROVE  OnItsWay(c, n)'
    <3>1. CASE c = d
      <4>1. link[n] = "open"
        BY <1>0, <2>1, <2>6 DEF Alive, RpcInv, ConnectionsInv
      <4>2. toClient'[n] = Append(toClient[n], [id |-> d, outcome |-> outcome])
        BY <1>0, <2>1, <2>6, <4>1 DEF Handled, TypeOK
      <4>3. [id |-> d, outcome |-> outcome] \in Response
        BY DEF Response
      <4>4. /\ Len(toClient[n]) + 1 \in 1..Len(toClient'[n])
            /\ toClient'[n][Len(toClient[n]) + 1] = [id |-> d, outcome |-> outcome]
        BY <2>3, <4>2, <4>3, AppendProperties
      <4>. QED
        BY <3>1, <4>4 DEF OnItsWay
    <3>2. CASE c # d
      <4>1. InLines(c, Tail(lines))
        BY <2>3, <2>4, <2>6, <3>2, StillInLines
      <4>2. Len(lines) > 1
        BY <2>3, <2>4, <4>1 DEF InLines
      <4>3. Tail(lines) \in work'[n]
        BY <1>0, <2>1, <2>6, <4>2 DEF Handled, TypeOK
      <4>. QED
        BY <4>1, <4>3 DEF OnItsWay
    <3>. QED
      BY <3>1, <3>2
  <2>7. ASSUME NEW more \in work[n], InLines(c, more), m # n \/ more # lines
        PROVE  OnItsWay(c, n)'
    <3>1. more \in work'[n]
      BY <1>0, <2>1, <2>7 DEF Handled, TypeOK
    <3>. QED
      BY <2>7, <3>1 DEF OnItsWay
  <2>. QED
    BY <2>2, <2>5, <2>6, <2>7 DEF OnItsWay
<1>3. ASSUME NEW m \in Conns, Receive(m)
      PROVE  OnItsWay(c, n)'
  <2>1. UNCHANGED <<toServer, work>>
    BY <1>3 DEF Receive
  <2>2. ASSUME NEW i \in 1..Len(toClient[n]), toClient[n][i].id = c
        PROVE  \E j \in 1..Len(toClient'[n]) : toClient'[n][j].id = c
    <3>1. CASE m # n
      BY <1>0, <1>3, <2>2, <3>1 DEF Receive, TypeOK
    <3>2. CASE m = n
      <4>1. toClient[n] \in Seq(Response) /\ toClient[n] # <<>> /\ toClient'[n] = Tail(toClient[n])
        BY <1>0, <1>3, <3>2 DEF Receive, TypeOK
      <4>2. /\ Len(toClient[n]) \in Nat /\ Head(toClient[n]) = toClient[n][1]
            /\ Len(Tail(toClient[n])) = Len(toClient[n]) - 1
            /\ \A j \in 1..Len(Tail(toClient[n])) : Tail(toClient[n])[j] = toClient[n][j + 1]
        BY <4>1, HeadAndTail
      <4>3. i # 1
        <5>1. ASSUME i = 1
              PROVE  FALSE
          <6>1. Head(toClient[n]).id = c
            BY <2>2, <4>2, <5>1
          <6>. QED
            BY <1>3, <3>2, <6>1 DEF Receive, HandleResponse
        <5>. QED
          BY <5>1
      <4>4. i - 1 \in 1..Len(Tail(toClient[n])) /\ Tail(toClient[n])[i - 1] = toClient[n][i]
        BY <4>2, <4>3
      <4>. QED
        BY <2>2, <4>1, <4>4
    <3>. QED
      BY <3>1, <3>2
  <2>. QED
    BY <2>1, <2>2 DEF OnItsWay
<1>4. ASSUME NEW d \in Calls, NEW m \in Conns, Write(d, m), UNCHANGED <<work, toClient>>
      PROVE  OnItsWay(c, n)'
  <2>1. CASE toServer'[n] = toServer[n]
    BY <1>4, <2>1 DEF OnItsWay
  <2>2. CASE toServer'[n] = Append(toServer[n], d)
    <3>1. toServer[n] \in Seq(Calls) /\ Len(toServer[n]) \in Nat
      BY OneConnection
    <3>2. InLines(c, toServer[n]) => InLines(c, Append(toServer[n], d))
      BY <3>1, AppendProperties DEF InLines
    <3>. QED
      BY <1>4, <2>2, <3>2 DEF OnItsWay
  <2>. QED
    BY <1>0, <1>4, <2>1, <2>2 DEF Write, TypeOK
<1>5. CASE \E d \in Calls : CallOnSocket(d)
  <2>1. socket \in Conns
    BY <1>0, <1>5 DEF CallOnSocket, NoSocket, TypeOK, Conns
  <2>. QED
    BY <1>4, <1>5, <2>1 DEF CallOnSocket
<1>6. CASE \E d \in Calls, m \in Conns : Connected(d, m)
  <2>1. PICK d \in Calls, m \in Conns : Connected(d, m)
    BY <1>6
  <2>2. UNCHANGED <<work, toClient>> /\ ((Write(d, socket) /\ socket # 0) \/ UNCHANGED toServer)
    BY <2>1 DEF Connected
  <2>3. socket # 0 => socket \in Conns
    BY <1>0 DEF TypeOK, Conns
  <2>4. CASE UNCHANGED toServer
    BY <2>2, <2>4 DEF OnItsWay
  <2>. QED
    BY <1>4, <2>2, <2>3, <2>4
<1>7. ASSUME toServer'[n] = toServer[n], work'[n] = work[n], toClient'[n] = toClient[n]
      PROVE  OnItsWay(c, n)'
  BY <1>7 DEF OnItsWay
<1>8. CASE \E d \in Calls, m \in Conns : CallConnects(d, m) \/ ConnectFails(d, m)
  BY <1>0, <1>7, <1>8 DEF CallConnects, ConnectFails, wires, TypeOK, Alive
<1>9. CASE ServerDies
  BY <1>0, <1>7, <1>9 DEF ServerDies, TypeOK, Alive, RpcInv, ConnectionsInv
<1>10. CASE Disconnect
  BY <1>0, <1>7, <1>10 DEF Disconnect, TypeOK, Alive
<1>11. CASE \E m \in Conns : Close(m)
  BY <1>0, <1>7, <1>11 DEF Close, TypeOK, Alive
<1>12. CASE ServerStarts \/ (\E d \in Calls : WriteFails(d)) \/ \E m \in Conns : ReceivePart(m)
  BY <1>7, <1>12 DEF ServerStarts, WriteFails, ReceivePart, wires
<1>. QED
  BY <1>1, <1>2, <1>3, <1>5, <1>6, <1>8, <1>9, <1>10, <1>11, <1>12 DEF Next, ConnectSettles

LEMMA StrandedStep ==
  ASSUME RpcInv, Next
  PROVE  NoneStranded'
<1>0. TypeOK /\ NoneStranded /\ ConnectionsInv
  BY DEF RpcInv
<1>3. \A c \in Calls : call'[c] = "waiting" => c \in pending'
  BY TypeStep DEF TypeOK
<1>1. ASSUME NEW c \in Calls, call'[c] = "connecting"
      PROVE  link'[on'[c]] = "connecting" \/ on'[c] \in cut'
  <2>1. CASE call[c] = "idle"
    BY <1>1, <2>1, CallsGoOut
  <2>2. CASE call[c] # "idle"
    <3>1. call[c] = "connecting" /\ on'[c] = on[c]
      BY <1>1, <2>2, CallsMove DEF Moves
    <3>2. on[c] \in Conns /\ (link[on[c]] = "connecting" \/ on[c] \in cut)
      BY <1>0, <3>1 DEF NoneStranded, Abandoned, ConnectionsInv
    <3>3. CASE link[on[c]] = "connecting" /\ link'[on[c]] # "connecting"
      <4>1. ASSUME NEW d \in Calls, Connected(d, on[c]) \/ ConnectFails(d, on[c])
            PROVE  FALSE
        <5>1. call[d] = "connecting" /\ on[d] = on[c] /\ call'[d] # "connecting"
          BY <1>0, <4>1 DEF Connected, ConnectFails, TypeOK
        <5>. QED
          BY <1>0, <1>1, <3>1, <5>1 DEF ConnectionsInv
      <4>2. CASE Disconnect
        BY <1>0, <3>1, <3>2, <3>3, <4>2 DEF Disconnect, TypeOK
      <4>3. CASE ~Disconnect
        <5>1. ASSUME NEW d \in Calls, NEW n \in Conns, Connected(d, n) \/ ConnectFails(d, n)
              PROVE  link'[on[c]] = link[on[c]]
          BY <1>0, <3>2, <4>1, <5>1 DEF Connected, ConnectFails, TypeOK
        <5>2. CASE \/ ServerDies \/ \E n \in Conns : Close(n)
                   \/ \E d \in Calls, n \in Conns : CallConnects(d, n)
          BY <1>0, <3>2, <3>3, <5>2 DEF ServerDies, Close, CallConnects, TypeOK
        <5>3. CASE UNCHANGED link
          BY <3>3, <5>3
        <5>. QED
          BY <3>3, <4>3, <5>1, <5>2, <5>3 DEF Next, ConnectSettles, CallOnSocket, WriteFails,
             ReceivePart, Receive, ServerStarts, ServerReads, HandlerReturns, Handled
      <4>. QED
        BY <4>2, <4>3
    <3>. QED
      BY <3>1, <3>2, <3>3, LinksMove
  <2>. QED
    BY <2>1, <2>2
<1>2. ASSUME NEW c \in Calls, call'[c] = "waiting", c \notin lost'
      PROVE  WaitsWell(c)'
  <2>0. c \in pending' /\ lost \subseteq lost'
    <3>1. lost \subseteq lost'
      BY DEF Next, ConnectSettles, CallOnSocket, WriteFails, CallConnects, Connected, ConnectFails,
         Close, ReceivePart, Receive, Disconnect, ServerDies, ServerStarts, ServerReads,
         HandlerReturns, Handled
    <3>. QED
      BY <1>2, <1>3, <3>1
  <2>1. ASSUME NEW n \in Conns, Write(c, n), on'[c] = n, link[n] \notin {"none", "closed"},
               link[n] \in Alive => link'[n] \in Alive, link[n] \notin Alive => link' = link
        PROVE  WaitsWell(c)'
    <3>1. CASE link[n] \in Alive
      <4>1. toServer[n] \in Seq(Calls) /\ Len(toServer[n]) \in Nat
        BY OneConnection
      <4>2. toServer'[n] = Append(toServer[n], c)
        BY <1>0, <2>1, <3>1 DEF Write, TypeOK
      <4>3. InLines(c, Append(toServer[n], c))
        <5>1. /\ Len(toServer[n]) + 1 \in 1..Len(Append(toServer[n], c))
              /\ Append(toServer[n], c)[Len(toServer[n]) + 1] = c
          BY <2>0, <4>1, AppendProperties
        <5>. QED
          BY <5>1 DEF InLines
      <4>4. link'[n] \in Alive
        BY <2>1, <3>1
      <4>. QED
        BY <2>1, <4>2, <4>3, <4>4 DEF WaitsWell, OnItsWay
    <3>2. CASE link[n] \notin Alive
      BY <1>0, <2>1, <3>2 DEF WaitsWell, TypeOK, Alive
    <3>. QED
      BY <3>1, <3>2
  <2>2. CASE call[c] = "idle"
    <3>1. CallOnSocket(c)
      BY <1>2, <2>2, CallsGoOut
    <3>2. socket \in Conns /\ link[socket] \notin {"none", "closed"}
      BY <1>0, <3>1 DEF CallOnSocket, NoSocket, ConnectionsInv, TypeOK, Conns
    <3>. QED
      BY <1>0, <2>0, <2>1, <3>1, <3>2 DEF CallOnSocket, TypeOK
  <2>3. CASE call[c] = "connecting"
    <3>1. PICK n \in Conns : Connected(c, n)
      BY <1>2, <2>3, CallsWait
    <3>2. /\ socket # 0 /\ Write(c, socket) /\ on'[c] = socket
          /\ link[n] = "connecting" /\ link' = [link EXCEPT ![n] = "open"]
      BY <1>0, <1>2, <3>1 DEF Connected, TypeOK
    <3>3. socket \in Conns /\ link[socket] \notin {"none", "closed"}
      BY <1>0, <3>2 DEF ConnectionsInv, TypeOK, Conns
    <3>4. CASE link[socket] \in Alive
      BY <1>0, <2>1, <3>2, <3>3, <3>4 DEF TypeOK, Alive
    <3>5. CASE link[socket] \notin Alive
      BY <1>0, <3>2, <3>3, <3>5 DEF WaitsWell, TypeOK, Alive
    <3>. QED
      BY <3>4, <3>5
  <2>4. CASE call[c] = "waiting"
    <3>1. PICK n \in Conns : n = on[c] /\ n = on'[c]
      BY <1>0, <1>2, <2>4, CallsMove DEF ConnectionsInv
    <3>2. c \in pending /\ c \notin lost
      BY <1>0, <1>2, <2>0, <2>4 DEF TypeOK
    <3>3. link'[n] # "closed" \/ link[n] = "closed"
      <4>1. ASSUME link'[n] = "closed", link[n] # "closed"
            PROVE  FALSE
        <5>1. Close(n)
          BY <4>1, LinksClose
        <5>. QED
          BY <2>0, <5>1 DEF Close, RejectAll
      <4>. QED
        BY <4>1
    <3>4. CASE link[n] \in Alive /\ OnItsWay(c, n)
      <4>1. link'[n] \in Alive \cup {"ending", "dying"}
        BY <3>3, <3>4, LinksMove DEF LinkMoves, Alive
      <4>2. link'[n] \in Alive => OnItsWay(c, n)'
        BY <1>2, <2>0, <3>4, StillOnItsWay
      <4>. QED
        BY <3>1, <4>1, <4>2 DEF WaitsWell, OnItsWay
    <3>5. CASE link[n] \in {"ending", "dying"}
      BY <3>1, <3>3, <3>5, LinksMove DEF LinkMoves, WaitsWell
    <3>. QED
      BY <1>0, <2>4, <3>1, <3>2, <3>4, <3>5 DEF NoneStranded
  <2>. QED
    BY <1>0, <1>2, <2>2, <2>3, <2>4, CallsMove DEF Moves
<1>. QED
  BY <1>1, <1>2, <1>3 DEF NoneStranded, Abandoned, WaitsWell

-----------------------------------------------------------------------------
(* The theorems                                                            *)

LEMMA RpcInvInit == Init => RpcInv
<1>. SUFFICES ASSUME Init
              PROVE  RpcInv
  OBVIOUS
<1>. USE RpcAssumption DEF Init
<1>1. TypeOK
  <2>1. toServer \in [Conns -> Seq(Calls)] /\ toClient \in [Conns -> Seq(Response)]
    BY EmptySeq
  <2>2. link \in [Conns -> {"none", "connecting", "open", "ending", "dying", "closed"}]
    OBVIOUS
  <2>3. pending = {c \in Calls : call[c] = "waiting"} /\ call \in [Calls -> Outcomes]
    BY DEF Outcomes
  <2>4. socket \in 0..MaxConn /\ on \in [Calls -> 0..MaxConn] /\ buffer \in 0..Mixed
    BY DEF Mixed
  <2>5. work \in [Conns -> SUBSET (Seq(Calls) \ {<<>>})]
    <3>1. {} \in SUBSET (Seq(Calls) \ {<<>>})
      OBVIOUS
    <3>. QED
      BY <3>1
  <2>6. serverUp \in BOOLEAN
    OBVIOUS
  <2>8. runs \in [Calls -> 0..1]
    <3>1. runs = [c \in Calls |-> 0]
      OBVIOUS
    <3> HIDE DEF Init
    <3>. QED
      BY <3>1
  <2>7. part \subseteq Conns /\ lost \subseteq Calls /\ cut \subseteq Conns
    OBVIOUS
  <2> HIDE DEF Init
  <2>. QED
    BY <2>1, <2>2, <2>3, <2>4, <2>5, <2>6, <2>7, <2>8 DEF TypeOK
<1>2. \A n \in Conns : toServer[n] = <<>> /\ work[n] = {} /\ toClient[n] = <<>>
  OBVIOUS
<1>3. Len(<<>>) = 0
  BY EmptySeq
<1>4. \A n \in Conns : UnreadOnce(n) /\ BehindHandler(n) /\ AnswersFollow(n)
  BY <1>2, <1>3 DEF UnreadOnce, BehindHandler, AnswersFollow, Distinct
<1>5. RunsFollowCalls /\ ConnectionsInv /\ NoneStranded
  BY DEF RunsFollowCalls, ConnectionsInv, NoneStranded
<1>. QED
  BY <1>1, <1>4, <1>5 DEF RpcInv

LEMMA RpcInvStep == RpcInv /\ [Next]_vars => RpcInv'
<1>. SUFFICES ASSUME RpcInv, [Next]_vars
              PROVE  RpcInv'
  OBVIOUS
<1>1. CASE Next
  BY <1>1, TypeStep, WiresStep, RunsStep, ConnectionsStep, StrandedStep DEF RpcInv, WiresInv
<1>2. CASE UNCHANGED vars
  BY <1>2 DEF vars, wires, RpcInv, TypeOK, UnreadOnce, BehindHandler, AnswersFollow, Unstarted,
     HandlerStarted, RunsFollowCalls, ConnectionsInv, NoneStranded, OnItsWay, Abandoned
<1>. QED
  BY <1>1, <1>2

\* However lines are cut, connections break and the server dies: every line on
\* the wires is of a call whose handler it is to start, or was started once, and
\* no call is stranded but one whose response did not parse or whose connect was
\* cut short.
THEOREM RpcInvCorrect == Spec => []RpcInv
<1>. QED
  BY RpcInvInit, RpcInvStep, PTL DEF Spec

\* An answer settles the call it answers and no other.
LEMMA AnsweredAlone ==
  ASSUME RpcInv, Next, NEW c \in Calls, call'[c] = "ok", call[c] # "ok"
  PROVE  \A d \in Calls : call'[d] # call[d] => d = c
<1>0. TypeOK
  BY DEF RpcInv
<1>1. ASSUME NEW n \in Conns, Receive(n)
      PROVE  \A d \in Calls : call'[d] # call[d] => d = c
  BY <1>0, <1>1, ReceivedWasStarted DEF Receive, HandleResponse, Settle, TypeOK
<1>2. CASE \/ \E d \in Calls : WriteFails(d) \/ CallOnSocket(d) \/ \E n \in Conns : CallConnects(d, n)
           \/ \E n \in Conns : Close(n) \/ ConnectSettles(n)
  BY <1>0, <1>2 DEF WriteFails, CallOnSocket, CallConnects, Settle, Close, RejectAll, ConnectSettles,
                    Connected, ConnectFails, TypeOK
<1>3. CASE UNCHANGED call
  BY <1>3
<1>. QED
  BY <1>1, <1>2, <1>3 DEF Next, Disconnect, ServerDies, ServerStarts, ReceivePart, ServerReads,
     HandlerReturns, Handled

\* Every step starts a handler, sends a call, answers one, fails some, or is
\* nothing to the callers.
LEMMA StepImplements ==
  ASSUME RpcInv, [Next]_vars
  PROVE  [Abstract!Next]_(Abstract!absVars)
<1>. USE DEF Abstract!absVars
<1>0. TypeOK /\ RunsFollowCalls /\ call \in [Calls -> Outcomes]
  BY DEF RpcInv, TypeOK
<1>1. CASE UNCHANGED vars
  BY <1>1 DEF vars, Promise
<1>2. CASE Next /\ runs' # runs
  <2>1. PICK c \in Calls : runs[c] = 0 /\ call[c] \notin {"idle", "connecting"} /\ runs' = Started(c)
    BY <1>2, RunsGrow DEF Unstarted
  <2>2. call' = call
    BY <1>2, RunsGrow
  <2>3. Promise(c) \in {"called", "failed"}
    BY <1>0, <2>1 DEF Promise, RunsFollowCalls, Outcomes
  <2>4. runs' = [runs EXCEPT ![c] = 1]
    BY <2>1 DEF Started
  <2>5. Abstract!Run(c)
    BY <2>1, <2>2, <2>3, <2>4 DEF Abstract!Run, Promise
  <2>. QED
    BY <2>5 DEF Abstract!Next
<1>3. ASSUME Next, runs' = runs, NEW c \in Calls, call[c] = "idle", call'[c] # "idle"
      PROVE  Abstract!Call(c)
  <2>1. call'[c] \in {"connecting", "waiting"} /\ \A d \in Calls \ {c} : call'[d] = call[d]
    BY <1>3, CallsMove, CallsGoOut DEF Moves
  <2>2. Promise(c) = "idle" /\ Promise(c)' = "called" /\ \A d \in Calls \ {c} : Promise(d)' = Promise(d)
    BY <1>3, <2>1 DEF Promise
  <2>. QED
    BY <1>3, <2>2 DEF Abstract!Call
<1>4. ASSUME Next, runs' = runs, NEW c \in Calls, call'[c] = "ok", call[c] # "ok"
      PROVE  Abstract!Answer(c)
  <2>1. /\ call[c] = "waiting" \/ call[c] = "connecting"
        /\ runs[c] = 1 /\ \A d \in Calls \ {c} : call'[d] = call[d]
    BY <1>4, CallsMove, AnsweredAlone DEF Moves
  <2>2. Promise(c) = "called" /\ Promise(c)' = "ok" /\ \A d \in Calls \ {c} : Promise(d)' = Promise(d)
    BY <1>4, <2>1 DEF Promise
  <2>. QED
    BY <1>4, <2>1, <2>2 DEF Abstract!Answer
<1>5. ASSUME Next, runs' = runs,
             \A c \in Calls : (call[c] = "idle" => call'[c] = "idle") /\ (call'[c] = "ok" => call[c] = "ok")
      PROVE  Abstract!Fail({c \in Calls : call'[c] = "failed" /\ call[c] # "failed"})
  <2>. DEFINE S == {c \in Calls : call'[c] = "failed" /\ call[c] # "failed"}
  <2>1. \A c \in S : Promise(c) = "called" /\ Promise(c)' = "failed"
    BY <1>5, CallsMove DEF Moves, Promise
  <2>2. \A c \in Calls \ S : Promise(c)' = Promise(c)
    BY <1>5, CallsMove DEF Moves, Promise
  <2>. QED
    BY <1>5, <2>1, <2>2 DEF Abstract!Fail
<1>. QED
  BY <1>1, <1>2, <1>3, <1>4, <1>5 DEF Abstract!Next

\* The channel is what RpcCalls says of it: a handler is started at most once for
\* a call, no promise settles twice, and none resolves but with the answer of its
\* own handler.
THEOREM ChannelImplementsCalls == Spec => ImplementsCalls
<1>1. Init => Abstract!Init
  BY DEF Init, Abstract!Init, Promise
<1>2. RpcInv /\ [Next]_vars => [Abstract!Next]_(Abstract!absVars)
  BY StepImplements
<1>. QED
  BY <1>1, <1>2, RpcInvCorrect, PTL DEF Spec, ImplementsCalls, Abstract!Spec

\* A call fails because its handler failed, or its own connection broke, or
\* disconnect has been called: not because of another connection.
THEOREM FailsAlone == Spec => FailsWithItsConnection
<1>. DEFINE FailsOwn ==
       \A c \in Calls :
         call[c] \in {"connecting", "waiting"} /\ call'[c] = "failed" =>
           \/ link'[on[c]] \notin Alive
           \/ toClient[on[c]] # <<>> /\ Head(toClient[on[c]]) = [id |-> c, outcome |-> "failed"]
           \/ cut # {}
<1>1. ASSUME RpcInv, Next, NEW c \in Calls,
             call[c] \in {"connecting", "waiting"}, call'[c] = "failed", cut = {}
      PROVE  \/ link'[on[c]] \notin Alive
             \/ toClient[on[c]] # <<>> /\ Head(toClient[on[c]]) = [id |-> c, outcome |-> "failed"]
  <2>0. TypeOK /\ on[c] \in Conns
    BY <1>1 DEF RpcInv, ConnectionsInv
  <2>1. ASSUME NEW d \in Calls, NEW n \in Conns, ConnectFails(d, n)
        PROVE  link'[on[c]] \notin Alive
    BY <1>1, <2>0, <2>1 DEF ConnectFails, TypeOK, Alive
  <2>2. ASSUME NEW d \in Calls, WriteFails(d)
        PROVE  link'[on[c]] \notin Alive
    BY <1>1, <2>0, <2>2 DEF WriteFails, Settle, TypeOK
  <2>3. ASSUME NEW n \in Conns, Close(n)
        PROVE  link'[on[c]] \notin Alive
    <3>1. \A m \in Conns : link[m] \notin {"none", "closed"} => m = socket
      BY <1>1 DEF RpcInv, ConnectionsInv
    <3>2. n = socket /\ (on[c] # n => link[on[c]] \in {"none", "closed"})
      BY <2>0, <2>3, <3>1 DEF Close
    <3>. QED
      BY <2>0, <2>3, <3>2 DEF Close, TypeOK, Alive
  <2>4. ASSUME NEW n \in Conns, Receive(n)
        PROVE  toClient[on[c]] # <<>> /\ Head(toClient[on[c]]) = [id |-> c, outcome |-> "failed"]
    <3>1. Head(toClient[n]) \in Response /\ HandlerStarted(Head(toClient[n]).id, n)
      BY <1>1, <2>4, ReceivedWasStarted
    <3>2. Head(toClient[n]).id = c /\ Head(toClient[n]).outcome = "failed"
      BY <1>1, <2>0, <2>4 DEF Receive, HandleResponse, Settle, TypeOK
    <3>. QED
      BY <2>4, <3>1, <3>2 DEF Response, HandlerStarted, Receive
  <2>5. CASE \/ Disconnect \/ ServerDies \/ ServerStarts
             \/ \E n \in Conns : ReceivePart(n) \/ ServerReads(n)
             \/ \E d \in Calls : HandlerReturns(d)
    BY <1>1, <2>5 DEF Disconnect, ServerDies, ServerStarts, ReceivePart, ServerReads, HandlerReturns, Handled
  <2>6. CASE \E d \in Calls : CallOnSocket(d) \/ \E n \in Conns : CallConnects(d, n)
    BY <1>1, <2>0, <2>6 DEF CallConnects, CallOnSocket, TypeOK
  <2>7. ASSUME NEW d \in Calls, NEW n \in Conns, Connected(d, n)
        PROVE  FALSE
    <3>1. n = socket /\ socket # 0
      BY <1>1, <2>7, RpcAssumption DEF RpcInv, ConnectionsInv, Connected, Conns
    <3>2. call' = [call EXCEPT ![d] = "waiting"]
      BY <2>7, <3>1 DEF Connected
    <3>. QED
      BY <1>1, <2>0, <3>2 DEF TypeOK
  <2>. QED
    BY <1>1, <2>1, <2>2, <2>3, <2>4, <2>5, <2>6, <2>7 DEF Next, ConnectSettles
<1>2. RpcInv /\ [Next]_vars => [FailsOwn]_vars
  BY <1>1
<1>. QED
  BY <1>2, RpcInvCorrect, PTL DEF Spec, FailsWithItsConnection

-----------------------------------------------------------------------------
(* The tool server of the macOS app                                        *)

MacServers == [kind : Kinds, listens : BOOLEAN]
MacClients ==
  [server : Nat, open : BOOLEAN, listed : BOOLEAN, cancelled : BOOLEAN, sent : Nat, chunk : Nat,
   late : Nat, told : {"nothing", "opened", "closed"}]
Counted == {c \in DOMAIN clients : clients[c].told = "opened"}

ServerTypes ==
  /\ serverRunning \in BOOLEAN /\ serverStarting \in BOOLEAN /\ starts \in Nat
  /\ servers \in Seq(MacServers) /\ held \in [Kinds -> Nat]
  /\ activeConnections \in Nat /\ clients \in Seq(MacClients)

\* What is held listens.
HeldListens == \A k \in Kinds : held[k] # 0 => held[k] \in DOMAIN servers /\ servers[held[k]].listens

\* A chunk of a connection that is read late was read of one whose server has stopped, and
\* a cancelled task that reads it ends with it.
LateIsLast ==
  \A c \in DOMAIN clients :
    /\ clients[c].server \in DOMAIN servers
    /\ servers[clients[c].server].listens => clients[c].late = 0
    /\ clients[c].cancelled => clients[c].late <= 1 /\ (clients[c].chunk = 0 => clients[c].late = 0)

ServerInv == ServerTypes /\ HeldListens /\ LateIsLast /\ ServersCorrect

\* A step of one connection, which changes neither servers nor what is held.
LEMMA ClientChanges ==
  ASSUME ServerInv, NEW c \in DOMAIN clients, NEW client \in MacClients,
         clients' = [clients EXCEPT ![c] = client],
         UNCHANGED <<serverRunning, serverStarting, starts, servers, held, overwritten>>,
         client.server = clients[c].server,
         servers[client.server].listens => client.late = 0,
         client.cancelled => client.late <= 1 /\ (client.chunk = 0 => client.late = 0),
         activeConnections' \in Nat, NoneCountedTwice'
  PROVE  ServerInv'
<1>1. ServerTypes
  BY DEF ServerInv
<1>2. /\ clients \in Seq(MacClients) /\ clients' \in Seq(MacClients) /\ DOMAIN clients' = DOMAIN clients
      /\ clients'[c] = client /\ \A d \in DOMAIN clients : d # c => clients'[d] = clients[d]
  BY <1>1 DEF ServerTypes
<1>3. ServerTypes'
  BY <1>1, <1>2 DEF ServerTypes
<1>4. HeldListens'
  BY DEF ServerInv, HeldListens
<1>5. LateIsLast'
  BY <1>2 DEF ServerInv, LateIsLast
<1>6. StoppedServesOnce'
  BY <1>2, <1>5 DEF LateIsLast, StoppedServesOnce
<1>7. RunningIsHeld' /\ ListeningIsHeld' /\ StartingIsStarted'
  BY DEF ServerInv, ServersCorrect, RunningIsHeld, ListeningIsHeld, StartingIsStarted
<1> QED BY <1>3, <1>4, <1>5, <1>6, <1>7 DEF ServerInv, ServersCorrect

\* The connections that the app was told of are finitely many.
LEMMA CountIs ==
  ASSUME ServerTypes
  PROVE  IsFiniteSet(Counted) /\ Cardinality(Counted) \in Nat
<1>1. clients \in Seq(MacClients) /\ DOMAIN clients = 1..Len(clients) /\ Len(clients) \in Nat
  BY DEF ServerTypes
<1>2. IsFiniteSet(1..Len(clients))
  BY <1>1, FS_Interval
<1>3. Counted \in SUBSET (1..Len(clients))
  BY <1>1 DEF Counted
<1>4. IsFiniteSet(Counted)
  BY <1>2, <1>3, FS_Subset
<1> QED BY <1>4, FS_CardinalityType

\* A step of a connection of which the app hears nothing.
LEMMA ClientMoves ==
  ASSUME ServerInv, NEW c \in DOMAIN clients, NEW client \in MacClients,
         clients' = [clients EXCEPT ![c] = client],
         UNCHANGED <<serverRunning, serverStarting, starts, servers, held, overwritten, activeConnections>>,
         client.server = clients[c].server, client.told = clients[c].told,
         servers[client.server].listens => client.late = 0,
         client.cancelled => client.late <= 1 /\ (client.chunk = 0 => client.late = 0)
  PROVE  ServerInv'
<1>1. ServerTypes /\ NoneCountedTwice
  BY DEF ServerInv, ServersCorrect
<1>2. /\ clients \in Seq(MacClients) /\ DOMAIN clients' = DOMAIN clients
      /\ clients'[c] = client /\ \A d \in DOMAIN clients : d # c => clients'[d] = clients[d]
  BY <1>1 DEF ServerTypes
<1>3. {d \in DOMAIN clients' : clients'[d].told = "opened"} = {d \in DOMAIN clients : clients[d].told = "opened"}
  BY <1>2
<1>4. NoneCountedTwice'
  BY <1>1, <1>3 DEF NoneCountedTwice
<1>5. activeConnections' \in Nat
  BY <1>1 DEF ServerTypes
<1> QED BY <1>4, <1>5, ClientChanges

LEMMA ClientIs ==
  ASSUME ServerInv, NEW c \in DOMAIN clients
  PROVE  /\ clients[c] \in MacClients /\ clients[c].server \in DOMAIN servers
         /\ clients[c].chunk \in Nat /\ clients[c].sent \in Nat /\ clients[c].late \in Nat
         /\ servers[clients[c].server].listens \in BOOLEAN
         /\ servers[clients[c].server].listens => clients[c].late = 0
         /\ clients[c].cancelled => clients[c].late <= 1 /\ (clients[c].chunk = 0 => clients[c].late = 0)
<1>1. clients \in Seq(MacClients) /\ servers \in Seq(MacServers)
  BY DEF ServerInv, ServerTypes
<1>2. clients[c] \in MacClients
  BY <1>1
<1>3. /\ clients[c].server \in DOMAIN servers
      /\ servers[clients[c].server].listens => clients[c].late = 0
      /\ clients[c].cancelled => clients[c].late <= 1 /\ (clients[c].chunk = 0 => clients[c].late = 0)
  BY DEF ServerInv, LateIsLast
<1>4. servers[clients[c].server] \in MacServers
  BY <1>1, <1>3
<1> QED BY <1>2, <1>3, <1>4 DEF MacClients, MacServers

\* A connection that is over, or one whose answers are being written.
LEMMA LeftKeeps ==
  ASSUME ServerInv, NEW c \in DOMAIN clients, Becomes(c, Left(c)), UNCHANGED activeConnections, AppUnchanged
  PROVE  ServerInv'
<1>1. clients[c] \in MacClients
  BY ClientIs
<1>2. /\ Left(c) \in MacClients /\ Left(c).server = clients[c].server /\ Left(c).told = clients[c].told
      /\ Left(c).late = 0
  BY <1>1 DEF Left, MacClients
<1>3. clients' = [clients EXCEPT ![c] = Left(c)]
  BY DEF Becomes
<1>4. UNCHANGED <<serverRunning, serverStarting, starts, servers, held, overwritten, activeConnections>>
  BY DEF AppUnchanged
<1> DEFINE client == Left(c)
<1>5. /\ client \in MacClients /\ clients' = [clients EXCEPT ![c] = client]
      /\ client.server = clients[c].server /\ client.told = clients[c].told
      /\ servers[client.server].listens => client.late = 0
      /\ client.cancelled => client.late <= 1 /\ (client.chunk = 0 => client.late = 0)
  BY <1>2, <1>3
<1> HIDE DEF client
<1> QED BY <1>4, <1>5, ClientMoves

LEMMA NewClientKeeps ==
  ASSUME ServerInv, NEW s \in DOMAIN servers, clients' = Append(clients, Client(s)),
         UNCHANGED activeConnections, AppUnchanged
  PROVE  ServerInv'
<1> DEFINE n == Len(clients) + 1
<1>1. ServerTypes /\ NoneCountedTwice
  BY DEF ServerInv, ServersCorrect
<1>2. s \in Nat
  BY <1>1 DEF ServerTypes
<1>3. /\ Client(s) \in MacClients /\ Client(s).server = s /\ Client(s).late = 0
      /\ Client(s).told # "opened" /\ ~Client(s).cancelled
  BY <1>2 DEF Client, MacClients
<1>4. /\ clients' \in Seq(MacClients) /\ DOMAIN clients = 1..Len(clients) /\ Len(clients) \in Nat
      /\ DOMAIN clients' = 1..n /\ clients'[n] = Client(s) /\ \A d \in DOMAIN clients : clients'[d] = clients[d]
  <2> DEFINE x == Client(s)
  <2>1. clients \in Seq(MacClients) /\ x \in MacClients /\ clients' = Append(clients, x)
    BY <1>1, <1>3 DEF ServerTypes
  <2> HIDE DEF x
  <2>2. /\ clients' \in Seq(MacClients) /\ DOMAIN clients = 1..Len(clients) /\ Len(clients) \in Nat
        /\ DOMAIN clients' = 1..Len(clients) + 1 /\ clients'[Len(clients) + 1] = x
        /\ \A d \in DOMAIN clients : clients'[d] = clients[d]
    BY <2>1
  <2> QED BY <2>2 DEF x
<1>5. /\ serverRunning' = serverRunning /\ serverStarting' = serverStarting /\ starts' = starts
      /\ servers' = servers /\ held' = held /\ overwritten' = overwritten /\ activeConnections' = activeConnections
  BY DEF AppUnchanged
<1>6. ServerTypes'
  BY <1>1, <1>4, <1>5 DEF ServerTypes
<1>7. HeldListens'
  BY <1>5 DEF ServerInv, HeldListens
<1>8. \A d \in DOMAIN clients' : d \in DOMAIN clients \/ d = n
  BY <1>4
<1>9. LateIsLast'
  BY <1>3, <1>4, <1>5, <1>8 DEF ServerInv, LateIsLast
<1>10. StoppedServesOnce'
  BY <1>9 DEF LateIsLast, StoppedServesOnce
<1>11. NoneCountedTwice'
  <2>1. {d \in DOMAIN clients' : clients'[d].told = "opened"} = {d \in DOMAIN clients : clients[d].told = "opened"}
    BY <1>3, <1>4, <1>8
  <2> QED BY <1>1, <1>5, <2>1 DEF NoneCountedTwice
<1>12. RunningIsHeld' /\ ListeningIsHeld' /\ StartingIsStarted'
  BY <1>5 DEF ServerInv, ServersCorrect, RunningIsHeld, ListeningIsHeld, StartingIsStarted
<1> QED BY <1>6, <1>7, <1>9, <1>10, <1>11, <1>12 DEF ServerInv, ServersCorrect

\* The servers after a stop: none that was held listens, and the tasks of a held server
\* that are cancelled have read nothing late.
LEMMA StopKeeps ==
  ASSUME ServerInv, StopHeld, serverRunning' = FALSE, activeConnections' = 0, overwritten' = overwritten,
         serverStarting' \in BOOLEAN, starts' \in Nat, StartingIsStarted'
  PROVE  ServerInv'
<1>1. ServerTypes
  BY DEF ServerInv
<1>2. /\ servers' = [s \in DOMAIN servers |-> [servers[s] EXCEPT !.listens = @ /\ \A k \in Kinds : held[k] # s]]
      /\ held' = [k \in Kinds |-> 0]
      /\ clients' = [c \in DOMAIN clients |->
                       IF clients[c].server = held["unix"] /\ clients[c].listed
                         THEN [clients[c] EXCEPT !.cancelled = TRUE] ELSE clients[c]]
  BY DEF StopHeld
<1>3. ASSUME NEW s \in DOMAIN servers
      PROVE  /\ servers'[s] \in MacServers
             /\ servers'[s].listens => servers[s].listens /\ \A k \in Kinds : held[k] # s
  <2>1. servers[s] \in MacServers
    BY <1>1 DEF ServerTypes
  <2>2. PICK b \in BOOLEAN : b = (servers[s].listens /\ \A k \in Kinds : held[k] # s)
    OBVIOUS
  <2>3. servers'[s] = [servers[s] EXCEPT !.listens = b]
    BY <1>2, <2>2
  <2> QED BY <2>1, <2>2, <2>3 DEF MacServers
<1>4. /\ DOMAIN servers = 1..Len(servers) /\ Len(servers) \in Nat /\ DOMAIN servers' = DOMAIN servers
      /\ DOMAIN clients = 1..Len(clients) /\ Len(clients) \in Nat /\ DOMAIN clients' = DOMAIN clients
  BY <1>1, <1>2 DEF ServerTypes
<1>5. servers' \in Seq(MacServers)
  <2>1. servers' \in [1..Len(servers) -> MacServers]
    BY <1>2, <1>3, <1>4
  <2> QED BY <1>4, <2>1
<1>6. ASSUME NEW c \in DOMAIN clients
      PROVE  /\ clients'[c] \in MacClients /\ clients'[c].server = clients[c].server
             /\ clients'[c].late = clients[c].late /\ clients'[c].chunk = clients[c].chunk
             /\ clients'[c].cancelled => clients[c].cancelled \/ clients[c].server = held["unix"]
  <2>1. clients[c] \in MacClients
    BY ClientIs
  <2> QED BY <1>2, <2>1 DEF MacClients
<1>7. clients' \in Seq(MacClients)
  <2>1. clients' \in [1..Len(clients) -> MacClients]
    BY <1>2, <1>4, <1>6
  <2> QED BY <1>4, <2>1
<1>8. ServerTypes'
  BY <1>2, <1>5, <1>7 DEF ServerTypes
<1>9. HeldListens'
  BY <1>2 DEF HeldListens
<1>10. LateIsLast'
  <2>1. SUFFICES ASSUME NEW c \in DOMAIN clients
        PROVE  /\ clients[c].server \in DOMAIN servers
               /\ servers'[clients[c].server].listens => clients[c].late = 0
               /\ clients'[c].cancelled => clients[c].late <= 1 /\ (clients[c].chunk = 0 => clients[c].late = 0)
    BY <1>4, <1>6 DEF LateIsLast
  <2>2. /\ clients[c].server \in DOMAIN servers /\ clients[c].server # 0
        /\ servers[clients[c].server].listens => clients[c].late = 0
        /\ clients[c].cancelled => clients[c].late <= 1 /\ (clients[c].chunk = 0 => clients[c].late = 0)
    BY <1>4, ClientIs
  <2>3. servers'[clients[c].server].listens => clients[c].late = 0
    BY <1>3, <2>2
  <2>4. clients[c].server = held["unix"] => clients[c].late = 0
    BY <2>2 DEF ServerInv, HeldListens, Kinds
  <2> QED BY <1>6, <2>2, <2>3, <2>4
<1>11. StoppedServesOnce'
  BY <1>10 DEF LateIsLast, StoppedServesOnce
<1>12. RunningIsHeld'
  BY <1>2 DEF RunningIsHeld
<1>13. ListeningIsHeld'
  BY <1>3, <1>4 DEF ServerInv, ServersCorrect, ListeningIsHeld
<1>14. NoneCountedTwice'
  <2>1. Cardinality(Counted') \in Nat
    <3>1. IsFiniteSet(1..Len(clients))
      BY <1>4, FS_Interval
    <3>2. Counted' \in SUBSET (1..Len(clients))
      BY <1>4 DEF Counted
    <3> QED BY <3>1, <3>2, FS_Subset, FS_CardinalityType
  <2> QED BY <2>1 DEF NoneCountedTwice, Counted
<1> QED BY <1>8, <1>9, <1>10, <1>11, <1>12, <1>13, <1>14 DEF ServerInv, ServersCorrect

LEMMA StartKeeps ==
  ASSUME ServerInv, NEW kind \in Kinds, NEW ok \in BOOLEAN, StartServerInternal(kind, ok)
  PROVE  ServerInv'
<1> DEFINE n == Len(servers) + 1
           new == [kind |-> kind, listens |-> TRUE]
<1>1. ServerTypes
  BY DEF ServerInv
<1>2. /\ starts > 0 /\ starts' = starts - 1 /\ serverStarting' = FALSE
      /\ activeConnections' = activeConnections /\ clients' = clients
  BY DEF StartServerInternal
<1>3. starts' \in Nat /\ StartingIsStarted'
  BY <1>1, <1>2 DEF ServerTypes, StartingIsStarted
<1>4. NoneCountedTwice' /\ StoppedServesOnce'
  BY <1>2 DEF ServerInv, ServersCorrect, NoneCountedTwice, StoppedServesOnce
<1>5. CASE ~ok
  <2>1. UNCHANGED <<servers, held, serverRunning, overwritten>>
    BY <1>5 DEF StartServerInternal
  <2>2. ServerTypes' /\ HeldListens' /\ LateIsLast'
    BY <1>1, <1>2, <1>3, <2>1 DEF ServerInv, ServerTypes, HeldListens, LateIsLast
  <2>3. RunningIsHeld' /\ ListeningIsHeld'
    BY <2>1 DEF ServerInv, ServersCorrect, RunningIsHeld, ListeningIsHeld
  <2> QED BY <1>3, <1>4, <2>2, <2>3 DEF ServerInv, ServersCorrect
<1>6. CASE ok
  <2>1. /\ servers' = Append(servers, new) /\ held' = [held EXCEPT ![kind] = n] /\ serverRunning' = TRUE
        /\ overwritten' = overwritten \cup ({held[kind]} \ {0})
    BY <1>6 DEF StartServerInternal
  <2>2. new \in MacServers /\ new.listens
    BY DEF MacServers
  <2>3. /\ servers' \in Seq(MacServers) /\ DOMAIN servers = 1..Len(servers) /\ Len(servers) \in Nat
        /\ DOMAIN servers' = 1..n /\ servers'[n] = new /\ \A s \in DOMAIN servers : servers'[s] = servers[s]
    <3>1. servers \in Seq(MacServers)
      BY <1>1 DEF ServerTypes
    <3> HIDE DEF new
    <3> QED BY <2>1, <2>2, <3>1
  <2>4. /\ n \in Nat /\ n # 0 /\ held' \in [Kinds -> Nat] /\ held'[kind] = n
        /\ \A k \in Kinds : k # kind => held'[k] = held[k]
    BY <1>1, <2>1, <2>3 DEF ServerTypes
  <2> HIDE DEF n, new
  <2>5. \A s \in DOMAIN servers' : s \in DOMAIN servers \/ s = n
    BY <2>3 DEF n
  <2>6. \A s \in DOMAIN servers : s \in DOMAIN servers'
    BY <2>3 DEF n
  <2>7. n \in DOMAIN servers'
    BY <2>3 DEF n
  <2>8. ServerTypes'
    BY <1>1, <1>2, <1>3, <2>1, <2>3, <2>4 DEF ServerTypes
  <2>9. HeldListens'
    BY <2>2, <2>3, <2>4, <2>6, <2>7 DEF ServerInv, HeldListens
  <2>10. LateIsLast'
    BY <1>2, <2>3, <2>6 DEF ServerInv, LateIsLast
  <2>11. RunningIsHeld'
    BY <2>1, <2>4 DEF RunningIsHeld
  <2>12. ListeningIsHeld'
    <3>1. SUFFICES ASSUME NEW s \in DOMAIN servers', servers'[s].listens
                   PROVE  (\E k \in Kinds : held'[k] = s) \/ s \in overwritten'
      BY DEF ListeningIsHeld
    <3>2. CASE s = n
      BY <2>4, <3>2
    <3>3. CASE s \in DOMAIN servers
      <4>1. (\E k \in Kinds : held[k] = s) \/ s \in overwritten
        BY <2>3, <3>1, <3>3 DEF ServerInv, ServersCorrect, ListeningIsHeld
      <4>2. s # 0
        BY <2>3, <3>3
      <4> QED BY <2>1, <2>4, <4>1, <4>2
    <3> QED BY <2>5, <3>2, <3>3
  <2> QED BY <1>3, <1>4, <2>8, <2>9, <2>10, <2>11, <2>12 DEF ServerInv, ServersCorrect
<1> QED BY <1>5, <1>6

\* What the app hears of a connection: its beginning once, and then its end.
LEMMA HeardKeeps ==
  ASSUME ServerInv, NEW c \in DOMAIN clients, OpenedHeard(c) \/ ClosedHeard(c)
  PROVE  ServerInv'
<1>1. ServerTypes /\ NoneCountedTwice
  BY DEF ServerInv, ServersCorrect
<1>2. clients \in Seq(MacClients) /\ activeConnections \in Nat /\ clients[c] \in MacClients
  BY <1>1, ClientIs DEF ServerTypes
<1>3. UNCHANGED <<serverRunning, serverStarting, starts, servers, held, overwritten>>
  BY DEF OpenedHeard, ClosedHeard, AppUnchanged
<1>4. IsFiniteSet(Counted) /\ Cardinality(Counted) \in Nat /\ activeConnections <= Cardinality(Counted)
  BY <1>1, CountIs DEF NoneCountedTwice, Counted
<1>5. CASE OpenedHeard(c)
  <2> DEFINE client == [clients[c] EXCEPT !.told = "opened"]
  <2>1. /\ clients' = [clients EXCEPT ![c] = client] /\ activeConnections' = activeConnections + 1
        /\ clients[c].told = "nothing"
    BY <1>5 DEF OpenedHeard, Becomes
  <2>2. /\ client \in MacClients /\ client.server = clients[c].server /\ client.late = clients[c].late
        /\ client.chunk = clients[c].chunk /\ client.cancelled = clients[c].cancelled /\ client.told = "opened"
    BY <1>2 DEF MacClients
  <2> HIDE DEF client
  <2>3. /\ DOMAIN clients' = DOMAIN clients /\ clients'[c] = client
        /\ \A d \in DOMAIN clients : d # c => clients'[d] = clients[d]
    BY <1>2, <2>1
  <2>4. Counted' = Counted \cup {c} /\ c \notin Counted
    BY <2>1, <2>2, <2>3 DEF Counted
  <2>5. Cardinality(Counted') = Cardinality(Counted) + 1
    BY <1>4, <2>4, FS_AddElement
  <2>6. activeConnections' \in Nat /\ activeConnections' <= Cardinality(Counted')
    BY <1>2, <1>4, <2>1, <2>5
  <2>7. NoneCountedTwice'
    BY <2>6 DEF NoneCountedTwice, Counted
  <2>8. /\ servers[client.server].listens => client.late = 0
        /\ client.cancelled => client.late <= 1 /\ (client.chunk = 0 => client.late = 0)
    BY <2>2, ClientIs
  <2> QED BY <1>3, <2>1, <2>2, <2>6, <2>7, <2>8, ClientChanges
<1>6. CASE ClosedHeard(c)
  <2> DEFINE client == [clients[c] EXCEPT !.told = "closed"]
  <2>1. /\ clients' = [clients EXCEPT ![c] = client]
        /\ activeConnections' = IF activeConnections > 0 THEN activeConnections - 1 ELSE 0
        /\ clients[c].told = "opened"
    BY <1>6 DEF ClosedHeard, Becomes
  <2>2. /\ client \in MacClients /\ client.server = clients[c].server /\ client.late = clients[c].late
        /\ client.chunk = clients[c].chunk /\ client.cancelled = clients[c].cancelled /\ client.told # "opened"
    BY <1>2 DEF MacClients
  <2> HIDE DEF client
  <2>3. /\ DOMAIN clients' = DOMAIN clients /\ clients'[c] = client
        /\ \A d \in DOMAIN clients : d # c => clients'[d] = clients[d]
    BY <1>2, <2>1
  <2>4. Counted' = Counted \ {c} /\ c \in Counted
    BY <2>1, <2>2, <2>3 DEF Counted
  <2>5. Cardinality(Counted') = Cardinality(Counted) - 1
    BY <1>4, <2>4, FS_RemoveElement
  <2>6. Cardinality(Counted) > 0
    <3>1. Cardinality(Counted) # 0
      BY <1>4, <2>4, FS_EmptySet
    <3> QED BY <1>4, <3>1
  <2>7. activeConnections' \in Nat /\ activeConnections' <= Cardinality(Counted')
    BY <1>2, <1>4, <2>1, <2>5, <2>6
  <2>8. NoneCountedTwice'
    BY <2>7 DEF NoneCountedTwice, Counted
  <2>9. /\ servers[client.server].listens => client.late = 0
        /\ client.cancelled => client.late <= 1 /\ (client.chunk = 0 => client.late = 0)
    BY <2>2, ClientIs
  <2> QED BY <1>3, <2>1, <2>2, <2>7, <2>8, <2>9, ClientChanges
<1> QED BY <1>5, <1>6

\* The steps of a connection of which the app hears nothing.
LEMMA ConnectionKeeps ==
  ASSUME ServerInv, NEW c \in DOMAIN clients,
         \/ Listed(c) \/ ClientSends(c) \/ ReadRequest(c) \/ ReadChunk(c)
         \/ Responded(c) \/ Answered(c) \/ ConnectionEnds(c)
  PROVE  ServerInv'
<1>1. /\ clients[c] \in MacClients /\ clients[c].chunk \in Nat /\ clients[c].sent \in Nat
      /\ clients[c].late \in Nat
      /\ servers[clients[c].server].listens \in BOOLEAN
      /\ servers[clients[c].server].listens => clients[c].late = 0
      /\ clients[c].cancelled => clients[c].late <= 1 /\ (clients[c].chunk = 0 => clients[c].late = 0)
  BY ClientIs
<1>2. UNCHANGED <<serverRunning, serverStarting, starts, servers, held, overwritten, activeConnections>>
  BY DEF Listed, ClientSends, ReadRequest, ReadChunk, Responded, Answered, ConnectionEnds, AppUnchanged
<1>3. ASSUME NEW client \in MacClients, clients' = [clients EXCEPT ![c] = client],
             client.server = clients[c].server, client.told = clients[c].told,
             servers[client.server].listens => client.late = 0,
             client.cancelled => client.late <= 1 /\ (client.chunk = 0 => client.late = 0)
      PROVE  ServerInv'
  BY <1>2, <1>3, ClientMoves
<1>4. CASE Listed(c)
  <2> DEFINE client == [clients[c] EXCEPT !.listed = TRUE]
  <2>1. clients' = [clients EXCEPT ![c] = client]
    BY <1>4 DEF Listed, Becomes
  <2>2. /\ client \in MacClients /\ client.server = clients[c].server /\ client.told = clients[c].told
        /\ client.late = clients[c].late /\ client.chunk = clients[c].chunk /\ client.cancelled = clients[c].cancelled
    BY <1>1 DEF MacClients
  <2>3. /\ servers[client.server].listens => client.late = 0
        /\ client.cancelled => client.late <= 1 /\ (client.chunk = 0 => client.late = 0)
    BY <1>1, <2>2
  <2> HIDE DEF client
  <2> QED BY <1>3, <2>1, <2>2, <2>3
<1>5. CASE ClientSends(c)
  <2> DEFINE client == [clients[c] EXCEPT !.sent = @ + 1]
  <2>1. clients' = [clients EXCEPT ![c] = client]
    BY <1>5 DEF ClientSends, Becomes
  <2>2. /\ client \in MacClients /\ client.server = clients[c].server /\ client.told = clients[c].told
        /\ client.late = clients[c].late /\ client.chunk = clients[c].chunk /\ client.cancelled = clients[c].cancelled
    BY <1>1 DEF MacClients
  <2>3. /\ servers[client.server].listens => client.late = 0
        /\ client.cancelled => client.late <= 1 /\ (client.chunk = 0 => client.late = 0)
    BY <1>1, <2>2
  <2> HIDE DEF client
  <2> QED BY <1>3, <2>1, <2>2, <2>3
<1>6. CASE ReadRequest(c)
  <2> DEFINE client == [clients[c] EXCEPT !.chunk = 1, !.sent = 0]
  <2>1. clients' = [clients EXCEPT ![c] = client]
    BY <1>6 DEF ReadRequest, Becomes
  <2>2. /\ client \in MacClients /\ client.server = clients[c].server /\ client.told = clients[c].told
        /\ client.late = clients[c].late /\ client.chunk = 1 /\ client.cancelled = clients[c].cancelled
    BY <1>1 DEF MacClients
  <2>3. /\ servers[client.server].listens => client.late = 0
        /\ client.cancelled => client.late <= 1 /\ (client.chunk = 0 => client.late = 0)
    BY <1>1, <2>2
  <2> HIDE DEF client
  <2> QED BY <1>3, <2>1, <2>2, <2>3
<1>7. CASE ReadChunk(c)
  <2> DEFINE late == IF servers[clients[c].server].listens THEN clients[c].late ELSE clients[c].late + 1
             client == [clients[c] EXCEPT !.chunk = clients[c].sent, !.sent = 0, !.late = late]
  <2>1. /\ clients' = [clients EXCEPT ![c] = client] /\ clients[c].chunk = 0 /\ clients[c].sent > 0
    BY <1>7 DEF ReadChunk, Becomes
  <2>2. /\ late \in Nat /\ (servers[clients[c].server].listens => late = 0)
        /\ clients[c].cancelled => late <= 1
    BY <1>1, <2>1
  <2> HIDE DEF late
  <2>3. /\ client \in MacClients /\ client.server = clients[c].server /\ client.told = clients[c].told
        /\ client.late = late /\ client.chunk = clients[c].sent /\ client.cancelled = clients[c].cancelled
    BY <1>1, <2>2 DEF MacClients
  <2>4. client.chunk # 0
    BY <1>1, <2>1, <2>3
  <2> HIDE DEF client
  <2> QED BY <1>3, <2>1, <2>2, <2>3, <2>4
<1>8. CASE Answered(c) /\ ~(clients[c].chunk = 1 /\ clients[c].cancelled)
  <2> DEFINE client == [clients[c] EXCEPT !.chunk = @ - 1]
  <2>1. clients' = [clients EXCEPT ![c] = client] /\ clients[c].chunk > 0
    BY <1>8 DEF Answered, Becomes
  <2>2. /\ client \in MacClients /\ client.server = clients[c].server /\ client.told = clients[c].told
        /\ client.late = clients[c].late /\ client.chunk = clients[c].chunk - 1 /\ client.cancelled = clients[c].cancelled
    BY <1>1, <2>1 DEF MacClients
  <2>3. client.cancelled => client.chunk # 0
    BY <1>1, <1>8, <2>1, <2>2
  <2> HIDE DEF client
  <2> QED BY <1>1, <1>3, <2>1, <2>2, <2>3
<1>9. CASE Answered(c) /\ clients[c].chunk = 1 /\ clients[c].cancelled
  <2>1. Becomes(c, Left(c)) /\ UNCHANGED activeConnections /\ AppUnchanged
    BY <1>9 DEF Answered
  <2> QED BY <2>1, LeftKeeps
<1>10. CASE Responded(c)
  <2>1. Becomes(c, Left(c)) /\ UNCHANGED activeConnections /\ AppUnchanged
    BY <1>10 DEF Responded
  <2> QED BY <2>1, LeftKeeps
<1>11. CASE ConnectionEnds(c)
  <2>1. Becomes(c, Left(c)) /\ UNCHANGED activeConnections /\ AppUnchanged
    BY <1>11 DEF ConnectionEnds
  <2> QED BY <2>1, LeftKeeps
<1> QED BY <1>4, <1>5, <1>6, <1>7, <1>8, <1>9, <1>10, <1>11

\* For any clicks, connections and requests: what the app calls running is what it holds,
\* a server listens on unheld only where another start took its place, a stopped one
\* serves a connection it cancels one chunk more at most, no connection that is over stays
\* counted, and the buttons wait only while there is a start.
THEOREM ServersKeepPromise == ServerSpec => ServersPromise
<1>1. ServerInit => ServerInv
  <2>1. SUFFICES ASSUME ServerInit PROVE ServerInv
    OBVIOUS
  <2>2. /\ serverRunning = FALSE /\ serverStarting = FALSE /\ starts = 0
        /\ servers = <<>> /\ held = [k \in Kinds |-> 0]
        /\ activeConnections = 0 /\ clients = <<>>
    BY <2>1 DEF ServerInit
  <2>3. ServerTypes
    <3>1. held \in [Kinds -> Nat]
      BY <2>2
    <3>2. servers \in Seq(MacServers) /\ clients \in Seq(MacClients)
      BY <2>2
    <3> QED BY <2>2, <3>1, <3>2 DEF ServerTypes
  <2>4. HeldListens /\ LateIsLast /\ RunningIsHeld /\ ListeningIsHeld /\ StoppedServesOnce /\ StartingIsStarted
    BY <2>2 DEF HeldListens, LateIsLast, RunningIsHeld, ListeningIsHeld, StoppedServesOnce, StartingIsStarted
  <2>5. NoneCountedTwice
    <3>1. Cardinality(Counted) \in Nat
      BY <2>3, CountIs
    <3> QED BY <2>2, <3>1 DEF NoneCountedTwice, Counted
  <2> QED BY <2>3, <2>4, <2>5 DEF ServerInv, ServersCorrect
<1>2. ServerInv /\ [ServerNext]_serverVars => ServerInv'
  <2>1. SUFFICES ASSUME ServerInv, [ServerNext]_serverVars PROVE ServerInv'
    OBVIOUS
  <2>2. ServerTypes /\ StartingIsStarted
    BY <2>1 DEF ServerInv, ServersCorrect
  <2>3. CASE StartServerClicked
    <3>1. /\ serverStarting' = TRUE /\ starts' = starts + 1
          /\ UNCHANGED <<serverRunning, servers, held, activeConnections, clients, overwritten>>
      BY <2>3 DEF StartServerClicked
    <3>2. starts \in Nat
      BY <2>2 DEF ServerTypes
    <3>3. starts' \in Nat /\ starts' > 0
      BY <3>1, <3>2
    <3>4. ServerTypes' /\ StartingIsStarted'
      BY <2>2, <3>1, <3>3 DEF ServerTypes, StartingIsStarted
    <3>5. HeldListens' /\ LateIsLast'
      BY <2>1, <3>1 DEF ServerInv, HeldListens, LateIsLast
    <3>6. RunningIsHeld' /\ ListeningIsHeld' /\ StoppedServesOnce' /\ NoneCountedTwice'
      BY <2>1, <3>1 DEF ServerInv, ServersCorrect, RunningIsHeld, ListeningIsHeld, StoppedServesOnce, NoneCountedTwice
    <3> QED BY <3>4, <3>5, <3>6 DEF ServerInv, ServersCorrect
  <2>4. CASE StopServerClicked
    <3>1. /\ StopHeld /\ serverRunning' = FALSE /\ serverStarting' = FALSE /\ activeConnections' = 0
          /\ starts' = starts /\ overwritten' = overwritten
      BY <2>4 DEF StopServerClicked
    <3>2. starts' \in Nat /\ serverStarting' \in BOOLEAN /\ StartingIsStarted'
      BY <2>2, <3>1 DEF ServerTypes, StartingIsStarted
    <3> QED BY <2>1, <3>1, <3>2, StopKeeps
  <2>5. CASE RestartServerClicked
    <3>1. /\ StopHeld /\ serverRunning' = FALSE /\ serverStarting' = TRUE /\ activeConnections' = 0
          /\ starts' = starts + 1 /\ overwritten' = overwritten
      BY <2>5 DEF RestartServerClicked
    <3>2. starts' \in Nat /\ serverStarting' \in BOOLEAN /\ StartingIsStarted'
      BY <2>2, <3>1 DEF ServerTypes, StartingIsStarted
    <3> QED BY <2>1, <3>1, <3>2, StopKeeps
  <2>6. ASSUME NEW kind \in Kinds, NEW ok \in BOOLEAN, StartServerInternal(kind, ok) PROVE ServerInv'
    BY <2>1, <2>6, StartKeeps
  <2>7. ASSUME NEW s \in DOMAIN servers, NewConnection(s) \/ Accept(s) PROVE ServerInv'
    <3>1. clients' = Append(clients, Client(s)) /\ UNCHANGED activeConnections /\ AppUnchanged
      BY <2>7 DEF NewConnection, Accept
    <3> QED BY <2>1, <3>1, NewClientKeeps
  <2>8. ASSUME NEW c \in DOMAIN clients,
               \/ Listed(c) \/ ClientSends(c) \/ ReadRequest(c) \/ ReadChunk(c)
               \/ Responded(c) \/ Answered(c) \/ ConnectionEnds(c)
        PROVE  ServerInv'
    BY <2>1, <2>8, ConnectionKeeps
  <2>9. ASSUME NEW c \in DOMAIN clients, OpenedHeard(c) \/ ClosedHeard(c) PROVE ServerInv'
    BY <2>1, <2>9, HeardKeeps
  <2>10. CASE UNCHANGED serverVars
    BY <2>1, <2>10 DEF serverVars, ServerInv, ServerTypes, HeldListens, LateIsLast, ServersCorrect, RunningIsHeld,
       ListeningIsHeld, StoppedServesOnce, NoneCountedTwice, StartingIsStarted
  <2> QED BY <2>1, <2>3, <2>4, <2>5, <2>6, <2>7, <2>8, <2>9, <2>10 DEF ServerNext
<1>3. ServerInv' => [ServersCorrect']_serverVars
  BY DEF ServerInv
<1> QED BY <1>1, <1>2, <1>3, PTL DEF ServerSpec, ServersPromise

-----------------------------------------------------------------------------
(* The bridge of the macOS app to its MCP server                           *)

McpRequests ==
  [id : Nat, server : Nat, state : {"pending", "answered", "ok", "refused", "failed", "over"}]
McpAnswers == [id : Nat, server : Nat, state : {"ok", "refused"}]
Stages == {"idle", "initialize", "older", "list", "call"}
Awaitings == [stage : Stages \cup {"probe"}, command : Commands \cup {"none"}, request : Nat]
McpServers == [command : Commands, state : {"running", "told", "exited"}, heard : BOOLEAN]
Probes == [up : BOOLEAN, timer : {"none", "set", "reading", "over"}, told : BOOLEAN, resumed : BOOLEAN]

\* Requests that are not over have ids of their own, below the next; an answer that is on
\* its way is of the server of the request with its id; callers await requests of their own.
RequestsInv ==
  /\ mcpRequests \in Seq(McpRequests) /\ nextId \in Nat \ {0}
  /\ chunks \in SUBSET McpAnswers /\ at \in [Callers -> Awaitings]
  /\ \A k \in DOMAIN mcpRequests : mcpRequests[k].state # "over" => mcpRequests[k].id < nextId
  /\ \A k, l \in DOMAIN mcpRequests :
       k # l /\ mcpRequests[k].state # "over" /\ mcpRequests[l].state # "over" => mcpRequests[k].id # mcpRequests[l].id
  /\ \A x \in chunks :
       /\ x.id < nextId
       /\ \A k \in DOMAIN mcpRequests :
            mcpRequests[k].state # "over" /\ mcpRequests[k].id = x.id => mcpRequests[k].server = x.server
  /\ \A c \in Callers : at[c].request # 0 =>
       at[c].request \in DOMAIN mcpRequests /\ mcpRequests[at[c].request].state # "over"
  /\ \A c, d \in Callers : c # d /\ at[c].request # 0 => at[c].request # at[d].request

ProbeInv ==
  /\ probe \in Probes /\ ProbeLeavesNothing
  /\ probe.resumed \/ ~probe.up \/ probe.timer = "set" \/ probe.told

ServersInv ==
  /\ mcp \in Nat /\ procs \in Seq(McpServers) /\ (mcp # 0 => mcp \in DOMAIN procs)
  /\ initialized \in BOOLEAN /\ mixed \in BOOLEAN
  /\ HeldOrTold /\ InitializedIsGreeted

BridgeInv == RequestsInv /\ ServersInv /\ ProbeInv

\* The step that AnsweredByItsServer is about.
AnsweredStep ==
  \A k \in Pending : mcpRequests'[k].state \in {"ok", "refused"}
    => \E chunk \in chunks \ chunks' : chunk.server = mcpRequests[k].server

LEMMA MemberIs ==
  ASSUME NEW S, NEW q \in Seq(S), NEW k \in DOMAIN q
  PROVE  q[k] \in S
OBVIOUS

LEMMA RequestIs ==
  ASSUME RequestsInv, NEW k \in DOMAIN mcpRequests
  PROVE  /\ mcpRequests[k] \in McpRequests /\ mcpRequests[k].id \in Nat /\ mcpRequests[k].server \in Nat
         /\ mcpRequests[k].state \in {"pending", "answered", "ok", "refused", "failed", "over"}
         /\ k \in Nat \ {0}
<1>1. mcpRequests \in Seq(McpRequests)
  BY DEF RequestsInv
<1>2. mcpRequests[k] \in McpRequests /\ k \in Nat \ {0}
  BY <1>1
<1> QED BY <1>2 DEF McpRequests

\* What becomes of the requests when one is sent or given up: all keep id and server, and
\* none is over but the caller's own.
Follows(rs, c) ==
  /\ rs \in Seq(McpRequests) /\ Len(rs) = Len(mcpRequests)
  /\ \A k \in DOMAIN mcpRequests :
       /\ rs[k].state # "over" =>
            mcpRequests[k].state # "over" /\ rs[k].id = mcpRequests[k].id /\ rs[k].server = mcpRequests[k].server
       /\ rs[k].state = "over" => mcpRequests[k].state = "over" \/ k = at[c].request
       /\ k \in Pending => rs[k].state \notin {"ok", "refused"}

\* The caller of a request that is over awaits nothing.
LEMMA IdleKeeps ==
  ASSUME RequestsInv, NEW c \in Callers, NEW rs, Follows(rs, c),
         UNCHANGED <<nextId, chunks>>, mcpRequests' = rs, at' = [at EXCEPT ![c] = Idle]
  PROVE  RequestsInv' /\ AnsweredStep
<1>1. /\ mcpRequests \in Seq(McpRequests) /\ nextId \in Nat \ {0} /\ chunks \in SUBSET McpAnswers
      /\ at \in [Callers -> Awaitings]
  BY DEF RequestsInv
<1>2. /\ rs \in Seq(McpRequests) /\ DOMAIN rs = DOMAIN mcpRequests /\ DOMAIN rs = 1..Len(rs)
      /\ Len(rs) \in Nat
  BY <1>1 DEF Follows
<1>3. ASSUME NEW k \in DOMAIN rs
      PROVE  /\ rs[k].state # "over" =>
                  mcpRequests[k].state # "over" /\ rs[k].id = mcpRequests[k].id /\ rs[k].server = mcpRequests[k].server
             /\ rs[k].state = "over" => mcpRequests[k].state = "over" \/ k = at[c].request
             /\ k \in Pending => rs[k].state \notin {"ok", "refused"}
             /\ rs[k].id \in Nat /\ mcpRequests[k].id \in Nat
  <2>1. rs[k] \in McpRequests
    BY <1>2, MemberIs
  <2>3. mcpRequests[k] \in McpRequests
    BY <1>1, <1>2, MemberIs
  <2>2. rs[k].id \in Nat /\ mcpRequests[k].id \in Nat
    BY <2>1, <2>3 DEF McpRequests
  <2> QED BY <1>2, <2>2 DEF Follows
<1>4. \A k \in Pending : k \in DOMAIN rs
  BY <1>2 DEF Pending
<1>5. /\ at' \in [Callers -> Awaitings] /\ at'[c].request = 0 /\ at'[c].stage = "idle"
      /\ \A d \in Callers : d # c => at'[d] = at[d]
  <2>1. Idle \in Awaitings /\ Idle.request = 0 /\ Idle.stage = "idle"
    BY DEF Awaitings, Idle, Stages
  <2> HIDE DEF Idle
  <2> QED BY <1>1, <1>4, <2>1
<1>6. ASSUME NEW k \in DOMAIN rs, rs[k].state # "over" PROVE rs[k].id < nextId
  BY <1>2, <1>3, <1>6 DEF RequestsInv
<1>7. ASSUME NEW k \in DOMAIN rs, NEW l \in DOMAIN rs, k # l, rs[k].state # "over", rs[l].state # "over"
      PROVE  rs[k].id # rs[l].id
  <2>1. mcpRequests[k].id # mcpRequests[l].id
    BY <1>2, <1>3, <1>7 DEF RequestsInv
  <2> QED BY <1>3, <1>7, <2>1
<1>8. ASSUME NEW x \in chunks
      PROVE  /\ x.id < nextId
             /\ \A k \in DOMAIN rs : rs[k].state # "over" /\ rs[k].id = x.id => rs[k].server = x.server
  BY <1>2, <1>3, <1>8 DEF RequestsInv
<1>9. ASSUME NEW d \in Callers, at'[d].request # 0
      PROVE  at'[d].request \in DOMAIN rs /\ rs[at'[d].request].state # "over"
  <2> DEFINE k == at[d].request
  <2>1. d # c
    BY <1>5, <1>9
  <2>2. /\ at'[d].request = k /\ k \in DOMAIN rs /\ mcpRequests[k].state # "over" /\ k # at[c].request
    BY <1>2, <1>5, <1>9, <2>1 DEF RequestsInv
  <2> HIDE DEF k
  <2> QED BY <1>3, <2>2
<1>10. ASSUME NEW d \in Callers, NEW e \in Callers, d # e, at'[d].request # 0
      PROVE  at'[d].request # at'[e].request
  <2>1. d # c
    BY <1>5, <1>10
  <2>2. at'[d] = at[d]
    BY <1>5, <2>1
  <2>3. CASE e = c
    BY <1>5, <1>10, <2>3
  <2>4. CASE e # c
    <3>1. at'[e] = at[e]
      BY <1>5, <2>4
    <3> QED BY <1>10, <2>2, <3>1 DEF RequestsInv
  <2> QED BY <2>3, <2>4
<1>11. RequestsInv'
  BY <1>1, <1>2, <1>4, <1>5, <1>6, <1>7, <1>8, <1>9, <1>10 DEF RequestsInv
<1>12. AnsweredStep
  BY <1>3, <1>4 DEF AnsweredStep
<1> QED BY <1>11, <1>12

LEMMA SendKeeps ==
  ASSUME RequestsInv, NEW c \in Callers, NEW command \in Commands \cup {"none"}, NEW method \in Stages,
         NEW rs, Follows(rs, c), mcp' \in Nat, chunks' = chunks, SendRequest(c, command, method, rs)
  PROVE  RequestsInv' /\ AnsweredStep
<1> DEFINE n == Len(rs) + 1
           new == [id |-> nextId, server |-> mcp', state |-> "pending"]
<1>1. /\ mcpRequests \in Seq(McpRequests) /\ nextId \in Nat \ {0} /\ chunks \in SUBSET McpAnswers
      /\ at \in [Callers -> Awaitings]
  BY DEF RequestsInv
<1>2. /\ rs \in Seq(McpRequests) /\ DOMAIN rs = DOMAIN mcpRequests /\ DOMAIN rs = 1..Len(rs)
      /\ Len(rs) \in Nat
  BY <1>1 DEF Follows
<1>3. ASSUME NEW k \in DOMAIN rs
      PROVE  /\ rs[k].state # "over" =>
                  mcpRequests[k].state # "over" /\ rs[k].id = mcpRequests[k].id /\ rs[k].server = mcpRequests[k].server
             /\ rs[k].state = "over" => mcpRequests[k].state = "over" \/ k = at[c].request
             /\ k \in Pending => rs[k].state \notin {"ok", "refused"}
             /\ rs[k].id \in Nat /\ mcpRequests[k].id \in Nat
  <2>1. rs[k] \in McpRequests
    BY <1>2, MemberIs
  <2>3. mcpRequests[k] \in McpRequests
    BY <1>1, <1>2, MemberIs
  <2>2. rs[k].id \in Nat /\ mcpRequests[k].id \in Nat
    BY <2>1, <2>3 DEF McpRequests
  <2> QED BY <1>2, <2>2 DEF Follows
<1>4. \A k \in Pending : k \in DOMAIN rs
  BY <1>2 DEF Pending
<1>5. CASE Up(procs', mcp')
  <2>1. /\ mcpRequests' = Append(rs, new) /\ nextId' = nextId + 1
        /\ at' = [at EXCEPT ![c] = [stage |-> method, command |-> command, request |-> n]]
    BY <1>5 DEF SendRequest
  <2>2. new \in McpRequests /\ new.id = nextId /\ new.server = mcp' /\ new.state = "pending"
    BY <1>1 DEF McpRequests
  <2>3. /\ mcpRequests' \in Seq(McpRequests) /\ DOMAIN mcpRequests' = 1..n /\ mcpRequests'[n] = new
        /\ \A k \in DOMAIN rs : mcpRequests'[k] = rs[k]
    <3> HIDE DEF new
    <3> QED BY <1>2, <2>1, <2>2
  <2> HIDE DEF new
  <2>4. /\ n \in Nat \ {0} /\ n \notin DOMAIN rs /\ n \in DOMAIN mcpRequests'
        /\ \A k \in DOMAIN mcpRequests' : k \in DOMAIN rs \/ k = n
        /\ \A k \in DOMAIN rs : k \in DOMAIN mcpRequests' /\ k # n
    BY <1>2, <2>3
  <2> HIDE DEF n
  <2>5. /\ at' \in [Callers -> Awaitings] /\ at'[c].request = n /\ at'[c].stage = method
        /\ \A d \in Callers : d # c => at'[d] = at[d]
    <3>1. [stage |-> method, command |-> command, request |-> n] \in Awaitings
      BY <2>4 DEF Awaitings
    <3> QED BY <1>1, <2>1, <3>1
  <2>6. nextId' \in Nat \ {0} /\ nextId < nextId'
    BY <1>1, <2>1
  <2>7. ASSUME NEW k \in DOMAIN mcpRequests', mcpRequests'[k].state # "over"
        PROVE  mcpRequests'[k].id < nextId'
    <3>1. CASE k = n
      BY <2>2, <2>3, <2>6, <3>1
    <3>2. CASE k \in DOMAIN rs
      <4>1. rs[k].id < nextId /\ rs[k].id \in Nat
        BY <1>2, <1>3, <2>3, <2>7, <3>2 DEF RequestsInv
      <4> QED BY <1>1, <2>1, <2>3, <3>2, <4>1
    <3> QED BY <2>4, <3>1, <3>2
  <2>8. ASSUME NEW k \in DOMAIN mcpRequests', NEW l \in DOMAIN mcpRequests', k # l,
               mcpRequests'[k].state # "over", mcpRequests'[l].state # "over"
        PROVE  mcpRequests'[k].id # mcpRequests'[l].id
    <3>1. \A j \in DOMAIN rs : rs[j].state # "over" => rs[j].id < nextId /\ rs[j].id # nextId
      <4>1. ASSUME NEW j \in DOMAIN rs, rs[j].state # "over" PROVE rs[j].id < nextId /\ rs[j].id \in Nat
        BY <1>2, <1>3, <4>1 DEF RequestsInv
      <4> QED BY <1>1, <4>1
    <3>2. CASE k \in DOMAIN rs /\ l \in DOMAIN rs
      <4>1. rs[k].state # "over" /\ rs[l].state # "over"
        BY <2>3, <2>8, <3>2
      <4>2. mcpRequests[k].id # mcpRequests[l].id
        BY <1>2, <1>3, <2>8, <3>2, <4>1 DEF RequestsInv
      <4> QED BY <1>3, <2>3, <3>2, <4>1, <4>2
    <3>3. CASE k = n
      BY <2>2, <2>3, <2>4, <2>8, <3>1, <3>3
    <3>4. CASE l = n
      BY <2>2, <2>3, <2>4, <2>8, <3>1, <3>4
    <3> QED BY <2>4, <3>2, <3>3, <3>4
  <2>9. ASSUME NEW x \in chunks
        PROVE  /\ x.id < nextId'
               /\ \A k \in DOMAIN mcpRequests' :
                    mcpRequests'[k].state # "over" /\ mcpRequests'[k].id = x.id => mcpRequests'[k].server = x.server
    <3>1. x.id \in Nat /\ x.id < nextId
      BY <1>1 DEF RequestsInv, McpAnswers
    <3>2. x.id < nextId' /\ x.id # nextId
      BY <1>1, <2>1, <3>1
    <3>3. ASSUME NEW k \in DOMAIN mcpRequests', mcpRequests'[k].state # "over", mcpRequests'[k].id = x.id
          PROVE  mcpRequests'[k].server = x.server
      <4>1. k \in DOMAIN rs /\ mcpRequests'[k] = rs[k]
        BY <2>2, <2>3, <2>4, <3>2, <3>3
      <4>2. mcpRequests[k].state # "over" /\ mcpRequests[k].id = x.id /\ rs[k].server = mcpRequests[k].server
        BY <1>3, <3>3, <4>1
      <4> QED BY <1>2, <4>1, <4>2 DEF RequestsInv
    <3> QED BY <3>2, <3>3
  <2>10. ASSUME NEW d \in Callers, at'[d].request # 0
         PROVE  at'[d].request \in DOMAIN mcpRequests' /\ mcpRequests'[at'[d].request].state # "over"
    <3>1. CASE d = c
      BY <2>2, <2>3, <2>4, <2>5, <3>1
    <3>2. CASE d # c
      <4> DEFINE k == at[d].request
      <4>1. /\ at'[d].request = k /\ k \in DOMAIN rs /\ mcpRequests[k].state # "over" /\ k # at[c].request
        BY <1>2, <2>5, <2>10, <3>2 DEF RequestsInv
      <4> HIDE DEF k
      <4>2. rs[k].state # "over"
        BY <1>3, <4>1
      <4> QED BY <2>3, <2>4, <4>1, <4>2
    <3> QED BY <3>1, <3>2
  <2>11. ASSUME NEW d \in Callers, NEW e \in Callers, d # e, at'[d].request # 0
         PROVE  at'[d].request # at'[e].request
    <3>1. ASSUME NEW b \in Callers, b # c PROVE at'[b].request = at[b].request /\ at[b].request # n
      <4>1. at'[b] = at[b]
        BY <2>5, <3>1
      <4>2. at[b].request # 0 => at[b].request \in DOMAIN rs
        BY <1>2 DEF RequestsInv
      <4> QED BY <2>4, <4>1, <4>2
    <3>2. CASE d # c /\ e # c
      BY <2>11, <3>1, <3>2 DEF RequestsInv
    <3>3. CASE d = c \/ e = c
      BY <2>5, <2>11, <3>1, <3>3
    <3> QED BY <3>2, <3>3
  <2>12. RequestsInv'
    BY <1>1, <2>3, <2>5, <2>6, <2>7, <2>8, <2>9, <2>10, <2>11 DEF RequestsInv
  <2>13. AnsweredStep
    BY <1>3, <1>4, <2>3 DEF AnsweredStep
  <2> QED BY <2>12, <2>13
<1>6. CASE ~Up(procs', mcp')
  <2>1. mcpRequests' = rs /\ nextId' = nextId /\ at' = [at EXCEPT ![c] = Idle]
    BY <1>6 DEF SendRequest
  <2> QED BY <2>1, IdleKeeps
<1> QED BY <1>5, <1>6

\* A step that changes no more of the requests than how they stand.
LEMMA StatesKeep ==
  ASSUME RequestsInv, UNCHANGED <<nextId, at>>,
         mcpRequests' \in Seq(McpRequests), DOMAIN mcpRequests' = DOMAIN mcpRequests,
         \A k \in DOMAIN mcpRequests :
           /\ mcpRequests'[k].id = mcpRequests[k].id /\ mcpRequests'[k].server = mcpRequests[k].server
           /\ mcpRequests'[k].state = "over" <=> mcpRequests[k].state = "over",
         chunks' \in SUBSET McpAnswers,
         \A x \in chunks' : x \in chunks \/
           \E k \in DOMAIN mcpRequests : /\ mcpRequests[k].state # "over"
                                         /\ x.id = mcpRequests[k].id /\ x.server = mcpRequests[k].server
  PROVE  RequestsInv'
<1>1. \A x \in chunks' :
        /\ x.id < nextId
        /\ \A k \in DOMAIN mcpRequests :
             mcpRequests[k].state # "over" /\ mcpRequests[k].id = x.id => mcpRequests[k].server = x.server
  <2>1. SUFFICES ASSUME NEW x \in chunks'
        PROVE  /\ x.id < nextId
               /\ \A k \in DOMAIN mcpRequests :
                    mcpRequests[k].state # "over" /\ mcpRequests[k].id = x.id => mcpRequests[k].server = x.server
    OBVIOUS
  <2>2. CASE x \in chunks
    BY <2>2 DEF RequestsInv
  <2>3. CASE \E k \in DOMAIN mcpRequests : /\ mcpRequests[k].state # "over"
                                           /\ x.id = mcpRequests[k].id /\ x.server = mcpRequests[k].server
    <3>1. PICK j \in DOMAIN mcpRequests : /\ mcpRequests[j].state # "over"
                                          /\ x.id = mcpRequests[j].id /\ x.server = mcpRequests[j].server
      BY <2>3
    <3>2. x.id < nextId
      BY <3>1 DEF RequestsInv
    <3>3. \A k \in DOMAIN mcpRequests : mcpRequests[k].state # "over" /\ mcpRequests[k].id = x.id => k = j
      BY <3>1 DEF RequestsInv
    <3> QED BY <3>1, <3>2, <3>3
  <2> QED BY <2>1, <2>2, <2>3
<1>2. \A k \in DOMAIN mcpRequests :
        mcpRequests'[k].id = mcpRequests[k].id /\ (mcpRequests'[k].state # "over" <=> mcpRequests[k].state # "over")
  OBVIOUS
<1>3. \A k \in DOMAIN mcpRequests' : mcpRequests'[k].state # "over" => mcpRequests'[k].id < nextId'
  BY <1>2 DEF RequestsInv
<1>4. \A k, l \in DOMAIN mcpRequests' :
        k # l /\ mcpRequests'[k].state # "over" /\ mcpRequests'[l].state # "over" => mcpRequests'[k].id # mcpRequests'[l].id
  BY <1>2 DEF RequestsInv
<1>5. \A x \in chunks' :
        /\ x.id < nextId'
        /\ \A k \in DOMAIN mcpRequests' :
             mcpRequests'[k].state # "over" /\ mcpRequests'[k].id = x.id => mcpRequests'[k].server = x.server
  BY <1>1, <1>2
<1>6. \A c \in Callers : at'[c].request # 0 =>
        at'[c].request \in DOMAIN mcpRequests' /\ mcpRequests'[at'[c].request].state # "over"
  BY <1>2 DEF RequestsInv
<1>7. \A c, d \in Callers : c # d /\ at'[c].request # 0 => at'[c].request # at'[d].request
  BY DEF RequestsInv
<1>8. /\ mcpRequests' \in Seq(McpRequests) /\ nextId' \in Nat \ {0}
      /\ chunks' \in SUBSET McpAnswers /\ at' \in [Callers -> Awaitings]
  BY DEF RequestsInv
<1> QED BY <1>3, <1>4, <1>5, <1>6, <1>7, <1>8 DEF RequestsInv

LEMMA FailAllIs ==
  ASSUME RequestsInv
  PROVE  /\ FailAllPending \in Seq(McpRequests) /\ DOMAIN FailAllPending = DOMAIN mcpRequests
         /\ Len(FailAllPending) = Len(mcpRequests)
         /\ \A k \in DOMAIN mcpRequests :
              /\ FailAllPending[k].id = mcpRequests[k].id /\ FailAllPending[k].server = mcpRequests[k].server
              /\ FailAllPending[k].state = "over" <=> mcpRequests[k].state = "over"
              /\ k \in Pending => FailAllPending[k].state = "failed"
<1> DEFINE f == FailAllPending
<1>1. mcpRequests \in Seq(McpRequests) /\ DOMAIN mcpRequests = 1..Len(mcpRequests) /\ Len(mcpRequests) \in Nat
  BY DEF RequestsInv
<1>2. ASSUME NEW k \in DOMAIN mcpRequests
      PROVE  /\ f[k] \in McpRequests /\ f[k].id = mcpRequests[k].id /\ f[k].server = mcpRequests[k].server
             /\ f[k].state = "over" <=> mcpRequests[k].state = "over"
             /\ k \in Pending => f[k].state = "failed"
  <2>1. mcpRequests[k] \in McpRequests
    BY <1>1
  <2>2. f[k] = IF k \in Pending THEN [mcpRequests[k] EXCEPT !.state = "failed"] ELSE mcpRequests[k]
    BY DEF FailAllPending
  <2>3. k \in Pending => mcpRequests[k].state \in {"pending", "answered"}
    BY DEF Pending
  <2> QED BY <2>1, <2>2, <2>3 DEF McpRequests
<1>3. f \in [1..Len(mcpRequests) -> McpRequests]
  <2>1. DOMAIN f = 1..Len(mcpRequests) /\ f = [k \in 1..Len(mcpRequests) |-> f[k]]
    BY <1>1 DEF FailAllPending
  <2> HIDE DEF f
  <2> QED BY <1>1, <1>2, <2>1
<1> HIDE DEF f
<1>4. f \in Seq(McpRequests) /\ DOMAIN f = DOMAIN mcpRequests /\ Len(f) = Len(mcpRequests)
  BY <1>1, <1>3
<1> QED BY <1>2, <1>4 DEF f

LEMMA GivenUp ==
  ASSUME RequestsInv, UNCHANGED <<nextId, at, chunks>>, mcpRequests' = FailAllPending
  PROVE  RequestsInv' /\ AnsweredStep
<1>1. RequestsInv'
  BY FailAllIs, StatesKeep DEF RequestsInv
<1>2. \A k \in Pending : k \in DOMAIN mcpRequests /\ mcpRequests'[k].state = "failed"
  BY FailAllIs DEF Pending
<1> QED BY <1>1, <1>2 DEF AnsweredStep

-----------------------------------------------------------------------------
(* The requests in each step                                               *)

LEMMA TimeoutKeeps ==
  ASSUME RequestsInv, NEW k \in DOMAIN mcpRequests, TimeoutRequest(k)
  PROVE  RequestsInv' /\ AnsweredStep
<1> DEFINE f == mcpRequests'
<1>1. /\ mcpRequests \in Seq(McpRequests) /\ mcpRequests[k] \in McpRequests /\ k \in Pending
      /\ f = [mcpRequests EXCEPT ![k] = [mcpRequests[k] EXCEPT !.state = "failed"]]
      /\ UNCHANGED <<nextId, at, chunks>>
  BY MemberIs DEF TimeoutRequest, RequestsInv
<1>2. /\ [mcpRequests[k] EXCEPT !.state = "failed"] \in McpRequests
      /\ [mcpRequests[k] EXCEPT !.state = "failed"].id = mcpRequests[k].id
      /\ [mcpRequests[k] EXCEPT !.state = "failed"].server = mcpRequests[k].server
      /\ [mcpRequests[k] EXCEPT !.state = "failed"].state = "failed"
      /\ mcpRequests[k].state # "over"
  BY <1>1 DEF McpRequests, Pending
<1>3. /\ f \in Seq(McpRequests) /\ DOMAIN f = DOMAIN mcpRequests
      /\ f[k] = [mcpRequests[k] EXCEPT !.state = "failed"]
      /\ \A l \in DOMAIN mcpRequests : l # k => f[l] = mcpRequests[l]
  BY <1>1, <1>2
<1>4. \A l \in DOMAIN mcpRequests :
        /\ f[l].id = mcpRequests[l].id /\ f[l].server = mcpRequests[l].server
        /\ f[l].state = "over" <=> mcpRequests[l].state = "over"
  BY <1>2, <1>3
<1>5. RequestsInv'
  <2>1. chunks' \in SUBSET McpAnswers
    BY <1>1 DEF RequestsInv
  <2> QED BY <1>1, <1>3, <1>4, <2>1, StatesKeep
<1>6. AnsweredStep
  BY <1>2, <1>3 DEF AnsweredStep, Pending
<1> QED BY <1>5, <1>6

LEMMA AnswersKeep ==
  ASSUME RequestsInv, NEW k \in DOMAIN mcpRequests, NEW state \in {"ok", "refused"}, Answers(k, state)
  PROVE  RequestsInv' /\ AnsweredStep
<1> DEFINE f == mcpRequests'
           x == [mcpRequests[k] EXCEPT !.state = state]
<1>1. /\ mcpRequests \in Seq(McpRequests) /\ mcpRequests[k] \in McpRequests /\ mcpRequests[k].state = "pending"
      /\ f = [mcpRequests EXCEPT ![k] = [mcpRequests[k] EXCEPT !.state = "answered"]]
      /\ UNCHANGED <<nextId, at>> /\ chunks' = chunks \cup {x} /\ chunks \in SUBSET McpAnswers
  BY MemberIs DEF Answers, RequestsInv
<1>2. /\ [mcpRequests[k] EXCEPT !.state = "answered"] \in McpRequests
      /\ [mcpRequests[k] EXCEPT !.state = "answered"].id = mcpRequests[k].id
      /\ [mcpRequests[k] EXCEPT !.state = "answered"].server = mcpRequests[k].server
      /\ [mcpRequests[k] EXCEPT !.state = "answered"].state = "answered"
  BY <1>1 DEF McpRequests
<1>3. /\ f \in Seq(McpRequests) /\ DOMAIN f = DOMAIN mcpRequests
      /\ f[k] = [mcpRequests[k] EXCEPT !.state = "answered"]
      /\ \A l \in DOMAIN mcpRequests : l # k => f[l] = mcpRequests[l]
  BY <1>1, <1>2
<1>4. \A l \in DOMAIN mcpRequests :
        /\ f[l].id = mcpRequests[l].id /\ f[l].server = mcpRequests[l].server
        /\ f[l].state = "over" <=> mcpRequests[l].state = "over"
  BY <1>1, <1>2, <1>3
<1>5. x \in McpAnswers /\ x.id = mcpRequests[k].id /\ x.server = mcpRequests[k].server
  BY <1>1 DEF McpRequests, McpAnswers
<1> HIDE DEF x
<1>6. RequestsInv'
  <2>1. /\ chunks' \in SUBSET McpAnswers
        /\ \A y \in chunks' : y \in chunks \/
             \E l \in DOMAIN mcpRequests : /\ mcpRequests[l].state # "over"
                                           /\ y.id = mcpRequests[l].id /\ y.server = mcpRequests[l].server
    BY <1>1, <1>5
  <2> HIDE DEF f
  <2>2. f \in Seq(McpRequests) /\ f = mcpRequests'
    BY <1>3 DEF f
  <2> QED BY <1>1, <1>3, <1>4, <2>1, <2>2, StatesKeep, ZenonT(60)
<1>7. AnsweredStep
  BY <1>1, <1>2, <1>3 DEF AnsweredStep, Pending
<1> QED BY <1>6, <1>7

LEMMA ConsumeKeeps ==
  ASSUME RequestsInv, NEW chunk \in chunks, NEW whole \in BOOLEAN, ConsumeStdout(chunk, whole)
  PROVE  RequestsInv' /\ AnsweredStep
<1> DEFINE waiting == {k \in Pending : whole /\ mcpRequests[k].id = chunk.id}
           f == mcpRequests'
<1>1. /\ mcpRequests \in Seq(McpRequests) /\ DOMAIN mcpRequests = 1..Len(mcpRequests) /\ Len(mcpRequests) \in Nat
      /\ UNCHANGED <<nextId, at>> /\ chunks' = chunks \ {chunk} /\ chunks \in SUBSET McpAnswers
  BY DEF ConsumeStdout, RequestsInv
<1>2. f = [k \in 1..Len(mcpRequests) |->
             IF k \in waiting THEN [mcpRequests[k] EXCEPT !.state = chunk.state] ELSE mcpRequests[k]]
  BY <1>1 DEF ConsumeStdout
<1>3. chunk.state \in {"ok", "refused"}
  BY <1>1 DEF McpAnswers
<1>4. ASSUME NEW k \in DOMAIN mcpRequests
      PROVE  /\ f[k] \in McpRequests /\ f[k].id = mcpRequests[k].id /\ f[k].server = mcpRequests[k].server
             /\ f[k].state = "over" <=> mcpRequests[k].state = "over"
             /\ k \notin waiting => f[k] = mcpRequests[k]
  <2>1. mcpRequests[k] \in McpRequests
    BY <1>1, MemberIs
  <2>2. f[k] = IF k \in waiting THEN [mcpRequests[k] EXCEPT !.state = chunk.state] ELSE mcpRequests[k]
    BY <1>1, <1>2
  <2>3. k \in waiting => mcpRequests[k].state \in {"pending", "answered"}
    BY DEF Pending
  <2> HIDE DEF waiting, f
  <2> QED BY <1>3, <2>1, <2>2, <2>3 DEF McpRequests
<1>5. f \in [1..Len(mcpRequests) -> McpRequests]
  <2>1. DOMAIN f = 1..Len(mcpRequests) /\ f = [k \in 1..Len(mcpRequests) |-> f[k]]
    BY <1>2
  <2> HIDE DEF f
  <2> QED BY <1>1, <1>4, <2>1
<1>6. f \in Seq(McpRequests) /\ DOMAIN f = DOMAIN mcpRequests
  <2> HIDE DEF f
  <2> QED BY <1>1, <1>5
<1>7. RequestsInv'
  BY <1>1, <1>4, <1>6, StatesKeep
<1>8. AnsweredStep
  <2>1. SUFFICES ASSUME NEW k \in Pending, f[k].state \in {"ok", "refused"}
                 PROVE  \E x \in chunks \ chunks' : x.server = mcpRequests[k].server
    BY DEF AnsweredStep
  <2>2. k \in DOMAIN mcpRequests /\ mcpRequests[k].state \in {"pending", "answered"}
    BY DEF Pending
  <2>3. k \in waiting
    BY <1>4, <2>1, <2>2
  <2>4. mcpRequests[k].id = chunk.id
    BY <2>3
  <2>5. mcpRequests[k].server = chunk.server
    BY <2>2, <2>4 DEF RequestsInv
  <2>6. chunk \in chunks \ chunks'
    BY <1>1
  <2> QED BY <2>5, <2>6
<1> QED BY <1>7, <1>8

\* A caller sends a request while the others stand as they do.
LEMMA FollowsNow ==
  ASSUME RequestsInv, NEW c \in Callers
  PROVE  Follows(mcpRequests, c)
BY DEF Follows, RequestsInv, Pending

LEMMA FollowsFailed ==
  ASSUME RequestsInv, NEW c \in Callers
  PROVE  Follows(FailAllPending, c)
BY FailAllIs DEF Follows

LEMMA FollowsOver ==
  ASSUME RequestsInv, NEW c \in Callers, at[c].request # 0,
         mcpRequests[at[c].request].state \in {"ok", "refused", "failed"}
  PROVE  Follows([mcpRequests EXCEPT ![at[c].request] = Over], c)
<1> DEFINE k == at[c].request
           f == [mcpRequests EXCEPT ![k] = Over]
<1>1. /\ mcpRequests \in Seq(McpRequests) /\ DOMAIN mcpRequests = 1..Len(mcpRequests) /\ Len(mcpRequests) \in Nat
      /\ k \in DOMAIN mcpRequests
  BY DEF RequestsInv
<1>2. Over \in McpRequests /\ Over.state = "over"
  BY DEF Over, McpRequests
<1> HIDE DEF Over, k
<1>3. /\ f \in Seq(McpRequests) /\ Len(f) = Len(mcpRequests) /\ f[k] = Over
      /\ \A l \in DOMAIN mcpRequests : l # k => f[l] = mcpRequests[l]
  BY <1>1, <1>2
<1> HIDE DEF f
<1>4. \A l \in Pending : mcpRequests[l].state \notin {"ok", "refused"}
  BY DEF Pending
<1>5. Follows(f, c)
  BY <1>1, <1>2, <1>3, <1>4 DEF Follows, k
<1> QED BY <1>5 DEF f, k

LEMMA StartSends ==
  ASSUME RequestsInv, ServersInv, NEW c \in Callers, NEW command \in Commands, NEW lives \in BOOLEAN,
         StartServer(c, command, lives)
  PROVE  RequestsInv' /\ AnsweredStep
<1>1. Len(procs) \in Nat
  BY DEF ServersInv
<1>2. mcp' \in Nat /\ chunks' = chunks /\ SendRequest(c, command, "initialize", FailAllPending)
  BY <1>1 DEF StartServer
<1>3. Follows(FailAllPending, c)
  BY FollowsFailed
<1>4. "initialize" \in Stages
  BY DEF Stages
<1> QED BY <1>2, <1>3, <1>4, SendKeeps

LEMMA ResumesKeeps ==
  ASSUME RequestsInv, ServersInv, NEW c \in Callers, Resumes(c)
  PROVE  RequestsInv' /\ AnsweredStep
<1> DEFINE k == at[c].request
           mine == mcpRequests[k]
           others == [mcpRequests EXCEPT ![k] = Over]
<1>1. k # 0 /\ mine.state \in {"ok", "refused", "failed"} /\ chunks' = chunks
  BY DEF Resumes
<1>2. Follows(others, c)
  BY <1>1, FollowsOver
<1>3. at[c] \in Awaitings
  BY DEF RequestsInv
<1>4. at[c].command \in Commands \cup {"none"} /\ "older" \in Stages /\ "list" \in Stages
  BY <1>3 DEF Awaitings, Stages
<1>5. CASE mine.state = "refused" /\ at[c].stage = "initialize"
  <2>1. mcp' = mcp /\ SendRequest(c, at[c].command, "older", others)
    BY <1>1, <1>5 DEF Resumes
  <2>2. mcp' \in Nat
    BY <2>1 DEF ServersInv
  <2> HIDE DEF others
  <2> QED BY <1>1, <1>2, <1>4, <2>1, <2>2, SendKeeps
<1>6. CASE mine.state = "ok" /\ at[c].stage \in {"initialize", "older"} /\ mcp # 0
  <2>1. mcp' = mcp /\ SendRequest(c, at[c].command, "list", others)
    BY <1>1, <1>6 DEF Resumes
  <2>2. mcp' \in Nat
    BY <2>1 DEF ServersInv
  <2> HIDE DEF others
  <2> QED BY <1>1, <1>2, <1>4, <2>1, <2>2, SendKeeps
<1>7. CASE /\ ~(mine.state = "refused" /\ at[c].stage = "initialize")
           /\ ~(mine.state = "ok" /\ at[c].stage \in {"initialize", "older"} /\ mcp # 0)
  <2>1. at' = [at EXCEPT ![c] = Idle] /\ mcpRequests' = others /\ UNCHANGED <<mcp, procs, nextId>>
    BY <1>7 DEF Resumes
  <2> HIDE DEF others
  <2> QED BY <1>1, <1>2, <2>1, IdleKeeps
<1> QED BY <1>1, <1>5, <1>6, <1>7 DEF Resumes

LEMMA RequestsStep ==
  ASSUME RequestsInv, ServersInv, BridgeNext
  PROVE  RequestsInv' /\ AnsweredStep
<1>1. mcp \in Nat /\ "list" \in Stages /\ "call" \in Stages
  BY DEF ServersInv, Stages
<1>2. ASSUME NEW c \in Callers, NEW command \in Commands, NEW lives \in BOOLEAN, Discover(c, command, lives)
      PROVE  RequestsInv' /\ AnsweredStep
  <2>1. CASE Up(procs, mcp) /\ initialized /\ procs[mcp].command = command
    <3>1. mcp' \in Nat /\ chunks' = chunks /\ SendRequest(c, command, "list", mcpRequests)
      BY <1>1, <1>2, <2>1 DEF Discover
    <3>2. Follows(mcpRequests, c)
      BY FollowsNow
    <3> QED BY <1>1, <3>1, <3>2, SendKeeps
  <2>2. CASE ~(Up(procs, mcp) /\ initialized /\ procs[mcp].command = command)
    <3>1. StartServer(c, command, lives)
      BY <1>2, <2>2 DEF Discover
    <3> QED BY <3>1, StartSends
  <2> QED BY <2>1, <2>2
<1>3. ASSUME NEW c \in Callers, CallTool(c) PROVE RequestsInv' /\ AnsweredStep
  <2>1. mcp' \in Nat /\ chunks' = chunks /\ SendRequest(c, "none", "call", mcpRequests)
    BY <1>1, <1>3 DEF CallTool
  <2>2. Follows(mcpRequests, c)
    BY FollowsNow
  <2> QED BY <1>1, <2>1, <2>2, SendKeeps
\* A caller that begins or ends a probe awaits no request then.
<1>4. ASSUME NEW c \in Callers, NEW s \in {"probe", "idle"}, NEW command \in Commands \cup {"none"},
             at' = [at EXCEPT ![c] = [stage |-> s, command |-> command, request |-> 0]],
             UNCHANGED <<mcpRequests, nextId, chunks>>
      PROVE  RequestsInv' /\ AnsweredStep
  <2> DEFINE new == [stage |-> s, command |-> command, request |-> 0]
  <2>1. new \in Awaitings /\ new.request = 0
    BY DEF Awaitings, Stages
  <2> HIDE DEF new
  <2>2. at \in [Callers -> Awaitings]
    BY DEF RequestsInv
  <2>3. /\ at' \in [Callers -> Awaitings] /\ at'[c].request = 0
        /\ \A d \in Callers : d # c => at'[d] = at[d]
    BY <1>4, <2>1, <2>2 DEF new
  <2>4. \A d \in Callers : at'[d].request # 0 => d # c /\ at'[d].request = at[d].request
    BY <2>3
  <2>5. \A d, e \in Callers : d # e /\ at'[d].request # 0 => at'[d].request # at'[e].request
    <3>1. SUFFICES ASSUME NEW d \in Callers, NEW e \in Callers, d # e, at'[d].request # 0
                   PROVE  at'[d].request # at'[e].request
      OBVIOUS
    <3>2. CASE at'[e].request = 0
      BY <3>1, <3>2
    <3>3. CASE at'[e].request # 0
      BY <2>4, <3>1, <3>3 DEF RequestsInv
    <3> QED BY <3>2, <3>3
  <2>6. RequestsInv'
    BY <1>4, <2>3, <2>4, <2>5 DEF RequestsInv
  <2>7. AnsweredStep
    BY <1>4 DEF AnsweredStep, Pending
  <2> QED BY <2>6, <2>7
<1>5. ASSUME NEW c \in Callers, NEW command \in Commands, NEW lives \in BOOLEAN, Diagnose(c, command, lives)
      PROVE  RequestsInv' /\ AnsweredStep
  BY <1>4, <1>5 DEF Diagnose
<1>6. ASSUME NEW c \in Callers, HealthChecked(c) PROVE RequestsInv' /\ AnsweredStep
  BY <1>4, <1>6 DEF HealthChecked, Idle
<1>7. ASSUME UNCHANGED <<mcpRequests, nextId, chunks, at>> PROVE RequestsInv' /\ AnsweredStep
  BY <1>7 DEF RequestsInv, AnsweredStep, Pending
<1>8. ASSUME NEW p \in DOMAIN procs, ServerExits(p) PROVE RequestsInv' /\ AnsweredStep
  BY <1>7, <1>8 DEF ServerExits
<1>9. ASSUME NEW p \in DOMAIN procs, HandleTermination(p) PROVE RequestsInv' /\ AnsweredStep
  BY <1>9, GivenUp DEF HandleTermination
<1>10. ASSUME StopBridge PROVE RequestsInv' /\ AnsweredStep
  BY <1>10, GivenUp DEF StopBridge
<1>11. ASSUME ProbeExits \/ ProbeHeard \/ ProbeTimer \/ ProbeRead PROVE RequestsInv' /\ AnsweredStep
  BY <1>7, <1>11 DEF ProbeExits, ProbeHeard, ProbeTimer, ProbeRead, Probed
<1> QED BY <1>2, <1>3, <1>5, <1>6, <1>8, <1>9, <1>10, <1>11,
           TimeoutKeeps, AnswersKeep, ConsumeKeeps, ResumesKeeps DEF BridgeNext

-----------------------------------------------------------------------------
(* The servers and the probe in each step                                  *)

LEMMA ToldIs ==
  ASSUME ServersInv
  PROVE  /\ Told \in Seq(McpServers) /\ DOMAIN Told = DOMAIN procs /\ Len(Told) = Len(procs)
         /\ \A p \in DOMAIN procs : Told[p].state = "running" => procs[p].state = "running" /\ p \in orphaned
<1>1. procs \in Seq(McpServers) /\ mcp \in Nat /\ (mcp # 0 => mcp \in DOMAIN procs) /\ HeldOrTold
  BY DEF ServersInv
<1>2. CASE Up(procs, mcp)
  <2> DEFINE gone == [procs[mcp] EXCEPT !.state = "told"]
  <2>1. mcp \in DOMAIN procs /\ Told = [procs EXCEPT ![mcp] = gone]
    BY <1>1, <1>2 DEF Told, Up
  <2>2. gone \in McpServers /\ gone.state = "told"
    <3>1. procs[mcp] \in McpServers
      BY <1>1, <2>1, MemberIs
    <3> QED BY <3>1 DEF McpServers
  <2> HIDE DEF gone
  <2>3. /\ Told \in Seq(McpServers) /\ DOMAIN Told = DOMAIN procs /\ Len(Told) = Len(procs)
        /\ Told[mcp] = gone /\ \A p \in DOMAIN procs : p # mcp => Told[p] = procs[p]
    BY <1>1, <2>1, <2>2
  <2> QED BY <1>1, <2>2, <2>3 DEF HeldOrTold
<1>3. CASE ~Up(procs, mcp)
  <2>1. Told = procs
    BY <1>3 DEF Told
  <2>2. \A p \in DOMAIN procs : procs[p].state = "running" => p # mcp
    <3>1. \A p \in DOMAIN procs : p # 0
      BY <1>1
    <3> QED BY <1>3, <3>1 DEF Up
  <2> QED BY <1>1, <2>1, <2>2 DEF HeldOrTold
<1> QED BY <1>2, <1>3

LEMMA StartServes ==
  ASSUME ServersInv, NEW c \in Callers, NEW command \in Commands, NEW lives \in BOOLEAN,
         StartServer(c, command, lives), UNCHANGED <<greeted, orphaned, mixed>>
  PROVE  ServersInv'
<1> DEFINE new == ProbeStarted(command)
<1>1. /\ Told \in Seq(McpServers) /\ DOMAIN Told = DOMAIN procs /\ DOMAIN Told = 1..Len(Told)
      /\ Len(Told) = Len(procs) /\ Len(Told) \in Nat
      /\ \A p \in DOMAIN Told : Told[p].state = "running" => p \in orphaned
  BY ToldIs
<1>2. /\ initialized' = FALSE
      /\ mcp' = IF lives THEN Len(Told) + 1 ELSE 0
      /\ procs' = IF lives THEN Append(Told, new) ELSE Told
  BY <1>1 DEF StartServer
<1>3. new \in McpServers
  BY DEF ProbeStarted, McpServers
<1> HIDE DEF new
<1>4. mixed' \in BOOLEAN /\ orphaned' = orphaned
  BY DEF ServersInv
<1>5. CASE lives
  <2>1. /\ procs' \in Seq(McpServers) /\ DOMAIN procs' = 1..(Len(Told) + 1)
        /\ \A p \in DOMAIN Told : procs'[p] = Told[p]
        /\ mcp' = Len(Told) + 1
    BY <1>1, <1>2, <1>3, <1>5
  <2>2. \A p \in DOMAIN procs' : p \in DOMAIN Told \/ p = mcp'
    BY <1>1, <2>1
  <2>3. HeldOrTold'
    BY <1>1, <1>4, <2>1, <2>2 DEF HeldOrTold
  <2>4. mcp' \in Nat /\ mcp' \in DOMAIN procs'
    BY <1>1, <2>1
  <2> QED BY <1>2, <1>4, <2>1, <2>3, <2>4 DEF ServersInv, InitializedIsGreeted
<1>6. CASE ~lives
  <2>1. procs' = Told /\ mcp' = 0
    BY <1>2, <1>6
  <2>2. HeldOrTold'
    BY <1>1, <1>4, <2>1 DEF HeldOrTold
  <2>3. InitializedIsGreeted' /\ initialized' \in BOOLEAN
    BY <1>2 DEF InitializedIsGreeted
  <2> QED BY <1>1, <1>4, <2>1, <2>2, <2>3 DEF ServersInv
<1> QED BY <1>5, <1>6

LEMMA ServersStep ==
  ASSUME ServersInv, BridgeNext
  PROVE  ServersInv'
<1>1. ASSUME UNCHANGED <<mcp, procs, initialized, greeted, orphaned, mixed>> PROVE ServersInv'
  BY <1>1 DEF ServersInv, HeldOrTold, InitializedIsGreeted
<1>2. ASSUME NEW c \in Callers, NEW command \in Commands, NEW lives \in BOOLEAN, Discover(c, command, lives)
      PROVE  ServersInv'
  <2>1. CASE Up(procs, mcp) /\ initialized /\ procs[mcp].command = command
    BY <1>1, <1>2, <2>1 DEF Discover
  <2>2. CASE ~(Up(procs, mcp) /\ initialized /\ procs[mcp].command = command)
    <3>1. StartServer(c, command, lives) /\ UNCHANGED <<greeted, orphaned, mixed>>
      BY <1>2, <2>2 DEF Discover
    <3> QED BY <3>1, StartServes
  <2> QED BY <2>1, <2>2
<1>3. ASSUME NEW c \in Callers, Resumes(c) PROVE ServersInv'
  <2>1. UNCHANGED <<mcp, procs, orphaned>>
    BY <1>3 DEF Resumes
  <2>2. \/ UNCHANGED <<initialized, greeted, mixed>>
        \/ /\ initialized' = TRUE
           /\ greeted' = greeted \cup {mcp} /\ mixed' = mixed
        \/ initialized' = TRUE /\ greeted' = greeted /\ mixed' = TRUE
    BY <1>3 DEF Resumes, ServersInv
  <2>3. HeldOrTold'
    BY <2>1 DEF ServersInv, HeldOrTold
  <2>4. InitializedIsGreeted'
    BY <2>1, <2>2 DEF ServersInv, InitializedIsGreeted
  <2>5. initialized' \in BOOLEAN /\ mixed' \in BOOLEAN
    BY <2>2 DEF ServersInv
  <2> QED BY <2>1, <2>3, <2>4, <2>5 DEF ServersInv
<1>4. ASSUME NEW p \in DOMAIN procs, ServerExits(p) \/ HandleTermination(p) PROVE ServersInv'
  <2>1. /\ procs \in Seq(McpServers) /\ procs[p] \in McpServers /\ p # 0
        /\ HeldOrTold /\ InitializedIsGreeted /\ mcp \in Nat /\ (mcp # 0 => mcp \in DOMAIN procs)
        /\ initialized \in BOOLEAN /\ mixed \in BOOLEAN
    BY MemberIs DEF ServersInv
  <2>2. CASE ServerExits(p)
    <3> DEFINE ended == [procs[p] EXCEPT !.state = "exited"]
    <3>1. /\ procs' = [procs EXCEPT ![p] = ended]
          /\ UNCHANGED <<mcp, initialized, greeted, orphaned, mixed>>
      BY <2>2 DEF ServerExits
    <3>2. ended \in McpServers /\ ended.state = "exited"
      BY <2>1 DEF McpServers
    <3> HIDE DEF ended
    <3>3. /\ procs' \in Seq(McpServers) /\ DOMAIN procs' = DOMAIN procs /\ procs'[p] = ended
          /\ \A q \in DOMAIN procs : q # p => procs'[q] = procs[q]
      BY <2>1, <3>1, <3>2
    <3>4. HeldOrTold'
      BY <2>1, <3>1, <3>2, <3>3 DEF HeldOrTold
    <3> QED BY <2>1, <3>1, <3>3, <3>4 DEF ServersInv, InitializedIsGreeted
  <2>3. CASE HandleTermination(p)
    <3> DEFINE ended == [procs[p] EXCEPT !.heard = TRUE]
    <3>1. /\ procs' = [procs EXCEPT ![p] = ended]
          /\ mcp' = 0 /\ initialized' = FALSE /\ mixed' = mixed
          /\ orphaned' = orphaned \cup ({mcp} \ {0, p})
          /\ procs[p].state = "exited"
      BY <2>3 DEF HandleTermination
    <3>2. ended \in McpServers /\ ended.state = "exited"
      BY <2>1, <3>1 DEF McpServers
    <3> HIDE DEF ended
    <3>3. /\ procs' \in Seq(McpServers) /\ DOMAIN procs' = DOMAIN procs /\ procs'[p] = ended
          /\ \A q \in DOMAIN procs : q # p => procs'[q] = procs[q]
      BY <2>1, <3>1, <3>2
    <3>4. \A q \in DOMAIN procs : q # 0
      BY <2>1
    <3>5. HeldOrTold'
      <4>1. SUFFICES ASSUME NEW q \in DOMAIN procs, procs'[q].state = "running" PROVE q \in orphaned'
        BY <3>3 DEF HeldOrTold
      <4>2. q # p /\ procs[q].state = "running"
        BY <3>2, <3>3, <4>1
      <4>3. q = mcp \/ q \in orphaned
        BY <2>1, <4>2 DEF HeldOrTold
      <4> QED BY <3>1, <3>4, <4>2, <4>3
    <3> QED BY <2>1, <3>1, <3>3, <3>5 DEF ServersInv, InitializedIsGreeted
  <2> QED BY <1>4, <2>2, <2>3
<1>5. ASSUME StopBridge PROVE ServersInv'
  <2>1. mcp' = 0 /\ procs' = Told /\ initialized' = FALSE /\ UNCHANGED <<greeted, orphaned, mixed>>
    BY <1>5 DEF StopBridge
  <2>2. /\ Told \in Seq(McpServers) /\ DOMAIN Told = DOMAIN procs
        /\ \A p \in DOMAIN procs : Told[p].state = "running" => p \in orphaned
    BY ToldIs
  <2>3. HeldOrTold'
    BY <2>1, <2>2 DEF HeldOrTold
  <2> QED BY <2>1, <2>2, <2>3 DEF ServersInv, InitializedIsGreeted
<1>6. ASSUME NEW c \in Callers, CallTool(c) \/ HealthChecked(c) PROVE ServersInv'
  BY <1>1, <1>6 DEF CallTool, HealthChecked
<1>7. ASSUME NEW c \in Callers, NEW command \in Commands, NEW lives \in BOOLEAN, Diagnose(c, command, lives)
      PROVE  ServersInv'
  BY <1>1, <1>7 DEF Diagnose
<1>8. ASSUME NEW k \in DOMAIN mcpRequests, NEW state \in {"ok", "refused"}, TimeoutRequest(k) \/ Answers(k, state)
      PROVE  ServersInv'
  BY <1>1, <1>8 DEF TimeoutRequest, Answers
<1>9. ASSUME NEW chunk \in chunks, NEW whole \in BOOLEAN, ConsumeStdout(chunk, whole) PROVE ServersInv'
  BY <1>1, <1>9 DEF ConsumeStdout
<1>10. ASSUME ProbeExits \/ ProbeHeard \/ ProbeTimer \/ ProbeRead PROVE ServersInv'
  BY <1>1, <1>10 DEF ProbeExits, ProbeHeard, ProbeTimer, ProbeRead, Probed
<1> QED BY <1>2, <1>3, <1>4, <1>5, <1>6, <1>7, <1>8, <1>9, <1>10 DEF BridgeNext

LEMMA ProbeStep ==
  ASSUME ProbeInv, BridgeNext
  PROVE  ProbeInv'
<1>1. ASSUME probe' = probe PROVE ProbeInv'
  BY <1>1 DEF ProbeInv, ProbeLeavesNothing
<1>2. NoProbe \in Probes /\ ~NoProbe.up /\ ~NoProbe.resumed
  BY DEF NoProbe, Probes
<1>3. ASSUME probe' = NoProbe PROVE ProbeInv'
  BY <1>2, <1>3 DEF ProbeInv, ProbeLeavesNothing
<1>4. ASSUME NEW c \in Callers, NEW command \in Commands, NEW lives \in BOOLEAN, Diagnose(c, command, lives)
      PROVE  ProbeInv'
  <2>1. \/ probe' = [up |-> TRUE, timer |-> "set", told |-> FALSE, resumed |-> FALSE]
        \/ probe' = [up |-> FALSE, timer |-> "none", told |-> FALSE, resumed |-> TRUE]
    BY <1>4 DEF Diagnose, NoProbe
  <2>2. \E a, e \in BOOLEAN, b \in {"none", "set"} :
          probe' = [up |-> a, timer |-> b, told |-> FALSE, resumed |-> e]
    BY <2>1
  <2>3. probe' \in Probes
    BY <2>2 DEF Probes
  <2>4. (probe'.resumed => ~probe'.up) /\ (probe'.resumed \/ ~probe'.up \/ probe'.timer = "set" \/ probe'.told)
    BY <2>1
  <2> QED BY <2>3, <2>4 DEF ProbeInv, ProbeLeavesNothing
<1>5. ASSUME ProbeExits \/ ProbeHeard \/ ProbeTimer \/ ProbeRead PROVE ProbeInv'
  <2>1. PICK u \in BOOLEAN, t \in {"none", "set", "reading", "over"}, o \in BOOLEAN, r \in BOOLEAN :
          probe = [up |-> u, timer |-> t, told |-> o, resumed |-> r]
    BY DEF ProbeInv, Probes
  <2>2. (r => ~u) /\ (r \/ ~u \/ t = "set" \/ o)
    BY <2>1 DEF ProbeInv, ProbeLeavesNothing
  <2>3. \/ probe' = [up |-> FALSE, timer |-> t, told |-> o, resumed |-> r]
        \/ ~u /\ probe' = [up |-> u, timer |-> t, told |-> o, resumed |-> TRUE]
        \/ probe' = [up |-> u, timer |-> "reading", told |-> TRUE, resumed |-> r]
        \/ (~u \/ r) /\ probe' = [up |-> u, timer |-> "over", told |-> o, resumed |-> r]
        \/ ~u /\ probe' = [up |-> u, timer |-> "over", told |-> o, resumed |-> TRUE]
    BY <1>5, <2>1 DEF ProbeExits, ProbeHeard, ProbeTimer, ProbeRead
  <2>4. probe' \in Probes
    <3>1. \E a, d, e \in BOOLEAN, b \in {"none", "set", "reading", "over"} :
            probe' = [up |-> a, timer |-> b, told |-> d, resumed |-> e]
      BY <2>3
    <3> QED BY <3>1 DEF Probes
  <2>5. (probe'.resumed => ~probe'.up) /\ (probe'.resumed \/ ~probe'.up \/ probe'.timer = "set" \/ probe'.told)
    BY <2>2, <2>3
  <2> QED BY <2>4, <2>5 DEF ProbeInv, ProbeLeavesNothing
<1>6. ASSUME NEW c \in Callers, NEW command \in Commands, NEW lives \in BOOLEAN, Discover(c, command, lives)
      PROVE  ProbeInv'
  BY <1>3, <1>6 DEF Discover
<1>7. ASSUME NEW c \in Callers, CallTool(c) \/ Resumes(c) \/ HealthChecked(c) PROVE ProbeInv'
  BY <1>1, <1>3, <1>7 DEF CallTool, Resumes, HealthChecked
<1>8. ASSUME NEW k \in DOMAIN mcpRequests, NEW state \in {"ok", "refused"}, TimeoutRequest(k) \/ Answers(k, state)
      PROVE  ProbeInv'
  BY <1>1, <1>8 DEF TimeoutRequest, Answers
<1>9. ASSUME NEW chunk \in chunks, NEW whole \in BOOLEAN, ConsumeStdout(chunk, whole) PROVE ProbeInv'
  BY <1>1, <1>9 DEF ConsumeStdout
<1>10. ASSUME NEW p \in DOMAIN procs, ServerExits(p) \/ HandleTermination(p) PROVE ProbeInv'
  BY <1>1, <1>10 DEF ServerExits, HandleTermination
<1>11. ASSUME StopBridge PROVE ProbeInv'
  BY <1>1, <1>11 DEF StopBridge
<1> QED BY <1>4, <1>5, <1>6, <1>7, <1>8, <1>9, <1>10, <1>11 DEF BridgeNext

-----------------------------------------------------------------------------
LEMMA BridgeInvHolds ==
  ASSUME BridgeInv
  PROVE  BridgeCorrect
<1>1. ASSUME NEW c \in Callers, at[c].request # 0
      PROVE  mcpRequests[at[c].request].state \in {"pending", "answered", "ok", "refused", "failed"}
  <2>1. at[c].request \in DOMAIN mcpRequests /\ mcpRequests[at[c].request].state # "over"
    BY <1>1 DEF BridgeInv, RequestsInv
  <2>2. mcpRequests[at[c].request].state \in {"pending", "answered", "ok", "refused", "failed", "over"}
    BY <2>1, RequestIs DEF BridgeInv
  <2> QED BY <2>1, <2>2
<1>2. NobodyStranded
  BY <1>1 DEF NobodyStranded, BridgeInv, ProbeInv
<1> QED BY <1>2 DEF BridgeInv, ServersInv, ProbeInv, BridgeCorrect

LEMMA BridgeInvInit ==
  ASSUME BridgeInit
  PROVE  BridgeInv
<1>1. RequestsInv
  BY DEF BridgeInit, RequestsInv, Idle, Awaitings, Stages
<1>2. ServersInv
  <2>1. mcp \in Nat /\ mcp = 0 /\ procs = <<>> /\ procs \in Seq(McpServers) /\ DOMAIN procs = {}
    BY DEF BridgeInit
  <2>2. initialized \in BOOLEAN /\ mixed \in BOOLEAN
    BY DEF BridgeInit
  <2>3. InitializedIsGreeted
    BY <2>1 DEF InitializedIsGreeted
  <2>4. HeldOrTold
    BY <2>1 DEF HeldOrTold
  <2> QED BY <2>1, <2>2, <2>3, <2>4 DEF ServersInv
<1>3. ProbeInv
  BY DEF BridgeInit, ProbeInv, ProbeLeavesNothing, NoProbe, Probes
<1> QED BY <1>1, <1>2, <1>3 DEF BridgeInv

\* No caller of the bridge to the MCP server waits for ever, the answer it gets came from the
\* server that was asked, no server lives that is not held (but for one let go when the end of
\* another was heard), and no probe leaves a process behind.
THEOREM BridgeKeepsPromise == BridgeSpec => BridgePromise
<1>1. BridgeInv /\ [BridgeNext]_bridgeVars => BridgeInv' /\ (UNCHANGED bridgeVars \/ AnsweredStep)
  <2>1. ASSUME BridgeInv, BridgeNext PROVE BridgeInv' /\ AnsweredStep
    BY <2>1, RequestsStep, ServersStep, ProbeStep DEF BridgeInv
  <2>2. ASSUME BridgeInv, UNCHANGED bridgeVars PROVE BridgeInv'
    BY <2>2 DEF BridgeInv, RequestsInv, ServersInv, ProbeInv, HeldOrTold, InitializedIsGreeted,
                ProbeLeavesNothing, bridgeVars
  <2> QED BY <2>1, <2>2
<1>2. BridgeInv => BridgeCorrect
  BY BridgeInvHolds
<1>3. BridgeInv' => BridgeCorrect'
  BY <1>2, PTL
<1>4. BridgeInv /\ [BridgeNext]_bridgeVars => [BridgeCorrect']_bridgeVars /\ [AnsweredStep]_bridgeVars
  BY <1>1, <1>3
<1>5. BridgeSpec => [][BridgeCorrect']_bridgeVars /\ [][AnsweredStep]_bridgeVars
  BY <1>1, <1>4, BridgeInvInit, PTL DEF BridgeSpec
<1> QED BY <1>5, PTL DEF BridgePromise, AnsweredByItsServer, AnsweredStep

-----------------------------------------------------------------------------
(* The chat of the web interface                                           *)

Tokens == PersonalTokens \cup {"none"}
WebSockets ==
  [effect : Nat, room : Rooms, state : {"connecting", "open", "closed"}, tag : Rooms \cup {"none"}, late : BOOLEAN]
Parts == [turn : Nat, source : Sources]
Entries == [id : Nat, room : Rooms, parts : Seq(Parts), streaming : BOOLEAN]

\* The sockets: one that may still open or is open is the page's own, or late; the
\* page's own is for its room, and tagged with no other.
SocketsInv ==
  /\ sockets \in Seq(WebSockets) /\ Len(sockets) > 0 /\ ws \in 0..Len(sockets) /\ room \in Rooms
  /\ \A s \in 1..Len(sockets) : sockets[s].state # "closed" => s = ws \/ sockets[s].late
  /\ ws # 0 => sockets[ws].room = room /\ sockets[ws].tag \in {room, "none"}
  /\ retrying => ws = 0

\* What is remembered: on an open socket the page has said its token, and a token it
\* no longer has is remembered only where it could not say so.
TokensInv ==
  /\ token \in Tokens /\ synced \in Tokens /\ remembers \in [Rooms -> Tokens]
  /\ token = "none" => \A r \in Rooms : remembers[r] = "none" \/ r \in missed
  /\ IsOpen(ws) => synced = token /\ (token # "none" => remembers[room] = token)

\* The entries: what is streaming is received, and of turns that its room is in,
\* unless the page turned away meanwhile.
EntryIs(e) ==
  /\ e \in Entries /\ e.id \in 1..frames /\ Len(e.parts) > 0
  /\ \A i, j \in 1..Len(e.parts) : e.parts[i].source = e.parts[j].source
  /\ e.streaming <=> streaming[e.room] = e.id
  /\ e.id \notin crossed /\ e.streaming =>
       Receives(e.room) /\ \A i \in 1..Len(e.parts) : e.parts[i].turn \in turns[e.room]
EntriesInv ==
  /\ frames \in Nat /\ streaming \in [Rooms -> Nat] /\ turns \in [Rooms -> SUBSET Nat]
  /\ \A e \in entries : EntryIs(e)
  /\ \A e, f \in entries : e.id = f.id => e = f
  /\ \A r \in Rooms : streaming[r] # 0 => \E e \in entries : e.id = streaming[r] /\ e.room = r

ChatInv == SocketsInv /\ TokensInv /\ EntriesInv

LEMMA ChatFollows == ChatInv => ChatCorrect
<1>. SUFFICES ASSUME ChatInv PROVE ChatCorrect
  OBVIOUS
<1>1. StreamsAreTracked
  BY DEF ChatInv, EntriesInv, EntryIs, StreamsAreTracked
<1>2. EntriesAreNotMixed
  <2>1. \A e \in entries : DOMAIN e.parts = 1..Len(e.parts)
    BY LenProperties DEF ChatInv, EntriesInv, EntryIs, Entries
  <2>2. ASSUME NEW e \in entries
        PROVE  /\ \A i, j \in 1..Len(e.parts) : e.parts[i].source = e.parts[j].source
               /\ e.id \notin crossed /\ e.streaming => \A i \in 1..Len(e.parts) : e.parts[i].turn \in turns[e.room]
    <3>1. EntryIs(e)
      BY DEF ChatInv, EntriesInv
    <3>. QED
      BY <3>1 DEF EntryIs
  <2>. QED
    BY <2>1, <2>2 DEF EntriesAreNotMixed
<1>3. ContextFollowsPage
  BY DEF ChatInv, SocketsInv, TokensInv, ContextFollowsPage
<1>4. SocketsAreClosed
  <2>1. DOMAIN sockets = 1..Len(sockets)
    BY LenProperties DEF ChatInv, SocketsInv
  <2>. QED
    BY <2>1 DEF ChatInv, SocketsInv, SocketsAreClosed
<1>. QED
  BY <1>1, <1>2, <1>3, <1>4 DEF ChatCorrect

LEMMA ChatBegins == ChatInit => ChatInv
<1>. SUFFICES ASSUME ChatInit PROVE ChatInv
  OBVIOUS
<1>1. Socket(1, room) \in WebSockets /\ Socket(1, room).room = room /\ Socket(1, room).tag = "none"
      /\ Socket(1, room).state = "connecting"
  BY DEF ChatInit, Socket, WebSockets
<1>2. sockets \in Seq(WebSockets) /\ Len(sockets) = 1 /\ sockets[1] = Socket(1, room)
  BY <1>1 DEF ChatInit
<1>3. SocketsInv
  BY <1>1, <1>2 DEF ChatInit, SocketsInv
<1>4. TokensInv
  BY <1>1, <1>2 DEF ChatInit, TokensInv, Tokens, IsOpen
<1>5. EntriesInv
  BY DEF ChatInit, EntriesInv
<1>. QED
  BY <1>3, <1>4, <1>5 DEF ChatInv

\* The sockets, one by one.
LEMMA SocketsAre ==
  ASSUME ChatInv, NEW s \in 1..Len(sockets)
  PROVE  sockets[s] \in WebSockets /\ sockets[s].late \in BOOLEAN
<1>1. sockets \in Seq(WebSockets)
  BY DEF ChatInv, SocketsInv
<1>2. sockets[s] \in WebSockets
  BY <1>1, ElementOfSeq
<1>. QED
  BY <1>2 DEF WebSockets

\* Setting the state of a socket.
LEMMA SocketSet ==
  ASSUME ChatInv, NEW s \in 1..Len(sockets), NEW w \in WebSockets
  PROVE  LET g == [sockets EXCEPT ![s] = w]
         IN /\ g \in Seq(WebSockets) /\ Len(g) = Len(sockets) /\ g[s] = w
            /\ \A t \in 1..Len(sockets) : t # s => g[t] = sockets[t]
<1>1. sockets \in Seq(WebSockets)
  BY DEF ChatInv, SocketsInv
<1>. QED
  BY <1>1, ExceptSeq

\* Steps that leave the entries alone and end no turn: the page's own socket still
\* receives what it did, or nothing streams.
LEMMA EntriesStay ==
  ASSUME EntriesInv, UNCHANGED <<entries, streaming, crossed>>, frames' \in Nat, frames <= frames',
         turns' \in [Rooms -> SUBSET Nat], \A r \in Rooms : turns[r] \subseteq turns'[r],
         \A r \in Rooms : Receives(r) => Receives(r)'
  PROVE  EntriesInv'
<1>1. ASSUME NEW e \in entries PROVE EntryIs(e)'
  <2>1. EntryIs(e)
    BY DEF EntriesInv
  <2>2. e.room \in Rooms /\ e.id \in 1..frames'
    BY <2>1 DEF EntryIs, Entries, EntriesInv
  <2>. QED
    BY <2>1, <2>2 DEF EntryIs
<1>. QED
  BY <1>1 DEF EntriesInv

\* Nothing streams any more.
LEMMA EntriesStop ==
  ASSUME EntriesInv, StopStreams, UNCHANGED <<turns, crossed, frames>>
  PROVE  EntriesInv'
<1>. DEFINE Quieted(e) == [e EXCEPT !.streaming = FALSE]
<1>1. entries' = {Quieted(e) : e \in entries} /\ streaming' = [r \in Rooms |-> 0]
  BY DEF StopStreams
<1>2. ASSUME NEW e \in entries
      PROVE  /\ EntryIs(e) /\ Quieted(e) \in Entries /\ Quieted(e).id = e.id /\ Quieted(e).parts = e.parts
             /\ Quieted(e).room = e.room /\ ~Quieted(e).streaming
             /\ EntryIs(Quieted(e))'
  <2>1. EntryIs(e)
    BY DEF EntriesInv
  <2>2. e \in Entries /\ e.id # 0 /\ e.room \in Rooms
    BY <2>1 DEF EntryIs, Entries
  <2>3. /\ Quieted(e) \in Entries /\ Quieted(e).id = e.id /\ Quieted(e).parts = e.parts
        /\ Quieted(e).room = e.room /\ ~Quieted(e).streaming
    BY <2>2 DEF Entries
  <2>. HIDE DEF Quieted
  <2>4. EntryIs(Quieted(e))'
    BY <1>1, <2>1, <2>2, <2>3 DEF EntryIs
  <2>. QED
    BY <2>1, <2>3, <2>4
<1>. HIDE DEF Quieted
<1>3. \A e, f \in entries : Quieted(e).id = Quieted(f).id => e = f
  BY <1>2 DEF EntriesInv
<1>. QED
  BY <1>1, <1>2, <1>3 DEF EntriesInv

LEMMA OpenedKeeps ==
  ASSUME ChatInv, NEW s \in 1..Len(sockets), Opened(s)
  PROVE  ChatInv'
<1>. DEFINE w == [sockets[s] EXCEPT !.state = "open"]
            g == [sockets EXCEPT ![s] = w]
<1>1. sockets[s] \in WebSockets
  BY SocketsAre
<1>2. /\ w \in WebSockets /\ w.room = sockets[s].room /\ w.tag = sockets[s].tag /\ w.late = sockets[s].late
      /\ w.state = "open" /\ sockets[s].state = "connecting"
  BY <1>1 DEF WebSockets, Opened
<1>3. sockets' = g
  BY DEF Opened
<1>. HIDE DEF w
<1>4. /\ g \in Seq(WebSockets) /\ Len(g) = Len(sockets) /\ g[s] = w
      /\ \A t \in 1..Len(sockets) : t # s => g[t] = sockets[t]
  BY <1>2, SocketSet
<1>. HIDE DEF g
<1>5. UNCHANGED <<room, token, ws, retrying, entries, streaming, turns, frames, missed, crossed>>
  BY DEF Opened
<1>6. SocketsInv'
  BY <1>2, <1>3, <1>4, <1>5 DEF ChatInv, SocketsInv
<1>7. \A r \in Rooms : Receives(r) => Receives(r)'
  BY <1>2, <1>3, <1>4, <1>5 DEF Receives, IsOpen, ChatInv, SocketsInv
<1>8. EntriesInv'
  BY <1>5, <1>7, EntriesStay DEF ChatInv, EntriesInv
<1>9. TokensInv'
  <2>1. CASE ws # s
    <3>1. UNCHANGED <<remembers, synced>> /\ (IsOpen(ws)' => IsOpen(ws))
      BY <1>3, <1>4, <1>5, <2>1 DEF Opened, IsOpen, ChatInv, SocketsInv
    <3>. QED
      BY <1>5, <3>1 DEF ChatInv, TokensInv
  <2>2. CASE ws = s
    <3>1. sockets[s].room = room /\ room \in Rooms
      BY <2>2 DEF ChatInv, SocketsInv
    <3>2. remembers' = [remembers EXCEPT ![room] = IF token = "none" THEN @ ELSE token] /\ synced' = token
      BY <2>2, <3>1, ChatAssumption DEF Opened, Remembered, ChatInv, TokensInv, Tokens
    <3>. QED
      BY <1>5, <3>1, <3>2 DEF ChatInv, TokensInv
  <2>. QED
    BY <2>1, <2>2
<1>. QED
  BY <1>6, <1>8, <1>9 DEF ChatInv

LEMMA ClosedKeeps ==
  ASSUME ChatInv, NEW s \in 1..Len(sockets), Closed(s)
  PROVE  ChatInv'
<1>. DEFINE w == [sockets[s] EXCEPT !.state = "closed"]
            g == [sockets EXCEPT ![s] = w]
<1>1. sockets[s] \in WebSockets
  BY SocketsAre
<1>2. /\ w \in WebSockets /\ w.room = sockets[s].room /\ w.tag = sockets[s].tag /\ w.late = sockets[s].late
      /\ w.state = "closed"
  BY <1>1 DEF WebSockets
<1>3. sockets' = g
  BY DEF Closed
<1>. HIDE DEF w
<1>4. /\ g \in Seq(WebSockets) /\ Len(g) = Len(sockets) /\ g[s] = w
      /\ \A t \in 1..Len(sockets) : t # s => g[t] = sockets[t]
  BY <1>2, SocketSet
<1>. HIDE DEF g
<1>5. UNCHANGED <<room, token, synced, remembers, turns, frames, missed, crossed>>
  BY DEF Closed
<1>6. CASE ws # s
  <2>1. UNCHANGED <<ws, retrying, entries, streaming>>
    BY <1>6 DEF Closed
  <2>2. SocketsInv'
    BY <1>2, <1>3, <1>4, <1>5, <2>1 DEF ChatInv, SocketsInv
  <2>3. ws # 0 => sockets'[ws] = sockets[ws]
    BY <1>3, <1>4, <1>6 DEF ChatInv, SocketsInv
  <2>4. \A r \in Rooms : Receives(r) => Receives(r)'
    BY <2>1, <2>3 DEF Receives, IsOpen
  <2>5. EntriesInv'
    BY <1>5, <2>1, <2>4, EntriesStay DEF ChatInv, EntriesInv
  <2>6. TokensInv'
    BY <1>5, <2>1, <2>3 DEF ChatInv, TokensInv, IsOpen
  <2>. QED
    BY <2>2, <2>5, <2>6 DEF ChatInv
<1>7. CASE ws = s
  <2>1. ws' = 0 /\ retrying' = TRUE /\ StopStreams
    BY <1>7 DEF Closed
  <2>2. SocketsInv'
    BY <1>2, <1>3, <1>4, <1>5, <1>7, <2>1 DEF ChatInv, SocketsInv
  <2>3. EntriesInv'
    BY <1>5, <2>1, EntriesStop DEF ChatInv
  <2>4. TokensInv'
    BY <1>5, <2>1 DEF ChatInv, TokensInv, IsOpen
  <2>. QED
    BY <2>2, <2>3, <2>4 DEF ChatInv
<1>. QED
  BY <1>6, <1>7

\* Another socket.
LEMMA SocketAdded ==
  ASSUME NEW g \in Seq(WebSockets), NEW effect \in Nat, NEW r \in Rooms
  PROVE  LET h == Append(g, Socket(effect, r))
         IN /\ h \in Seq(WebSockets) /\ Len(h) = Len(g) + 1
            /\ h[Len(g) + 1].room = r /\ h[Len(g) + 1].tag = "none" /\ h[Len(g) + 1].state = "connecting"
            /\ \A t \in 1..Len(g) : h[t] = g[t]
<1>1. /\ Socket(effect, r) \in WebSockets /\ Socket(effect, r).room = r /\ Socket(effect, r).tag = "none"
      /\ Socket(effect, r).state = "connecting"
  BY DEF Socket, WebSockets
<1>. QED
  BY <1>1, AppendProperties

LEMMA EffectIs ==
  ASSUME ChatInv
  PROVE  Effect \in Nat /\ Effect + 1 \in Nat /\ Len(sockets) \in Nat
<1>1. Len(sockets) \in Nat /\ Len(sockets) \in 1..Len(sockets)
  BY LenProperties DEF ChatInv, SocketsInv
<1>2. sockets[Len(sockets)].effect \in Nat
  BY <1>1, SocketsAre DEF WebSockets
<1>. QED
  BY <1>1, <1>2 DEF Effect

LEMMA ReconnectKeeps ==
  ASSUME ChatInv, Reconnect
  PROVE  ChatInv'
<1>. DEFINE h == Append(sockets, Socket(Effect, room))
<1>1. Effect \in Nat /\ Len(sockets) \in Nat /\ room \in Rooms /\ ws = 0 /\ sockets \in Seq(WebSockets)
  BY EffectIs DEF Reconnect, ChatInv, SocketsInv
<1>2. /\ h \in Seq(WebSockets) /\ Len(h) = Len(sockets) + 1
      /\ h[Len(sockets) + 1].room = room /\ h[Len(sockets) + 1].tag = "none" /\ h[Len(sockets) + 1].state = "connecting"
      /\ \A t \in 1..Len(sockets) : h[t] = sockets[t]
  BY <1>1, SocketAdded
<1>3. /\ sockets' = h /\ ws' = Len(sockets) + 1 /\ retrying' = FALSE
      /\ UNCHANGED <<room, token, synced, entries, streaming, remembers, turns, frames, missed, crossed>>
  BY DEF Reconnect, Connect
<1>. HIDE DEF h
<1>4. SocketsInv'
  BY <1>1, <1>2, <1>3 DEF ChatInv, SocketsInv
<1>5. ~IsOpen(ws)' /\ ~IsOpen(ws)
  BY <1>1, <1>2, <1>3 DEF IsOpen
<1>6. TokensInv'
  BY <1>3, <1>5 DEF ChatInv, TokensInv
<1>7. EntriesInv'
  BY <1>3, <1>5, EntriesStay DEF ChatInv, EntriesInv, Receives
<1>. QED
  BY <1>4, <1>6, <1>7 DEF ChatInv

LEMMA TurnToKeeps ==
  ASSUME ChatInv, NEW r \in Rooms, TurnTo(r)
  PROVE  ChatInv'
<1>. DEFINE After(s) == IF s # ws THEN sockets[s]
                       ELSE IF IsOpen(s) THEN [sockets[s] EXCEPT !.state = "closed"]
                       ELSE [sockets[s] EXCEPT !.late = TRUE]
            n == Len(sockets)
            g == [s \in 1..n |-> After(s)]
            h == Append(g, Socket(Effect + 1, r))
<1>1. Effect + 1 \in Nat /\ n \in Nat /\ sockets \in Seq(WebSockets) /\ DOMAIN sockets = 1..n
  BY EffectIs, LenProperties DEF ChatInv, SocketsInv
<1>2. ASSUME NEW s \in 1..n
      PROVE  After(s) \in WebSockets /\ (After(s).state # "closed" => After(s).late)
  <2>1. sockets[s] \in WebSockets /\ s # 0 /\ (sockets[s].state # "closed" => s = ws \/ sockets[s].late)
    BY SocketsAre DEF ChatInv, SocketsInv
  <2>2. CASE s # ws
    BY <2>1, <2>2
  <2>3. CASE s = ws /\ IsOpen(s)
    BY <2>1, <2>3 DEF WebSockets
  <2>4. CASE s = ws /\ ~IsOpen(s)
    BY <2>1, <2>4 DEF WebSockets
  <2>. QED
    BY <2>2, <2>3, <2>4
<1>3. sockets' = h /\ ws' = n + 1 /\ room' = r /\ retrying' = FALSE
  BY <1>1 DEF TurnTo
<1>4. /\ crossed' = crossed \cup {streaming[q] : q \in Rooms}
      /\ UNCHANGED <<token, synced, entries, streaming, remembers, turns, frames, missed>>
  BY DEF TurnTo
<1>. HIDE DEF After
<1>5. g \in Seq(WebSockets) /\ Len(g) = n /\ \A s \in 1..n : g[s] = After(s)
  BY <1>1, <1>2
<1>6. /\ h \in Seq(WebSockets) /\ Len(h) = n + 1
      /\ h[n + 1].room = r /\ h[n + 1].tag = "none" /\ h[n + 1].state = "connecting"
      /\ \A t \in 1..n : h[t] = g[t]
  BY <1>1, <1>5, SocketAdded
<1>. HIDE DEF g, h, n
<1>7. SocketsInv'
  BY <1>1, <1>2, <1>3, <1>5, <1>6 DEF SocketsInv
<1>8. ~IsOpen(ws)'
  BY <1>3, <1>6 DEF IsOpen
<1>9. TokensInv'
  BY <1>4, <1>8 DEF ChatInv, TokensInv
<1>10. EntriesInv'
  <2>1. ASSUME NEW e \in entries PROVE EntryIs(e)'
    <3>1. EntryIs(e) /\ e.room \in Rooms
      BY DEF ChatInv, EntriesInv, EntryIs, Entries
    <3>2. e.streaming => e.id \in crossed'
      BY <1>4, <3>1 DEF EntryIs
    <3>. QED
      BY <1>4, <3>1, <3>2 DEF EntryIs
  <2>. QED
    BY <1>4, <2>1 DEF ChatInv, EntriesInv
<1>. QED
  BY <1>7, <1>9, <1>10 DEF ChatInv

LEMMA TokenKeeps ==
  ASSUME ChatInv, NEW t \in Tokens, TokenChanges(t)
  PROVE  ChatInv'
<1>1. /\ token' = t /\ t # token /\ frames' = frames + 1
      /\ UNCHANGED <<room, sockets, ws, retrying, entries, streaming, turns, crossed>>
      /\ missed' = IF t # "none" THEN missed \ (IF IsOpen(ws) THEN {room} ELSE {})
                   ELSE IF IsOpen(ws) THEN Rooms \ {room} ELSE Rooms
  BY DEF TokenChanges, Framed
<1>2. SocketsInv'
  BY <1>1 DEF ChatInv, SocketsInv
<1>3. IsOpen(ws)' = IsOpen(ws) /\ \A r \in Rooms : Receives(r)' = Receives(r)
  BY <1>1 DEF IsOpen, Receives
<1>4. EntriesInv'
  BY <1>1, <1>3, EntriesStay DEF ChatInv, EntriesInv
<1>5. TokensInv'
  <2>1. CASE ~IsOpen(ws)
    BY <1>1, <1>3, <2>1 DEF ChatInv, TokensInv, TokenChanges
  <2>2. CASE IsOpen(ws)
    <3>1. synced = token /\ room \in Rooms
      BY <2>2 DEF ChatInv, TokensInv, SocketsInv
    <3>2. remembers' = [remembers EXCEPT ![room] = t] /\ synced' = t
      BY <1>1, <2>2, <3>1, ChatAssumption DEF TokenChanges, Remembered, Tokens
    <3>. QED
      BY <1>1, <1>3, <2>2, <3>1, <3>2 DEF ChatInv, TokensInv
  <2>. QED
    BY <2>1, <2>2
<1>. QED
  BY <1>2, <1>4, <1>5 DEF ChatInv

\* A turn more, and none ends.
LEMMA TurnsGrow ==
  ASSUME EntriesInv, NEW r \in Rooms, Begins(r)
  PROVE  turns' \in [Rooms -> SUBSET Nat] /\ \A q \in Rooms : turns[q] \subseteq turns'[q]
<1>1. turns \in [Rooms -> SUBSET Nat] /\ frames + 1 \in Nat
  BY DEF EntriesInv
<1>2. turns' = [turns EXCEPT ![r] = turns[r] \cup {frames + 1}]
  BY DEF Begins
<1>. QED
  BY <1>1, <1>2

LEMMA SendMessageKeeps ==
  ASSUME ChatInv, SendMessage
  PROVE  ChatInv'
<1>. DEFINE w == [sockets[ws] EXCEPT !.tag = room]
            g == [sockets EXCEPT ![ws] = w]
<1>1. IsOpen(ws) /\ ws \in 1..Len(sockets) /\ room \in Rooms /\ sockets[ws].room = room /\ sockets[ws].tag \in {room, "none"}
  BY DEF SendMessage, IsOpen, ChatInv, SocketsInv
<1>2. sockets[ws] \in WebSockets
  BY <1>1, SocketsAre
<1>3. /\ w \in WebSockets /\ w.room = room /\ w.tag = room /\ w.late = sockets[ws].late
      /\ w.state = sockets[ws].state /\ w.state = "open"
  BY <1>1, <1>2 DEF WebSockets, IsOpen
<1>4. /\ sockets' = g /\ frames' = frames + 1
      /\ remembers' = Remembered(room, IF token # "none" THEN token ELSE "keep")
      /\ Begins(room)
      /\ UNCHANGED <<room, token, synced, ws, retrying, entries, streaming, missed, crossed>>
  BY DEF SendMessage, Framed
<1>. HIDE DEF w
<1>5. /\ g \in Seq(WebSockets) /\ Len(g) = Len(sockets) /\ g[ws] = w
      /\ \A t \in 1..Len(sockets) : t # ws => g[t] = sockets[t]
  BY <1>1, <1>3, SocketSet
<1>. HIDE DEF g
<1>6. SocketsInv'
  BY <1>1, <1>3, <1>4, <1>5 DEF ChatInv, SocketsInv
<1>7. TokensInv'
  <2>1. remembers' = [remembers EXCEPT ![room] = IF token = "none" THEN @ ELSE token]
    BY <1>4, ChatAssumption DEF Remembered, ChatInv, TokensInv, Tokens
  <2>2. synced = token
    BY <1>1 DEF ChatInv, TokensInv
  <2>. QED
    BY <1>1, <1>4, <2>1, <2>2 DEF ChatInv, TokensInv
<1>8. \A r \in Rooms : Receives(r) => Receives(r)'
  BY <1>1, <1>3, <1>4, <1>5, ChatAssumption DEF Receives, IsOpen
<1>9. frames \in Nat /\ EntriesInv
  BY DEF ChatInv, EntriesInv
<1>10. EntriesInv'
  BY <1>1, <1>4, <1>8, <1>9, EntriesStay, TurnsGrow
<1>. QED
  BY <1>6, <1>7, <1>10 DEF ChatInv

LEMMA OthersSendKeeps ==
  ASSUME ChatInv, NEW r \in Rooms, OthersSend(r)
  PROVE  ChatInv'
<1>1. Begins(r) /\ frames' = frames + 1 /\ UNCHANGED <<uiVars, remembers, missed, crossed>>
  BY DEF OthersSend, Framed
<1>2. SocketsInv' /\ TokensInv'
  BY <1>1 DEF ChatInv, SocketsInv, TokensInv, IsOpen, uiVars
<1>3. UNCHANGED <<entries, streaming, crossed>> /\ \A q \in Rooms : Receives(q) => Receives(q)'
  BY <1>1 DEF Receives, IsOpen, uiVars
<1>4. frames \in Nat /\ EntriesInv
  BY DEF ChatInv, EntriesInv
<1>5. EntriesInv'
  BY <1>1, <1>3, <1>4, EntriesStay, TurnsGrow
<1>. QED
  BY <1>2, <1>5 DEF ChatInv

\* The room's entry stops: what has its id, and nothing else, is quiet then.
LEMMA StoppedAre ==
  ASSUME EntriesInv, NEW r \in Rooms, NEW e \in entries
  PROVE  LET f == IF e.id = streaming[r] THEN [e EXCEPT !.streaming = FALSE] ELSE e
         IN /\ f \in Entries /\ f.id = e.id /\ f.room = e.room /\ f.parts = e.parts
            /\ f.streaming <=> (e.streaming /\ e.room # r)
<1>1. EntryIs(e) /\ e \in Entries
  BY DEF EntriesInv, EntryIs
<1>2. CASE e.id = streaming[r]
  <2>1. e.id # 0
    BY <1>1 DEF EntryIs, EntriesInv
  <2>2. e.room = r
    BY <1>1, <1>2, <2>1 DEF EntriesInv
  <2>3. /\ [e EXCEPT !.streaming = FALSE] \in Entries /\ [e EXCEPT !.streaming = FALSE].id = e.id
        /\ [e EXCEPT !.streaming = FALSE].room = e.room /\ [e EXCEPT !.streaming = FALSE].parts = e.parts
        /\ [e EXCEPT !.streaming = FALSE].streaming = FALSE
    BY <1>1 DEF Entries
  <2>. QED
    BY <1>2, <2>2, <2>3
<1>3. CASE e.id # streaming[r]
  <2>1. e.streaming \in BOOLEAN /\ (e.streaming => e.room # r)
    BY <1>1, <1>3 DEF EntryIs, Entries
  <2>. QED
    BY <1>1, <1>3, <2>1
<1>. QED
  BY <1>2, <1>3

LEMMA EndsKeeps ==
  ASSUME ChatInv, NEW r \in Rooms, NEW t \in turns[r], NEW failed \in BOOLEAN, TurnEnds(r, t, failed)
  PROVE  ChatInv'
<1>. DEFINE After(e) == IF e.id = streaming[r] THEN [e EXCEPT !.streaming = FALSE] ELSE e
<1>1. /\ turns' = [turns EXCEPT ![r] = turns[r] \ {t}]
      /\ UNCHANGED <<room, token, synced, sockets, ws, retrying, remembers, frames, missed, crossed>>
  BY DEF TurnEnds
<1>2. SocketsInv' /\ TokensInv'
  BY <1>1 DEF ChatInv, SocketsInv, TokensInv, IsOpen
<1>3. \A q \in Rooms : Receives(q)' = Receives(q)
  BY <1>1 DEF Receives, IsOpen
<1>4. /\ EntriesInv /\ frames \in Nat /\ turns \in [Rooms -> SUBSET Nat] /\ turns' \in [Rooms -> SUBSET Nat]
      /\ streaming \in [Rooms -> Nat] /\ \A q \in Rooms : q # r => turns'[q] = turns[q]
  BY <1>1 DEF ChatInv, EntriesInv
<1>5. ASSUME NEW e \in entries
      PROVE  EntryIs(e) /\ e.room \in Rooms /\ e \in Entries /\ e.id # 0 /\ Len(e.parts) \in Nat
  <2>1. EntryIs(e) /\ e.room \in Rooms /\ e \in Entries /\ e.id # 0
    BY <1>4 DEF EntriesInv, EntryIs, Entries
  <2>2. e.parts \in Seq(Parts)
    BY <2>1 DEF Entries
  <2>. QED
    BY <2>1, <2>2, LenProperties
<1>6. CASE ~Receives(r) \/ streaming[r] = 0
  <2>1. UNCHANGED <<entries, streaming>>
    BY <1>6 DEF TurnEnds
  <2>2. ASSUME NEW e \in entries PROVE EntryIs(e)'
    <3>1. EntryIs(e) /\ e.room \in Rooms /\ e.id # 0
      BY <1>5
    <3>2. e.id \notin crossed /\ e.streaming => e.room # r
      BY <1>6, <3>1 DEF EntryIs
    <3>. QED
      BY <1>1, <1>3, <1>4, <2>1, <3>1, <3>2 DEF EntryIs
  <2>3. EntriesInv'
    BY <1>1, <1>4, <2>1, <2>2 DEF EntriesInv
  <2>. QED
    BY <1>2, <2>3 DEF ChatInv
<1>7. CASE Receives(r) /\ streaming[r] # 0
  <2>1. /\ entries' = IF failed THEN {e \in entries : e.id # streaming[r]} ELSE {After(e) : e \in entries}
        /\ streaming' = [streaming EXCEPT ![r] = 0]
    BY <1>7 DEF TurnEnds, Stopped
  <2>2. \A q \in Rooms : streaming'[q] = IF q = r THEN 0 ELSE streaming[q]
    BY <1>4, <2>1
  <2>3. ASSUME NEW e \in entries
        PROVE  /\ After(e) \in Entries /\ After(e).id = e.id /\ After(e).room = e.room /\ After(e).parts = e.parts
               /\ After(e).streaming <=> (e.streaming /\ e.room # r)
    BY <1>4, StoppedAre
  <2>. HIDE DEF After
  <2>4. \A e \in entries : e.id # streaming[r] => After(e) = e
    BY DEF After
  <2>5. entries' \subseteq {After(e) : e \in entries}
    BY <2>1, <2>4
  <2>6. ASSUME NEW f \in entries' PROVE EntryIs(f)'
    <3>1. PICK e \in entries : f = After(e)
      BY <2>5
    <3>2. EntryIs(e) /\ e.room \in Rooms /\ e.id # 0
      BY <1>5
    <3>3. f \in Entries /\ f.id = e.id /\ f.room = e.room /\ f.parts = e.parts /\ (f.streaming <=> (e.streaming /\ e.room # r))
      BY <2>3, <3>1
    <3>4. f.streaming <=> streaming'[f.room] = f.id
      <4>1. CASE e.room = r
        BY <2>2, <3>2, <3>3, <4>1
      <4>2. CASE e.room # r
        BY <2>2, <3>2, <3>3, <4>2 DEF EntryIs
      <4>. QED
        BY <4>1, <4>2
    <3>5. f.id \in 1..frames /\ Len(f.parts) > 0 /\ \A i, j \in 1..Len(f.parts) : f.parts[i].source = f.parts[j].source
      BY <3>2, <3>3 DEF EntryIs
    <3>7. f.id \notin crossed /\ f.streaming =>
            Receives(f.room) /\ \A i \in 1..Len(f.parts) : f.parts[i].turn \in turns[f.room]
      BY <3>2, <3>3 DEF EntryIs
    <3>8. f.id \notin crossed /\ f.streaming => f.room # r /\ turns'[f.room] = turns[f.room] /\ Receives(f.room)' = Receives(f.room)
      BY <1>3, <1>4, <3>2, <3>3
    <3>. QED
      BY <1>1, <3>3, <3>4, <3>5, <3>7, <3>8 DEF EntryIs
  <2>7. \A f \in entries' : EntryIs(f)'
    BY <2>6
  <2>8. \A e, f \in entries' : e.id = f.id => e = f
    BY <1>4, <2>3, <2>5 DEF EntriesInv
  <2>9. ASSUME NEW q \in Rooms, streaming'[q] # 0
        PROVE  \E e \in entries' : e.id = streaming'[q] /\ e.room = q
    <3>1. PICK e \in entries : e.id = streaming[q] /\ e.room = q /\ q # r
      BY <1>4, <2>2, <2>9 DEF EntriesInv
    <3>2. e.id # streaming[r]
      <4>1. CASE e.id = streaming[r]
        <5>1. PICK f \in entries : f.id = streaming[r] /\ f.room = r
          BY <1>4, <1>7 DEF EntriesInv
        <5>. QED
          BY <1>4, <3>1, <4>1, <5>1 DEF EntriesInv
      <4>. QED
        BY <4>1
    <3>3. e \in entries'
      BY <2>1, <2>4, <3>2
    <3>. QED
      BY <2>2, <3>1, <3>3
  <2>10. streaming' \in [Rooms -> Nat]
    BY <1>4, <2>1
  <2>11. EntriesInv'
    BY <1>1, <1>4, <2>7, <2>8, <2>9, <2>10 DEF EntriesInv
  <2>. QED
    BY <1>2, <2>11 DEF ChatInv
<1>. QED
  BY <1>6, <1>7

\* A chunk more of the same source: what is said of all parts holds of one more.
LEMMA PartAdded ==
  ASSUME NEW parts \in Seq(Parts), NEW piece \in Parts, Len(parts) > 0
  PROVE  /\ Append(parts, piece) \in Seq(Parts) /\ Len(Append(parts, piece)) > 0
         /\ (\A i, j \in 1..Len(parts) : parts[i].source = parts[j].source) /\ Last(parts).source = piece.source =>
              \A i, j \in 1..Len(Append(parts, piece)) : Append(parts, piece)[i].source = Append(parts, piece)[j].source
         /\ \A i \in 1..Len(Append(parts, piece)) : Append(parts, piece)[i] = piece \/ \E j \in 1..Len(parts) : Append(parts, piece)[i] = parts[j]
<1>. DEFINE g == Append(parts, piece)
<1>1. PICK n \in Nat : n = Len(parts) /\ n > 0
  BY LenProperties
<1>2. g \in Seq(Parts) /\ Len(g) = n + 1 /\ g[n + 1] = piece /\ \A i \in 1..n : g[i] = parts[i]
  BY <1>1, AppendProperties
<1>. HIDE DEF g
<1>3. \A i \in 1..n + 1 : i = n + 1 \/ i \in 1..n
  OBVIOUS
<1>4. \A i \in 1..Len(g) : g[i] = piece \/ \E j \in 1..Len(parts) : g[i] = parts[j]
  BY <1>1, <1>2, <1>3
<1>5. ASSUME \A i, j \in 1..Len(parts) : parts[i].source = parts[j].source, Last(parts).source = piece.source
      PROVE  \A i, j \in 1..Len(g) : g[i].source = g[j].source
  <2>1. Last(parts) = parts[n] /\ n \in 1..n
    BY <1>1 DEF Last
  <2>2. \A i \in 1..n : parts[i].source = piece.source
    BY <1>1, <1>5, <2>1
  <2>3. \A i \in 1..n + 1 : g[i].source = piece.source
    BY <1>2, <1>3, <2>2
  <2>. QED
    BY <1>2, <2>3
<1>6. Len(g) > 0
  BY <1>1, <1>2
<1>. QED
  BY <1>2, <1>4, <1>5, <1>6 DEF g

\* What is shown: a part more of the room's entry, or an entry of its own.
LEMMA ShowsKeeps ==
  ASSUME EntriesInv, NEW r \in Rooms, NEW piece \in Parts, NEW writing \in BOOLEAN, Shows(r, piece, writing),
         writing => piece.turn \in turns[r], frames' = frames + 1, UNCHANGED <<room, sockets, ws, turns, crossed>>
  PROVE  EntriesInv'
<1>. DEFINE id == frames + 1
<1>1. \A q \in Rooms : Receives(q)' = Receives(q)
  BY DEF Receives, IsOpen
<1>4. /\ frames \in Nat /\ turns \in [Rooms -> SUBSET Nat] /\ turns' = turns /\ streaming \in [Rooms -> Nat]
      /\ id \in Nat /\ id # 0 /\ frames' = id /\ crossed' = crossed
  BY DEF EntriesInv
<1>5. ASSUME NEW e \in entries
      PROVE  /\ EntryIs(e) /\ e.room \in Rooms /\ e \in Entries /\ e.id # 0 /\ e.id \in 1..frames
             /\ e.id \in 1..id /\ e.id # id /\ e.parts \in Seq(Parts) /\ Len(e.parts) > 0
  <2>1. EntryIs(e) /\ e.room \in Rooms /\ e \in Entries /\ e.parts \in Seq(Parts)
    BY DEF EntriesInv, EntryIs, Entries
  <2>2. e.id \in 1..frames /\ Len(e.parts) > 0
    BY <2>1 DEF EntryIs
  <2>. QED
    BY <1>4, <2>1, <2>2
<1>6. CASE ~Receives(r)
  <2>1. UNCHANGED <<entries, streaming>>
    BY <1>6 DEF Shows
  <2>2. frames' \in Nat /\ frames <= frames'
    BY <1>4
  <2>. QED
    BY <1>1, <1>4, <2>1, <2>2, EntriesStay
<1>7. CASE Receives(r) /\ Continues(r, piece)
  <2>. DEFINE After(e) == IF e.id = streaming[r] THEN [e EXCEPT !.parts = Append(@, piece), !.streaming = @ /\ writing] ELSE e
  <2>1. entries' = {After(e) : e \in entries} /\ streaming' = [streaming EXCEPT ![r] = IF writing THEN @ ELSE 0]
    BY <1>4, <1>7 DEF Shows, Longer
  <2>2. streaming[r] # 0 /\ \E e \in entries : e.id = streaming[r] /\ Last(e.parts).source = piece.source
    BY <1>7 DEF Continues
  <2>3. \A q \in Rooms : streaming'[q] = IF q = r /\ ~writing THEN 0 ELSE streaming[q]
    BY <1>4, <2>1
  <2>4. ASSUME NEW e \in entries
        PROVE  /\ After(e) \in Entries /\ After(e).id = e.id /\ After(e).room = e.room
               /\ e.id = streaming[r] => /\ After(e).parts = Append(e.parts, piece) /\ e.room = r
                                         /\ e.streaming /\ After(e).streaming = writing
                                         /\ Last(e.parts).source = piece.source
               /\ e.id # streaming[r] => After(e) = e
    <3>1. e \in Entries /\ e.parts \in Seq(Parts) /\ EntryIs(e)
      BY <1>5
    <3>2. CASE e.id = streaming[r]
      <4>1. Append(e.parts, piece) \in Seq(Parts)
        BY <3>1, AppendProperties
      <4>2. e.room = r /\ Last(e.parts).source = piece.source
        BY <2>2, <3>2 DEF EntriesInv
      <4>3. e.streaming = TRUE
        BY <3>1, <3>2, <4>2 DEF EntryIs, Entries
      <4>4. LET f == [e EXCEPT !.parts = Append(@, piece), !.streaming = @ /\ writing]
            IN f \in Entries /\ f.id = e.id /\ f.room = e.room /\ f.streaming = writing /\ f.parts = Append(e.parts, piece)
        BY <3>1, <4>1, <4>3 DEF Entries
      <4>. QED
        BY <3>2, <4>2, <4>3, <4>4
    <3>3. CASE e.id # streaming[r]
      BY <3>1, <3>3
    <3>. QED
      BY <3>2, <3>3
  <2>. HIDE DEF After
  <2>5. ASSUME NEW f \in entries' PROVE EntryIs(f)'
    <3>1. PICK e \in entries : f = After(e)
      BY <2>1
    <3>2. /\ f \in Entries /\ f.id = e.id /\ f.room = e.room
          /\ EntryIs(e) /\ e.room \in Rooms /\ e.id \in 1..id /\ e.id # 0 /\ e.parts \in Seq(Parts) /\ Len(e.parts) > 0
      BY <1>5, <2>4, <3>1
    <3>3. CASE e.id # streaming[r]
      <4>1. f = e
        BY <2>4, <3>1, <3>3
      <4>2. f.streaming <=> streaming'[f.room] = f.id
        <5>1. f.streaming <=> streaming[f.room] = f.id
          BY <3>2, <4>1 DEF EntryIs
        <5>. QED
          BY <2>3, <3>2, <3>3, <4>1, <5>1
      <4>. QED
        BY <1>1, <1>4, <3>2, <4>1, <4>2 DEF EntryIs
    <3>4. CASE e.id = streaming[r]
      <4>1. /\ f.parts = Append(e.parts, piece) /\ e.room = r /\ e.streaming /\ f.streaming = writing
            /\ Last(e.parts).source = piece.source
        BY <2>4, <3>1, <3>4
      <4>2. \A i, j \in 1..Len(e.parts) : e.parts[i].source = e.parts[j].source
        BY <3>2 DEF EntryIs
      <4>9. e.parts \in Seq(Parts) /\ Len(e.parts) > 0 /\ piece \in Parts
        BY <3>2
      <4>8. /\ Len(Append(e.parts, piece)) > 0
            /\ (\A i, j \in 1..Len(e.parts) : e.parts[i].source = e.parts[j].source) /\ Last(e.parts).source = piece.source =>
                 \A i, j \in 1..Len(Append(e.parts, piece)) : Append(e.parts, piece)[i].source = Append(e.parts, piece)[j].source
            /\ \A i \in 1..Len(Append(e.parts, piece)) :
                 Append(e.parts, piece)[i] = piece \/ \E j \in 1..Len(e.parts) : Append(e.parts, piece)[i] = e.parts[j]
        BY <4>9, PartAdded
      <4>7. \A i, j \in 1..Len(Append(e.parts, piece)) : Append(e.parts, piece)[i].source = Append(e.parts, piece)[j].source
        BY <4>1, <4>2, <4>8
      <4>3. Len(f.parts) > 0 /\ \A i, j \in 1..Len(f.parts) : f.parts[i].source = f.parts[j].source
        BY <4>1, <4>7, <4>8
      <4>4. \A i \in 1..Len(f.parts) : f.parts[i] = piece \/ \E j \in 1..Len(e.parts) : f.parts[i] = e.parts[j]
        BY <4>1, <4>8
      <4>5. f.id \notin crossed /\ f.streaming => Receives(r) /\ \A i \in 1..Len(f.parts) : f.parts[i].turn \in turns[r]
        BY <3>2, <4>1, <4>4 DEF EntryIs
      <4>6. f.streaming <=> streaming'[f.room] = f.id
        BY <2>3, <3>2, <3>4, <4>1
      <4>. QED
        BY <1>1, <1>4, <3>2, <4>1, <4>3, <4>5, <4>6 DEF EntryIs
    <3>. QED
      BY <3>3, <3>4
  <2>6. \A e, f \in entries' : e.id = f.id => e = f
    BY <2>1, <2>4 DEF EntriesInv
  <2>7. ASSUME NEW q \in Rooms, streaming'[q] # 0
        PROVE  \E f \in entries' : f.id = streaming'[q] /\ f.room = q
    <3>1. streaming'[q] = streaming[q]
      BY <2>3, <2>7
    <3>2. PICK e \in entries : e.id = streaming[q] /\ e.room = q
      BY <2>7, <3>1 DEF EntriesInv
    <3>3. After(e) \in entries' /\ After(e).id = streaming'[q] /\ After(e).room = q
      BY <2>1, <2>4, <3>1, <3>2
    <3>. QED
      BY <3>3
  <2>8. streaming' \in [Rooms -> Nat]
    BY <1>4, <2>1
  <2>. QED
    BY <1>4, <2>5, <2>6, <2>7, <2>8 DEF EntriesInv
<1>8. CASE Receives(r) /\ ~Continues(r, piece)
  <2>. DEFINE new == [id |-> id, room |-> r, parts |-> <<piece>>, streaming |-> writing]
              After(e) == IF e.id = streaming[r] THEN [e EXCEPT !.streaming = FALSE] ELSE e
  <2>1. entries' = {After(e) : e \in entries} \cup {new} /\ streaming' = [streaming EXCEPT ![r] = IF writing THEN id ELSE 0]
    BY <1>4, <1>8 DEF Shows, Added, Stopped, id
  <2>2. \A q \in Rooms : streaming'[q] = IF q = r THEN (IF writing THEN id ELSE 0) ELSE streaming[q]
    BY <1>4, <2>1
  <2>3. ASSUME NEW e \in entries
        PROVE  /\ After(e) \in Entries /\ After(e).id = e.id /\ After(e).room = e.room /\ After(e).parts = e.parts
               /\ After(e).streaming <=> (e.streaming /\ e.room # r)
    BY <1>4, StoppedAre
  <2>4. /\ new \in Entries /\ new.id = id /\ new.room = r /\ new.streaming = writing /\ Len(new.parts) = 1
        /\ \A i \in 1..Len(new.parts) : new.parts[i] = piece
    <3>1. <<piece>> \in Seq(Parts) /\ Len(<<piece>>) = 1 /\ \A i \in 1..1 : <<piece>>[i] = piece
      BY <1>4
    <3>2. new.parts = <<piece>> /\ new \in Entries /\ new.id = id /\ new.room = r /\ new.streaming = writing
      BY <1>4, <3>1 DEF Entries
    <3>. QED
      BY <3>1, <3>2
  <2>. HIDE DEF new, After
  <2>5. ASSUME NEW f \in entries' PROVE EntryIs(f)'
    <3>1. CASE f = new
      <4>1. /\ f \in Entries /\ f.id = id /\ f.room = r /\ f.streaming = writing /\ Len(f.parts) = 1
            /\ \A i \in 1..Len(f.parts) : f.parts[i] = piece
        BY <2>4, <3>1
      <4>2. f.id \in 1..frames' /\ (f.streaming <=> streaming'[f.room] = f.id)
        BY <1>4, <2>2, <4>1
      <4>3. f.streaming => Receives(f.room)' /\ \A i \in 1..Len(f.parts) : f.parts[i].turn \in turns'[f.room]
        BY <1>1, <1>4, <1>8, <4>1
      <4>. QED
        BY <4>1, <4>2, <4>3 DEF EntryIs
    <3>2. CASE f # new
      <4>1. PICK e \in entries : f = After(e)
        BY <2>1, <3>2
      <4>2. EntryIs(e) /\ e.room \in Rooms /\ e.id \in 1..id /\ e.id # id /\ e.id # 0
        BY <1>5
      <4>3. f \in Entries /\ f.id = e.id /\ f.room = e.room /\ f.parts = e.parts /\ (f.streaming <=> (e.streaming /\ e.room # r))
        BY <2>3, <4>1
      <4>4. f.streaming <=> streaming'[f.room] = f.id
        <5>1. CASE e.room = r
          BY <2>2, <4>2, <4>3, <5>1
        <5>2. CASE e.room # r
          BY <2>2, <4>2, <4>3, <5>2 DEF EntryIs
        <5>. QED
          BY <5>1, <5>2
      <4>5. f.id \in 1..frames' /\ Len(f.parts) > 0 /\ \A i, j \in 1..Len(f.parts) : f.parts[i].source = f.parts[j].source
        BY <1>4, <4>2, <4>3 DEF EntryIs
      <4>6. f.id \notin crossed /\ f.streaming =>
              Receives(f.room) /\ \A i \in 1..Len(f.parts) : f.parts[i].turn \in turns[f.room]
        BY <4>2, <4>3 DEF EntryIs
      <4>. QED
        BY <1>1, <1>4, <4>2, <4>3, <4>4, <4>5, <4>6 DEF EntryIs
    <3>. QED
      BY <3>1, <3>2
  <2>6. \A e, f \in entries' : e.id = f.id => e = f
    <3>1. \A e \in entries : After(e).id # id
      BY <1>5, <2>3
    <3>. QED
      BY <1>4, <2>1, <2>3, <2>4, <3>1 DEF EntriesInv
  <2>7. ASSUME NEW q \in Rooms, streaming'[q] # 0
        PROVE  \E f \in entries' : f.id = streaming'[q] /\ f.room = q
    <3>1. CASE q = r
      BY <2>1, <2>2, <2>4, <2>7, <3>1
    <3>2. CASE q # r
      <4>1. PICK e \in entries : e.id = streaming[q] /\ e.room = q
        BY <1>4, <2>2, <2>7, <3>2 DEF EntriesInv
      <4>2. After(e) \in entries' /\ After(e).id = streaming'[q] /\ After(e).room = q
        BY <2>1, <2>2, <2>3, <3>2, <4>1
      <4>. QED
        BY <4>2
    <3>. QED
      BY <3>1, <3>2
  <2>8. streaming' \in [Rooms -> Nat]
    BY <1>4, <2>1
  <2>. QED
    BY <1>4, <2>5, <2>6, <2>7, <2>8 DEF EntriesInv
<1>. QED
  BY <1>6, <1>7, <1>8

LEMMA ChunkKeeps ==
  ASSUME ChatInv, NEW r \in Rooms,
         (\E t \in turns[r], source \in Sources : Chunk(r, t, source)) \/ Notice(r)
  PROVE  ChatInv'
<1>1. PICK piece \in Parts, writing \in BOOLEAN :
        /\ (writing => piece.turn \in turns[r]) /\ Shows(r, piece, writing) /\ frames' = frames + 1
        /\ UNCHANGED <<room, token, synced, sockets, ws, retrying, remembers, turns, missed, crossed>>
  <2>1. ASSUME NEW t \in turns[r], NEW source \in Sources, Chunk(r, t, source)
        PROVE  \E piece \in Parts : piece.turn \in turns[r] /\ Shows(r, piece, TRUE)
    <3>1. t \in Nat
      BY DEF ChatInv, EntriesInv
    <3>. QED
      BY <2>1, <3>1 DEF Chunk, Parts
  <2>2. CASE Notice(r)
    BY <2>2 DEF Notice, Framed, Parts, Sources
  <2>3. CASE \E t \in turns[r], source \in Sources : Chunk(r, t, source)
    <3>1. PICK t \in turns[r], source \in Sources : Chunk(r, t, source)
      BY <2>3
    <3>2. PICK piece \in Parts : piece.turn \in turns[r] /\ Shows(r, piece, TRUE)
      BY <2>1, <3>1
    <3>3. /\ frames' = frames + 1
          /\ UNCHANGED <<room, token, synced, sockets, ws, retrying, remembers, turns, missed, crossed>>
      BY <3>1 DEF Chunk, Framed
    <3>. QED
      BY <3>2, <3>3
  <2>. QED
    BY <2>2, <2>3
<1>2. SocketsInv' /\ TokensInv'
  BY <1>1 DEF ChatInv, SocketsInv, TokensInv, IsOpen
<1>3. EntriesInv'
  BY <1>1, ShowsKeeps DEF ChatInv
<1>. QED
  BY <1>2, <1>3 DEF ChatInv

LEMMA ChatGoesOn == ChatInv /\ [ChatNext]_chatVars => ChatInv'
<1>. SUFFICES ASSUME ChatInv, [ChatNext]_chatVars PROVE ChatInv'
  OBVIOUS
<1>1. CASE UNCHANGED chatVars
  <2>1. SocketsInv' /\ TokensInv'
    BY <1>1 DEF ChatInv, SocketsInv, TokensInv, IsOpen, chatVars, uiVars
  <2>2. EntriesInv'
    BY <1>1, EntriesStay DEF ChatInv, EntriesInv, chatVars, uiVars, Receives, IsOpen
  <2>. QED
    BY <2>1, <2>2 DEF ChatInv
<1>2. ASSUME NEW s \in DOMAIN sockets, Opened(s) \/ Closed(s) PROVE ChatInv'
  <2>1. s \in 1..Len(sockets)
    BY LenProperties DEF ChatInv, SocketsInv
  <2>. QED
    BY <1>2, <2>1, OpenedKeeps, ClosedKeeps
<1>3. CASE Reconnect
  BY <1>3, ReconnectKeeps
<1>4. ASSUME NEW r \in Rooms, TurnTo(r) PROVE ChatInv'
  BY <1>4, TurnToKeeps
<1>5. ASSUME NEW t \in PersonalTokens \cup {"none"}, TokenChanges(t) PROVE ChatInv'
  BY <1>5, TokenKeeps DEF Tokens
<1>6. CASE SendMessage
  BY <1>6, SendMessageKeeps
<1>7. ASSUME NEW r \in Rooms, OthersSend(r) PROVE ChatInv'
  BY <1>7, OthersSendKeeps
<1>8. ASSUME NEW r \in Rooms, (\E t \in turns[r], source \in Sources : Chunk(r, t, source)) \/ Notice(r) PROVE ChatInv'
  BY <1>8, ChunkKeeps
<1>9. ASSUME NEW r \in Rooms, NEW t \in turns[r], NEW f \in BOOLEAN, TurnEnds(r, t, f) PROVE ChatInv'
  BY <1>9, EndsKeeps
<1>. QED
  BY <1>1, <1>2, <1>3, <1>4, <1>5, <1>6, <1>7, <1>8, <1>9 DEF ChatNext

\* The page against the channel, for any conversations, tokens, sockets and turns:
\* after every step what is shown as being written can be finished, an entry is of
\* one source and, while it is written, of turns that go on, the agent remembers the
\* page's token, and no socket is left open behind the page's own.
THEOREM ChatIsCorrect == ChatSpec => [][ChatCorrect']_chatVars
<1>1. ChatInv /\ [ChatNext]_chatVars => [ChatCorrect']_chatVars
  BY ChatGoesOn, ChatFollows, PTL
<1>. QED
  BY ChatBegins, ChatGoesOn, <1>1, PTL DEF ChatSpec

-----------------------------------------------------------------------------
(* Signing in to the web interface                                         *)

Pages ==
  [loading : BOOLEAN, setupRequired : BOOLEAN, token : Nat, hasPasskey : BOOLEAN, hasPrivilege : BOOLEAN,
   promptPasskey : BOOLEAN, promptPrivilege : BOOLEAN, mustRegister : BOOLEAN, signedUp : Nat]
AnyKind == UserKinds \cup {"status", "poll", "unheard"}
WebRequests ==
  [kind : AnyKind, n : Nat, by : Nat, chat : Chats, stage : {1, 2},
   answer : {"awaited", "ok", "refused", "failed"}, gives : Nat,
   setup : BOOLEAN, passkey : BOOLEAN, privilege : BOOLEAN]

\* The page p with token t stored: it shows that token or none, and who signed up
\* without a password is asked for a passkey while that sign-up's token is stored.
PageOK(p, t) ==
  /\ p \in Pages /\ t \in Nat /\ p.token \in {0, t}
  /\ p.mustRegister => p.signedUp # 0 /\ (t = p.signedUp => p.promptPasskey)

\* A request of the user has a number of its own, up to m, and no other of them that
\* may give a session has that of the sign-up, up.
SlotOK(q, m, up) ==
  \/ q = NoRequest
  \/ q \in WebRequests /\ (q.kind \in UserKinds => q.n # 0 /\ q.n <= m /\ (q.kind # "register" => q.n # up))
RequestsOK(rs, m, up) ==
  /\ rs \in [Slots -> WebRequests \cup {NoRequest}]
  /\ \A s \in Slots : SlotOK(rs[s], m, up)
  /\ \A s, t \in Slots : s # t /\ rs[s].kind \in UserKinds /\ rs[t].kind \in UserKinds => rs[s].n # rs[t].n

SignInInv ==
  /\ PageOK(page, stored) /\ RequestsOK(requests, asked, page.signedUp)
  /\ asked \in Nat /\ page.signedUp <= asked
  /\ chat \in Chats /\ grant \in Nat /\ grants \in [Chats -> Nat]
  /\ passkey \in BOOLEAN /\ privilege \in BOOLEAN

LEMMA SignInFollows == SignInInv => SignInCorrect
BY DEF SignInInv, PageOK, Pages, SignInCorrect, ShownIsStored, PasskeyIsMandatory

LEMMA NoRequestIsNone == NoRequest.kind = "none" /\ NoRequest.kind \notin AnyKind /\ NoRequest.kind \notin UserKinds
BY DEF NoRequest, AnyKind, UserKinds

LEMMA FirstStatus ==
  ASSUME stored \in Nat, chat \in Chats, NEW m \in Nat, NEW up \in Nat
  PROVE  SlotOK(Request("status", 0), m, up) /\ Request("status", 0).kind \notin UserKinds
BY DEF SlotOK, Request, WebRequests, AnyKind, UserKinds

LEMMA FirstAreOK ==
  ASSUME stored \in Nat, chat \in Chats, NEW m \in Nat, NEW up \in Nat
  PROVE  RequestsOK(FirstRequests, m, up)
<1>1. Request("status", 0) \in WebRequests
  BY DEF Request, WebRequests, AnyKind
<1>2. FirstRequests \in [Slots -> WebRequests \cup {NoRequest}]
  BY <1>1 DEF FirstRequests
<1>3. \A s \in Slots : FirstRequests[s] = NoRequest \/ FirstRequests[s] = Request("status", 0)
  BY DEF FirstRequests
<1>. QED
  BY <1>2, <1>3, FirstStatus, NoRequestIsNone DEF RequestsOK, SlotOK

\* A slot's request is replaced by one without a number, or with the same.
LEMMA SlotReplaced ==
  ASSUME NEW rs, NEW m \in Nat, NEW up \in Nat, RequestsOK(rs, m, up),
         NEW s \in Slots, NEW q, SlotOK(q, m, up),
         q.kind \in UserKinds => rs[s].kind \in UserKinds /\ q.n = rs[s].n
  PROVE  RequestsOK([rs EXCEPT ![s] = q], m, up)
<1>. DEFINE new == [rs EXCEPT ![s] = q]
<1>1. new \in [Slots -> WebRequests \cup {NoRequest}] /\ new[s] = q /\ \A t \in Slots \ {s} : new[t] = rs[t]
  BY DEF RequestsOK, SlotOK
<1>. HIDE DEF new
<1>2. \A t \in Slots : SlotOK(new[t], m, up)
  BY <1>1 DEF RequestsOK
<1>3. \A t, u \in Slots : t # u /\ new[t].kind \in UserKinds /\ new[u].kind \in UserKinds => new[t].n # new[u].n
  BY <1>1 DEF RequestsOK
<1>4. RequestsOK(new, m, up)
  BY <1>1, <1>2, <1>3 DEF RequestsOK
<1>. QED
  BY <1>4 DEF new

\* A new request of the user has the next number.
LEMMA SlotAsked ==
  ASSUME NEW rs, NEW m \in Nat, NEW up \in Nat, RequestsOK(rs, m, up), up <= m,
         NEW s \in Slots, NEW q \in WebRequests, q.n = m + 1
  PROVE  RequestsOK([rs EXCEPT ![s] = q], m + 1, up)
<1>. DEFINE new == [rs EXCEPT ![s] = q]
<1>1. new \in [Slots -> WebRequests \cup {NoRequest}] /\ new[s] = q /\ \A t \in Slots \ {s} : new[t] = rs[t]
  BY DEF RequestsOK, SlotOK
<1>. HIDE DEF new
<1>2. ASSUME NEW t \in Slots PROVE SlotOK(new[t], m + 1, up)
  <2>1. CASE t = s
    BY <1>1, <2>1 DEF SlotOK, WebRequests
  <2>2. CASE t # s
    <3>1. new[t] = rs[t] /\ SlotOK(rs[t], m, up)
      BY <1>1, <2>2 DEF RequestsOK
    <3>. QED
      BY <3>1 DEF SlotOK, WebRequests
  <2>. QED
    BY <2>1, <2>2
<1>3. \A t \in Slots : t # s /\ new[t].kind \in UserKinds => new[t].n # m + 1
  <2>1. \A t \in Slots : t # s => SlotOK(new[t], m, up)
    BY <1>1 DEF RequestsOK
  <2>. QED
    BY <2>1, NoRequestIsNone DEF SlotOK, WebRequests
<1>4. \A t, u \in Slots : t # u /\ new[t].kind \in UserKinds /\ new[u].kind \in UserKinds => new[t].n # new[u].n
  BY <1>1, <1>3 DEF RequestsOK
<1>5. RequestsOK(new, m + 1, up)
  BY <1>1, <1>2, <1>4 DEF RequestsOK
<1>. QED
  BY <1>5 DEF new

\* An earlier sign-up, or none, is that of a request just answered.
LEMMA SignUpChanges ==
  ASSUME NEW rs, NEW m \in Nat, NEW up \in Nat, RequestsOK(rs, m, up),
         NEW s \in Slots, NEW q, SlotOK(q, m, up), rs[s].kind \in UserKinds,
         q.kind \in UserKinds => q.kind = "register" /\ q.n = rs[s].n,
         NEW to \in {0, rs[s].n}
  PROVE  RequestsOK([rs EXCEPT ![s] = q], m, to)
<1>. DEFINE new == [rs EXCEPT ![s] = q]
<1>1. new[s] = q /\ \A t \in Slots \ {s} : new[t] = rs[t]
  BY DEF RequestsOK
<1>2. RequestsOK(new, m, up)
  BY SlotReplaced
<1>. HIDE DEF new
<1>3. ASSUME NEW t \in Slots PROVE SlotOK(new[t], m, to)
  <2>1. SlotOK(new[t], m, up)
    BY <1>2 DEF RequestsOK
  <2>2. CASE t = s
    BY <1>1, <2>1, <2>2 DEF SlotOK
  <2>3. CASE t # s
    <3>1. new[t].kind \in UserKinds => rs[t].n # rs[s].n /\ new[t] = rs[t]
      BY <1>1, <2>3 DEF RequestsOK
    <3>. QED
      BY <2>1, <3>1 DEF SlotOK
  <2>. QED
    BY <2>2, <2>3
<1>4. RequestsOK(new, m, to)
  BY <1>2, <1>3 DEF RequestsOK
<1>. QED
  BY <1>4 DEF new

LEMMA QuietKeeps ==
  ASSUME NEW rs, NEW m \in Nat, NEW up \in Nat, RequestsOK(rs, m, up)
  PROVE  RequestsOK(Quiet(rs), m, up)
<1>. DEFINE new == Quiet(rs)
<1>1. ASSUME NEW s \in Slots
      PROVE  /\ new[s] \in WebRequests \cup {NoRequest} /\ SlotOK(new[s], m, up)
             /\ new[s].kind \in UserKinds => new[s] = rs[s]
  <2>1. rs[s] \in WebRequests \cup {NoRequest} /\ SlotOK(rs[s], m, up)
    BY DEF RequestsOK
  <2>2. CASE rs[s].kind = "poll"
    <3>1. rs[s] \in WebRequests
      BY <2>1, <2>2, NoRequestIsNone
    <3>2. new[s] = [rs[s] EXCEPT !.kind = "unheard"]
      BY <2>2 DEF Quiet
    <3>3. new[s] \in WebRequests /\ new[s].kind = "unheard"
      BY <3>1, <3>2 DEF WebRequests, AnyKind
    <3>. QED
      BY <3>3 DEF SlotOK, UserKinds
  <2>3. CASE rs[s].kind # "poll"
    BY <2>1, <2>3 DEF Quiet
  <2>. QED
    BY <2>2, <2>3
<1>2. new \in [Slots -> WebRequests \cup {NoRequest}]
  BY <1>1 DEF Quiet
<1>. HIDE DEF new
<1>3. RequestsOK(new, m, up)
  BY <1>1, <1>2 DEF RequestsOK
<1>. QED
  BY <1>3 DEF new

\* What a slot holds while it is not empty.
LEMMA SlotHolds ==
  ASSUME SignInInv, NEW s \in Slots, requests[s] # NoRequest
  PROVE  /\ requests[s] \in WebRequests
         /\ requests[s].kind \in UserKinds =>
              /\ requests[s].n # 0 /\ requests[s].n <= asked
              /\ requests[s].kind # "register" => requests[s].n # page.signedUp
BY DEF SignInInv, RequestsOK, SlotOK

LEMMA FreedKeeps ==
  ASSUME SignInInv, NEW s \in Slots
  PROVE  RequestsOK(Freed(s), asked, page.signedUp)
BY SlotReplaced, NoRequestIsNone DEF SignInInv, PageOK, Pages, Freed, SlotOK

LEMMA BecomeKeeps ==
  ASSUME NEW p, NEW t, NEW rs, Become(p, t, rs), PageOK(p, t), asked' \in Nat,
         RequestsOK(rs, asked', p.signedUp)
  PROVE  PageOK(page', stored') /\ RequestsOK(requests', asked', page'.signedUp)
BY QuietKeeps DEF Become, PageOK, Pages

LEMMA InformedIs ==
  ASSUME NEW q, PageOK(page, stored)
  PROVE  /\ PageOK(Informed(q, page), Kept(q)) /\ Informed(q, page).signedUp = page.signedUp
         /\ PageOK([Informed(q, page) EXCEPT !.loading = FALSE], Kept(q))
         /\ \A b \in BOOLEAN : PageOK([Informed(q, page) EXCEPT !.loading = b, !.token = 0], Kept(q))
<1>1. PageOK(Informed(q, page), Kept(q)) /\ Informed(q, page).signedUp = page.signedUp
  BY DEF PageOK, Pages, Informed, Kept
<1>2. ASSUME NEW p, NEW t, PageOK(p, t), NEW b \in BOOLEAN
      PROVE  PageOK([p EXCEPT !.loading = b], t) /\ PageOK([p EXCEPT !.loading = b, !.token = 0], t)
  <2>1. PageOK([p EXCEPT !.loading = b], t)
    BY <1>2 DEF PageOK, Pages
  <2>2. PageOK([p EXCEPT !.loading = b, !.token = 0], t)
    BY <1>2 DEF PageOK, Pages
  <2>. QED
    BY <2>1, <2>2
<1>. QED
  BY <1>1, <1>2

LEMMA SignedInIs ==
  ASSUME PageOK(page, stored), NEW n \in Nat, n # 0, n # page.signedUp
  PROVE  /\ PageOK(SignedIn(page, n), n) /\ SignedIn(page, n).signedUp = page.signedUp
         /\ PageOK([SignedIn(page, n) EXCEPT !.loading = FALSE], n)
BY DEF PageOK, Pages, SignedIn

LEMMA SignInStarts == SignInInit => SignInInv
<1>. SUFFICES ASSUME SignInInit PROVE SignInInv
  OBVIOUS
<1>1. chat \in Chats
  BY SignInAssumption DEF SignInInit
<1>2. PageOK(page, stored) /\ page.signedUp = 0
  BY DEF SignInInit, Fresh, PageOK, Pages
<1>3. RequestsOK(requests, asked, page.signedUp)
  BY <1>1, <1>2, FirstAreOK DEF SignInInit
<1>. QED
  BY <1>1, <1>2, <1>3 DEF SignInInit, SignInInv

LEMMA ReloadKeeps ==
  ASSUME SignInInv, Reload PROVE SignInInv'
<1>1. PageOK(page', stored') /\ page'.signedUp = 0
  BY DEF SignInInv, Reload, Fresh, PageOK, Pages
<1>2. RequestsOK(requests', asked', page'.signedUp)
  BY <1>1, FirstAreOK DEF SignInInv, Reload, PageOK
<1>. QED
  BY <1>1, <1>2 DEF SignInInv, Reload, gatewayVars

LEMMA AskKeeps ==
  ASSUME SignInInv, NEW s \in Slots, NEW kind \in UserKinds, Ask(s, kind) PROVE SignInInv'
<1>. DEFINE p == [page EXCEPT !.loading = Loads(kind)]
            q == Request(kind, asked + 1)
<1>1. PageOK(p, stored) /\ p.signedUp = page.signedUp
  <2>1. Loads(kind) \in BOOLEAN
    BY DEF Loads
  <2>. QED
    BY <2>1 DEF SignInInv, PageOK, Pages
<1>2. q \in WebRequests /\ q.n = asked + 1
  BY DEF SignInInv, PageOK, Request, WebRequests, AnyKind
<1>3. RequestsOK([requests EXCEPT ![s] = q], asked + 1, page.signedUp)
  BY <1>2, SlotAsked DEF SignInInv, PageOK, Pages
<1>4. PageOK(page', stored') /\ RequestsOK(requests', asked', page'.signedUp) /\ page' = p
  <2>1. Become(p, stored, [requests EXCEPT ![s] = q]) /\ asked' = asked + 1 /\ asked' \in Nat
    BY DEF Ask, SignInInv
  <2>. HIDE DEF p, q
  <2>. QED
    BY <1>1, <1>3, <2>1, BecomeKeeps DEF Become
<1>5. page'.signedUp <= asked' /\ asked' \in Nat
  BY <1>1, <1>4 DEF SignInInv, PageOK, Pages, Ask
<1>. QED
  BY <1>4, <1>5 DEF SignInInv, Ask, gatewayVars

LEMMA DismissKeeps ==
  ASSUME SignInInv, Dismiss PROVE SignInInv'
<1>1. PICK p : Become(p, stored, requests) /\ PageOK(p, stored) /\ p.signedUp = page.signedUp
  <2>. DEFINE p1 == [page EXCEPT !.promptPasskey = FALSE]
              p2 == [page EXCEPT !.promptPrivilege = FALSE]
  <2>1. ~page.mustRegister => PageOK(p1, stored) /\ p1.signedUp = page.signedUp
    BY DEF SignInInv, PageOK, Pages
  <2>2. PageOK(p2, stored) /\ p2.signedUp = page.signedUp
    BY DEF SignInInv, PageOK, Pages
  <2>. QED
    BY <2>1, <2>2 DEF Dismiss
<1>2. PageOK(page', stored') /\ RequestsOK(requests', asked', page'.signedUp)
  BY <1>1, BecomeKeeps DEF SignInInv, Dismiss
<1>. QED
  BY <1>1, <1>2 DEF SignInInv, Dismiss, Become, gatewayVars

LEMMA TurnKeeps ==
  ASSUME SignInInv, NEW c \in Chats, TurnToChat(c) PROVE SignInInv'
<1>1. RequestsOK(requests, asked + 1, page.signedUp)
  <2>1. \A s \in Slots : SlotOK(requests[s], asked, page.signedUp)
    BY DEF SignInInv, RequestsOK
  <2>2. \A s \in Slots : SlotOK(requests[s], asked + 1, page.signedUp)
    BY <2>1 DEF SlotOK, SignInInv, WebRequests
  <2>. QED
    BY <2>2 DEF SignInInv, RequestsOK
<1>2. RequestsOK(requests', asked', page'.signedUp)
  BY <1>1, QuietKeeps DEF SignInInv, PageOK, Pages, TurnToChat
<1>. QED
  BY <1>2 DEF SignInInv, PageOK, Pages, TurnToChat, gatewayVars

LEMMA PollKeeps ==
  ASSUME SignInInv, NEW s \in Slots, Poll(s) PROVE SignInInv'
<1>1. SlotOK(Request("poll", 0), asked, page.signedUp) /\ Request("poll", 0).kind \notin UserKinds
  BY DEF SignInInv, PageOK, SlotOK, Request, WebRequests, AnyKind, UserKinds
<1>2. RequestsOK(requests', asked', page'.signedUp)
  BY <1>1, SlotReplaced DEF SignInInv, PageOK, Pages, Poll
<1>. QED
  BY <1>2 DEF SignInInv, Poll, gatewayVars

-----------------------------------------------------------------------------
\* What an answer leaves as it is.
SameRequest(q, r) == r \in WebRequests /\ r.kind = q.kind /\ r.n = q.n

LEMMA SameIsOK ==
  ASSUME SignInInv, NEW s \in Slots, requests[s] # NoRequest, NEW r, SameRequest(requests[s], r)
  PROVE  RequestsOK([requests EXCEPT ![s] = r], asked, page.signedUp)
<1>1. SlotOK(r, asked, page.signedUp)
  BY SlotHolds DEF SameRequest, SlotOK
<1>. QED
  BY <1>1, SlotReplaced DEF SameRequest, SignInInv, PageOK, Pages

LEMMA GiveKeeps ==
  ASSUME SignInInv, NEW s \in Slots, requests[s] # NoRequest,
         NEW answer \in {"ok", "refused", "failed"}, NEW gives \in Nat, Give(s, answer, gives)
  PROVE  RequestsOK(requests', asked, page.signedUp)
<1>. DEFINE r == [requests[s] EXCEPT !.answer = answer, !.gives = gives]
<1>1. requests' = [requests EXCEPT ![s] = r]
  BY DEF Give
<1>2. SameRequest(requests[s], r)
  BY SlotHolds DEF SameRequest, WebRequests
<1>. QED
  BY <1>1, <1>2, SameIsOK

LEMMA ServeKeeps ==
  ASSUME SignInInv, NEW s \in Slots, Serve(s) PROVE SignInInv'
<1>1. requests[s] # NoRequest /\ requests[s] \in WebRequests
  BY SlotHolds DEF Serve, Awaited
<1>2. requests[s].n \in Nat /\ requests[s].chat \in Chats /\ grants \in [Chats -> Nat]
      /\ grants[requests[s].chat] \in Nat /\ passkey \in BOOLEAN /\ privilege \in BOOLEAN
  BY <1>1 DEF WebRequests, SignInInv
<1>3. /\ RequestsOK(requests', asked, page.signedUp)
      /\ grants' \in [Chats -> Nat] /\ passkey' \in BOOLEAN /\ privilege' \in BOOLEAN
  <2>1. CASE ServeStatus(s)
    <3>. DEFINE r == [requests[s] EXCEPT !.answer = "ok", !.setup = (password = "none"),
                                         !.passkey = passkey, !.privilege = privilege]
    <3>1. SameRequest(requests[s], r)
      BY <1>1, <1>2 DEF SameRequest, WebRequests
    <3>2. requests' = [requests EXCEPT ![s] = r] /\ UNCHANGED gatewayVars
      BY <2>1 DEF ServeStatus
    <3>. HIDE DEF r
    <3>3. RequestsOK(requests', asked, page.signedUp)
      BY <1>1, <3>1, <3>2, SameIsOK
    <3>. QED
      BY <1>2, <3>2, <3>3 DEF gatewayVars
  <2>2. CASE ServeLogin(s)
    <3>. DEFINE r == [requests[s] EXCEPT !.answer = "refused", !.setup = (password = "none")]
    <3>1. SameRequest(requests[s], r)
      BY <1>1 DEF SameRequest, WebRequests
    <3>2. RequestsOK([requests EXCEPT ![s] = r], asked, page.signedUp)
      BY <1>1, <3>1, SameIsOK
    <3>3. Give(s, "ok", requests[s].n) => RequestsOK(requests', asked, page.signedUp)
      BY <1>1, <1>2, GiveKeeps
    <3>. QED
      BY <1>2, <2>2, <3>2, <3>3 DEF ServeLogin
  <2>3. CASE ServeSetup(s)
    BY <1>1, <1>2, <2>3, GiveKeeps DEF ServeSetup
  <2>4. CASE ServePasskey(s)
    BY <1>1, <1>2, <2>4, GiveKeeps DEF ServePasskey
  <2>5. CASE ServeRegister(s)
    BY <1>1, <1>2, <2>5, GiveKeeps DEF ServeRegister
  <2>6. CASE ServeSignedIn(s)
    <3>1. \E answer \in {"ok", "refused", "failed"}, gives \in Nat : Give(s, answer, gives)
      BY <1>2, <2>6 DEF ServeSignedIn
    <3>2. /\ UNCHANGED passkey /\ privilege' \in {TRUE, privilege}
          /\ grants' = grants \/ \E n \in Nat : grants' = [grants EXCEPT ![requests[s].chat] = n]
      BY <1>2, <2>6 DEF ServeSignedIn
    <3>3. grants' \in [Chats -> Nat] /\ privilege' \in BOOLEAN
      BY <1>2, <3>2
    <3>. QED
      BY <1>1, <1>2, <3>1, <3>2, <3>3, GiveKeeps
  <2>. QED
    BY <2>1, <2>2, <2>3, <2>4, <2>5, <2>6 DEF Serve
<1>. QED
  BY <1>3 DEF Serve, SignInInv

LEMMA FailsKeeps ==
  ASSUME SignInInv, NEW s \in Slots, Fails(s) PROVE SignInInv'
<1>1. RequestsOK(requests', asked, page.signedUp)
  BY GiveKeeps DEF Fails, Awaited, AnsweredWith
<1>. QED
  BY <1>1 DEF Fails, SignInInv, gatewayVars

LEMMA GatewayKeeps ==
  ASSUME SignInInv, GrantTimer \/ SessionsEnd \/ ResetElsewhere \/ \E c \in Chats : GrantEnds(c) PROVE SignInInv'
<1>1. CASE GrantTimer \/ SessionsEnd
  BY <1>1 DEF SignInInv, GrantTimer, SessionsEnd, gatewayVars
<1>2. CASE ResetElsewhere
  <2>1. \A s \in Slots : SlotOK(requests[s], asked, page.signedUp)
    BY DEF SignInInv, RequestsOK
  <2>2. \A s \in Slots : SlotOK(requests[s], asked + 1, page.signedUp)
    BY <2>1 DEF SlotOK, SignInInv, WebRequests
  <2>3. RequestsOK(requests, asked + 1, page.signedUp)
    BY <2>2 DEF SignInInv, RequestsOK
  <2>4. page.signedUp <= asked + 1 /\ asked + 1 \in Nat
    BY DEF SignInInv, PageOK, Pages
  <2>5. [c \in Chats |-> 0] \in [Chats -> Nat]
    OBVIOUS
  <2>. QED
    BY <1>2, <2>3, <2>4, <2>5 DEF SignInInv, ResetElsewhere
<1>3. CASE \E c \in Chats : GrantEnds(c)
  BY <1>3 DEF SignInInv, GrantEnds
<1>. QED
  BY <1>1, <1>2, <1>3

-----------------------------------------------------------------------------
\* The page goes on as p, with the sign-up it had.
LEMMA GoesOnKeeps ==
  ASSUME SignInInv, NEW s \in Slots, NEW p, NEW t, NEW rs, Become(p, t, rs), PageOK(p, t),
         p.signedUp = page.signedUp, RequestsOK(rs, asked, page.signedUp),
         UNCHANGED <<chat, asked, gatewayVars>>, grant' \in Nat
  PROVE  SignInInv'
<1>1. PageOK(page', stored') /\ RequestsOK(requests', asked', page'.signedUp)
  BY BecomeKeeps DEF SignInInv
<1>. QED
  BY <1>1 DEF SignInInv, Become, gatewayVars

\* The page g after an answer of the status.
AfterStatus(g, a, n, b, c, d, e, f) ==
  [g EXCEPT !.loading = FALSE, !.setupRequired = a, !.token = n, !.hasPasskey = b, !.hasPrivilege = c,
            !.promptPasskey = d, !.promptPrivilege = e, !.mustRegister = f]

LEMMA StatusPage ==
  ASSUME NEW g \in Pages, NEW a \in BOOLEAN, NEW b \in BOOLEAN, NEW c \in BOOLEAN, NEW d \in BOOLEAN,
         NEW e \in BOOLEAN, NEW f \in BOOLEAN, NEW n \in Nat
  PROVE  AfterStatus(g, a, n, b, c, d, e, f) \in Pages
BY ZenonT(90) DEF Pages, AfterStatus

LEMMA ContinueKeeps ==
  ASSUME SignInInv, NEW s \in Slots, Continue(s) PROVE SignInInv'
<1>. PICK q : q = requests[s] /\ q # NoRequest /\ q.answer # "awaited"
  BY DEF Continue
<1>1. /\ q \in WebRequests
      /\ q.kind \in UserKinds => q.n \in Nat /\ q.n # 0 /\ q.n <= asked /\ (q.kind # "register" => q.n # page.signedUp)
  BY SlotHolds DEF WebRequests
<1>2. RequestsOK(Freed(s), asked, page.signedUp)
  BY FreedKeeps
<1>3. PageOK(page, stored) /\ page.signedUp \in Nat /\ asked \in Nat /\ grant \in Nat /\ chat \in Chats
  BY DEF SignInInv, PageOK, Pages
<1>4. UNCHANGED <<chat, asked, gatewayVars>>
  BY DEF Continue
<1>5. q.setup \in BOOLEAN /\ q.passkey \in BOOLEAN /\ q.privilege \in BOOLEAN /\ q.n \in Nat /\ q.gives \in Nat
  BY <1>1 DEF WebRequests
<1>6. CASE StatusAnswered(s, q)
  <2>1. PICK p, t : Become(p, t, Freed(s)) /\ PageOK(p, t) /\ p.signedUp = page.signedUp
    <3>1. CASE q.answer # "ok"
      <4>1. PageOK([page EXCEPT !.loading = FALSE], stored) /\ [page EXCEPT !.loading = FALSE].signedUp = page.signedUp
        BY <1>3 DEF PageOK, Pages
      <4>. QED
        BY <1>6, <3>1, <4>1 DEF StatusAnswered
    <3>2. CASE q.answer = "ok"
      <4>. DEFINE t == IF q.setup THEN 0 ELSE stored
                  ownPrompt == page.promptPasskey /\ ~q.setup /\ ~q.passkey
                  tokenPrompt == page.promptPrivilege /\ ~q.setup /\ ~q.privilege
                  must == page.mustRegister /\ ~q.passkey
                  p == [page EXCEPT !.loading = FALSE, !.setupRequired = q.setup, !.token = t,
                                    !.hasPasskey = q.passkey, !.hasPrivilege = q.privilege,
                                    !.promptPasskey = ownPrompt, !.promptPrivilege = tokenPrompt,
                                    !.mustRegister = must]
      <4>0. t \in Nat /\ t \in {0, stored} /\ page.token \in Nat
        BY <1>3 DEF PageOK, Pages
      <4>4. ownPrompt \in BOOLEAN /\ tokenPrompt \in BOOLEAN /\ must \in BOOLEAN
        OBVIOUS
      <4>1. p \in Pages /\ t \in Nat /\ p.token \in {0, t} /\ p.signedUp = page.signedUp
        <5>. HIDE DEF t, ownPrompt, tokenPrompt, must
        <5>1. p \in Pages
          <6>1. page \in Pages
            BY <1>3 DEF PageOK
          <6>. QED
            <7>1. AfterStatus(page, q.setup, t, q.passkey, q.privilege, ownPrompt, tokenPrompt, must) \in Pages
              <8>. HIDE DEF p
              <8>. QED
                BY <6>1, <1>5, <4>0, <4>4, StatusPage
            <7>. QED
              BY <7>1, Zenon DEF AfterStatus
        <5>2. p.token = t /\ p.signedUp = page.signedUp
          BY <1>3 DEF PageOK, Pages
        <5>. QED
          BY <4>0, <5>1, <5>2
      <4>2. p.mustRegister => page.mustRegister /\ ~q.passkey /\ (~q.setup => p.promptPasskey = page.promptPasskey)
        BY <1>3, <1>5 DEF PageOK, Pages
      <4>3. PageOK(p, t)
        BY <1>3, <1>5, <4>1, <4>2 DEF PageOK
      <4>. QED
        BY <1>6, <3>2, <4>1, <4>3 DEF StatusAnswered
    <3>. QED
      BY <3>1, <3>2
  <2>. QED
    BY <1>2, <1>3, <1>4, <1>6, <2>1, GoesOnKeeps DEF StatusAnswered
<1>7. CASE LoginAnswered(s, q)
  <2>1. q.kind \in UserKinds /\ q.kind # "register"
    BY <1>7 DEF LoginAnswered, UserKinds
  <2>2. CASE q.answer = "ok"
    <3>1. Become([SignedIn(page, q.n) EXCEPT !.loading = FALSE], q.n, Freed(s)) /\ grant' = grant
      BY <1>7, <2>2 DEF LoginAnswered
    <3>2. [SignedIn(page, q.n) EXCEPT !.loading = FALSE].signedUp = page.signedUp
      BY <1>3 DEF SignedIn, PageOK, Pages
    <3>. QED
      BY <1>1, <1>2, <1>3, <1>4, <2>1, <3>1, <3>2, SignedInIs, GoesOnKeeps
  <2>3. CASE q.answer # "ok"
    <3>1. PICK rs : /\ Become([Informed(q, page) EXCEPT !.loading = q.setup, !.token = 0], Kept(q), rs) /\ grant' = grant
                    /\ RequestsOK(rs, asked, page.signedUp)
      <4>1. RequestsOK([requests EXCEPT ![s] = Request("status", 0)], asked, page.signedUp)
        BY <1>3, FirstStatus, SlotReplaced DEF SignInInv, PageOK
      <4>. QED
        BY <1>2, <1>7, <2>3, <4>1 DEF LoginAnswered
    <3>2. [Informed(q, page) EXCEPT !.loading = q.setup, !.token = 0].signedUp = page.signedUp
      BY <1>3 DEF Informed, PageOK, Pages
    <3>. QED
      BY <1>3, <1>4, <1>5, <3>1, <3>2, InformedIs, GoesOnKeeps
  <2>. QED
    BY <2>2, <2>3
<1>8. CASE PasskeyAnswered(s, q)
  <2>1. q.kind \in UserKinds /\ q.kind # "register"
    BY <1>8 DEF PasskeyAnswered, UserKinds
  <2>2. CASE q.answer = "ok"
    <3>1. Become([SignedIn(page, q.n) EXCEPT !.loading = FALSE], q.n, Freed(s)) /\ grant' = grant
      BY <1>8, <2>2 DEF PasskeyAnswered
    <3>2. [SignedIn(page, q.n) EXCEPT !.loading = FALSE].signedUp = page.signedUp
      BY <1>3 DEF SignedIn, PageOK, Pages
    <3>. QED
      BY <1>1, <1>2, <1>3, <1>4, <2>1, <3>1, <3>2, SignedInIs, GoesOnKeeps
  <2>3. CASE q.answer # "ok"
    <3>1. Become([Informed(q, page) EXCEPT !.loading = FALSE, !.token = 0], Kept(q), Freed(s)) /\ grant' = grant
      BY <1>8, <2>3 DEF PasskeyAnswered
    <3>2. [Informed(q, page) EXCEPT !.loading = FALSE, !.token = 0].signedUp = page.signedUp
      BY <1>3 DEF Informed, PageOK, Pages
    <3>. QED
      BY <1>2, <1>3, <1>4, <3>1, <3>2, InformedIs, GoesOnKeeps
  <2>. QED
    BY <2>2, <2>3
<1>9. CASE SetupAnswered(s, q)
  <2>1. q.kind \in UserKinds /\ q.kind # "register"
    BY <1>9 DEF SetupAnswered, UserKinds
  <2>2. CASE q.answer # "ok"
    <3>. DEFINE p == [page EXCEPT !.loading = FALSE, !.token = 0]
    <3>1. Become(p, stored, Freed(s)) /\ grant' = grant
      BY <1>9, <2>2 DEF SetupAnswered
    <3>2. PageOK(p, stored) /\ p.signedUp = page.signedUp
      BY <1>3 DEF PageOK, Pages
    <3>. QED
      BY <1>2, <1>3, <1>4, <3>1, <3>2, GoesOnKeeps
  <2>3. CASE q.answer = "ok"
    <3>. DEFINE own == q.kind = "setup-passkey"
                r == [Request("register", q.n) EXCEPT !.by = q.n]
                p == [page EXCEPT !.loading = own, !.setupRequired = FALSE, !.token = q.n,
                                  !.promptPasskey = own, !.promptPrivilege = TRUE,
                                  !.mustRegister = own,
                                  !.signedUp = IF own THEN q.n ELSE 0]
                rs == IF own THEN [requests EXCEPT ![s] = r] ELSE Freed(s)
    <3>1. Become(p, q.n, rs) /\ grant' = grant
      BY <1>9, <2>3 DEF SetupAnswered
    <3>2. PageOK(p, q.n) /\ p.signedUp = IF own THEN q.n ELSE 0
      BY <1>1, <1>3, <2>1 DEF PageOK, Pages
    <3>3. r \in WebRequests /\ r.kind = "register" /\ r.n = q.n
      BY <1>3, <1>5 DEF Request, WebRequests, AnyKind, UserKinds, PageOK
    <3>4. own => RequestsOK(rs, asked, p.signedUp)
      <4>. SUFFICES ASSUME own PROVE RequestsOK(rs, asked, p.signedUp)
        OBVIOUS
      <4>1. SlotOK(r, asked, page.signedUp)
        BY <1>1, <2>1, <3>3 DEF SlotOK
      <4>2. RequestsOK([requests EXCEPT ![s] = r], asked, q.n)
        BY <1>3, <2>1, <3>3, <4>1, SignUpChanges DEF SignInInv
      <4>3. rs = [requests EXCEPT ![s] = r] /\ p.signedUp = q.n
        BY <3>2
      <4>. HIDE DEF p, rs, r
      <4>. QED
        BY <4>2, <4>3
    <3>5. ~own => RequestsOK(rs, asked, p.signedUp)
      <4>. SUFFICES ASSUME ~own PROVE RequestsOK(rs, asked, p.signedUp)
        OBVIOUS
      <4>1. RequestsOK(Freed(s), asked, 0)
        BY <1>3, <2>1, NoRequestIsNone, SignUpChanges DEF SignInInv, SlotOK, Freed
      <4>2. rs = Freed(s) /\ p.signedUp = 0
        BY <3>2
      <4>. HIDE DEF p, rs
      <4>. QED
        BY <4>1, <4>2
    <3>6. RequestsOK(rs, asked, p.signedUp) /\ p.signedUp <= asked
      <4>1. RequestsOK(rs, asked, p.signedUp)
        <5>. HIDE DEF p, rs, own
        <5>. QED
          BY <3>4, <3>5
      <4>. QED
        BY <1>1, <1>3, <2>1, <3>2, <4>1
    <3>. HIDE DEF p, rs
    <3>7. PageOK(page', stored') /\ RequestsOK(requests', asked', page'.signedUp) /\ page' = p
      BY <1>3, <1>4, <3>1, <3>2, <3>6, BecomeKeeps DEF Become
    <3>. QED
      BY <1>4, <3>1, <3>6, <3>7 DEF SignInInv, gatewayVars
  <2>. QED
    BY <2>2, <2>3
<1>10. CASE CeremonyGoesOn(s, q)
  <2>. DEFINE r == [requests[s] EXCEPT !.stage = 2, !.answer = "awaited", !.gives = 0, !.by = IF q.by = 0 THEN q.n ELSE q.by]
  <2>1. SameRequest(requests[s], r)
    BY <1>1, <1>5 DEF SameRequest, WebRequests
  <2>2. requests' = [requests EXCEPT ![s] = r]
    BY <1>10 DEF CeremonyGoesOn
  <2>3. RequestsOK(requests', asked, page.signedUp)
    BY <2>1, <2>2, SameIsOK
  <2>. QED
    BY <1>4, <1>10, <2>3 DEF CeremonyGoesOn, SignInInv, gatewayVars
<1>11. CASE RegisterAnswered(s, q)
  <2>. DEFINE p == IF q.answer = "ok"
                     THEN [page EXCEPT !.loading = FALSE, !.hasPasskey = TRUE, !.promptPasskey = FALSE,
                                       !.promptPrivilege = ~page.hasPrivilege, !.mustRegister = FALSE]
                     ELSE [Informed(q, page) EXCEPT !.loading = FALSE]
  <2>1. Become(p, Kept(q), Freed(s)) /\ grant' = grant
    BY <1>11 DEF RegisterAnswered
  <2>2. CASE q.answer = "ok"
    <3>1. PageOK(p, Kept(q)) /\ p.signedUp = page.signedUp
      BY <1>3, <2>2 DEF PageOK, Pages, Kept
    <3>. QED
      BY <1>2, <1>3, <1>4, <2>1, <3>1, GoesOnKeeps
  <2>3. CASE q.answer # "ok"
    <3>1. p.signedUp = page.signedUp
      BY <1>3, <2>3 DEF Informed, PageOK, Pages
    <3>2. PageOK(p, Kept(q))
      BY <1>3, <2>3, InformedIs
    <3>. QED
      BY <1>2, <1>3, <1>4, <2>1, <3>1, <3>2, GoesOnKeeps
  <2>. QED
    BY <2>2, <2>3
<1>12. CASE PersonalAnswered(s, q)
  <2>1. q.kind \in UserKinds /\ q.kind # "register"
    BY <1>12 DEF PersonalAnswered, UserKinds
  <2>. QED
    BY <1>1, <1>2, <1>3, <1>4, <1>12, <2>1, SignedInIs, InformedIs, GoesOnKeeps DEF PersonalAnswered
<1>13. CASE ActivationAnswered(s, q)
  <2>1. q.kind \in UserKinds /\ q.kind # "register"
    BY <1>13 DEF ActivationAnswered, UserKinds
  <2>2. grant' \in Nat
    BY <1>3, <1>5, <1>13 DEF ActivationAnswered
  <2>. QED
    BY <1>1, <1>2, <1>3, <1>4, <1>13, <2>1, <2>2, SignedInIs, InformedIs, GoesOnKeeps DEF ActivationAnswered
<1>14. CASE TokenRegistered(s, q)
  <2>1. PICK p : /\ page' = p /\ stored' = Kept(q) /\ PageOK(p, Kept(q)) /\ p.signedUp = page.signedUp
                 /\ requests' = IF p.token # page.token THEN Quiet(Freed(s)) ELSE Freed(s)
    <3>1. CASE q.answer = "ok"
      <4>. DEFINE p == [page EXCEPT !.hasPrivilege = TRUE, !.promptPrivilege = FALSE]
      <4>1. PageOK(p, Kept(q)) /\ p.signedUp = page.signedUp
        BY <1>3, <3>1 DEF PageOK, Pages, Kept
      <4>. QED
        BY <1>14, <3>1, <4>1 DEF TokenRegistered
    <3>2. CASE q.answer # "ok"
      BY <1>3, <1>14, <3>2, InformedIs DEF TokenRegistered
    <3>. QED
      BY <3>1, <3>2
  <2>2. RequestsOK(requests', asked, page.signedUp)
    BY <1>2, <1>3, <2>1, QuietKeeps
  <2>. QED
    BY <1>4, <1>14, <2>1, <2>2 DEF TokenRegistered, SignInInv, gatewayVars
<1>15. CASE RevokeAnswered(s, q) \/ PollAnswered(s, q)
  <2>1. Become(Informed(q, page), Kept(q), Freed(s)) /\ grant' \in Nat
    BY <1>3, <1>5, <1>15 DEF RevokeAnswered, PollAnswered
  <2>. QED
    BY <1>2, <1>3, <1>4, <2>1, InformedIs, GoesOnKeeps
<1>. QED
  BY <1>6, <1>7, <1>8, <1>9, <1>10, <1>11, <1>12, <1>13, <1>14, <1>15 DEF Continue

LEMMA SignInGoesOn ==
  SignInInv /\ [SignInNext]_signInVars => SignInInv'
<1>. SUFFICES ASSUME SignInInv, [SignInNext]_signInVars PROVE SignInInv'
  OBVIOUS
<1>1. CASE Reload \/ Dismiss
  BY <1>1, ReloadKeeps, DismissKeeps
<1>2. CASE GrantTimer \/ SessionsEnd \/ ResetElsewhere \/ \E c \in Chats : GrantEnds(c)
  BY <1>2, GatewayKeeps
<1>3. ASSUME NEW s \in Slots, (\E kind \in UserKinds : Ask(s, kind)) \/ Poll(s) \/ Serve(s) \/ Fails(s) \/ Continue(s)
      PROVE  SignInInv'
  BY <1>3, AskKeeps, PollKeeps, ServeKeeps, FailsKeeps, ContinueKeeps
<1>4. CASE \E c \in Chats : TurnToChat(c)
  BY <1>4, TurnKeeps
<1>5. CASE UNCHANGED signInVars
  BY <1>5 DEF SignInInv, signInVars, gatewayVars
<1>. QED
  BY <1>1, <1>2, <1>3, <1>4, <1>5 DEF SignInNext

\* The page and the gateway, however their requests overlap or fail: the session shown
\* is the stored one, and the prompt for a passkey stays with a sign-up without password.
THEOREM SignInIsCorrect == SignInSpec => [][SignInCorrect']_signInVars
<1>1. SignInSpec => []SignInInv
  BY SignInStarts, SignInGoesOn, PTL DEF SignInSpec
<1>2. SignInInv' => SignInCorrect'
  BY SignInFollows, PTL
<1>. QED
  BY <1>1, <1>2, SignInGoesOn, PTL DEF SignInSpec
==============================================================================
