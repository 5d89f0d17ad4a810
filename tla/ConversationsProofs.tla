------------------------ MODULE ConversationsProofs ------------------------
(***************************************************************************)
(* Theorems about the gateway and its conversations, for any number of     *)
(* turns, conversations, channels, observers and IMAP tools and whatever   *)
(* the graphs do.                                                          *)
(*                                                                         *)
(* Their turns (Conversations): TurnsCorrect and StoppedIsSilent, from the *)
(* invariant ConvInv.  It says who owns what is in the queues of a         *)
(* conversation, which turns know that they are not alone, and how far the *)
(* results of a turn have come to the client.  Their grants (Grants) and   *)
(* their titles (Titles): GrantsPromise and TitlesPromise.  The start of   *)
(* the gateway (GatewayLife): LifeCorrect.  The channels beside the web    *)
(* (Channels): ChannelsCorrect, from the invariant ChannelsInv.  And what  *)
(* a model is shown (AgentGraph): PromptCorrect, from the invariant        *)
(* GraphInv.  It says that the results of a round come right after their   *)
(* calls, and that the digest stands for a beginning of the conversation   *)
(* which does not end within a round.                                      *)
(***************************************************************************)
EXTENDS Conversations, Grants, Titles, GatewayLife, Channels, AgentGraph, SequenceTheorems,
        FiniteSetTheorems, WellFoundedInduction, TLAPS

-----------------------------------------------------------------------------
(* Turns of conversations                                                  *)

\* What a turn is, by its phase: what is left behind is loose, only the web
\* channel streams, and who shared a conversation shared its queues.
ShapeOf(t) ==
  /\ turn[t].phase \in {"idle", "mirroring"} =>
       turn[t].ran = {} /\ ~turn[t].told /\ ~turn[t].loose
  /\ turn[t].phase = "idle" => turn[t].got = {}
  /\ turn[t].phase \in {"idle", "mirroring", "invoking", "replying"} => ~turn[t].streams
  /\ turn[t].phase \in {"streaming", "ended"} => turn[t].streams
  /\ turn[t].phase \in {"failing", "failed"} => turn[t].loose
  /\ turn[t].shared => turn[t].mixed
TurnsShape == \A t \in Turns : ShapeOf(t)

\* Turns of one conversation that are underway at once all know of it.
Together ==
  \A t, u \in Turns :
    t # u /\ Underway(t) /\ Underway(u) /\ turn[t].conv = turn[u].conv => turn[t].shared

\* A stop that was confirmed is kept for the stream that has its conversation to
\* itself.
ToldIsStopped ==
  \A t \in Turns :
    turn[t].phase = "streaming" /\ turn[t].told /\ ~turn[t].shared => turn[t].conv \in stopped

\* Whose results are in the queues: of turns that still take them out, or whose
\* run was left.
WebToCome(t) == \E i \in turn[t].to : Observers[i] = "web"
TakesOut(t) ==
  /\ turn[t].phase \notin {"idle", "mirroring"}
  /\ \/ turn[t].loose
     \/ turn[t].phase \in {"streaming", "invoking", "ended", "replying"}
     \/ turn[t].phase = "echoing" /\ WebToCome(t)
QueuesFollow ==
  \A c \in Convs :
    /\ \A x \in items[c] : x[2] = "default"
    /\ \A x \in items[c] \cup refs[c] : WebObserves /\ turn[x[1]].conv = c /\ TakesOut(x[1])

\* A turn that has its conversation to itself has its queues to itself.
OwnSet(t) == {t} \X turn[t].ran
OwnQueues ==
  \A t \in Turns : Underway(t) /\ ~turn[t].mixed =>
    items[turn[t].conv] \cup refs[turn[t].conv] \cup subRefs[turn[t].conv] \subseteq OwnSet(t)

\* It has shown nothing else than its own,
ShownOf(t) ==
  /\ turn[t].got \subseteq As(OwnSet(t), "item") \cup As(OwnSet(t), "ref")
  /\ turn[t].streams => <<<<t, "helper">>, "item">> \notin turn[t].got
Shown == \A t \in Turns : ~turn[t].mixed => ShownOf(t)

\* and of that everything, or will: from the queues, or with the reply.
ShownAll(t) ==
  \A a \in turn[t].ran :
    /\ <<<<t, a>>, "ref">> \in turn[t].got
    /\ a = "default" \/ ~turn[t].streams => <<<<t, a>>, "item">> \in turn[t].got
Waits(t) ==
  \A a \in turn[t].ran :
    /\ <<<<t, a>>, "ref">> \in turn[t].got \/ <<t, a>> \in refs[turn[t].conv]
    /\ a = "default" =>
         <<<<t, a>>, "item">> \in turn[t].got \/ <<t, a>> \in items[turn[t].conv]
CollectedOf(t) ==
  /\ turn[t].phase \in {"streaming", "ended"} => Waits(t)
  /\ turn[t].phase = "echoing" => ShownAll(t) \/ (~turn[t].streams /\ WebToCome(t))
  /\ turn[t].phase = "done" => ShownAll(t)
Collected == \A t \in Turns : ~turn[t].mixed /\ WebObserves => CollectedOf(t)

ConvInv ==
  /\ ConversationsTypeOK /\ TurnsShape /\ Together /\ ToldIsStopped
  /\ StopsAreForTheLiving /\ QueuesFollow /\ OwnQueues /\ Shown /\ Collected

LEMMA InvShows == ConvInv => TurnsCorrect
<1> SUFFICES ASSUME ConvInv PROVE TurnsCorrect
  OBVIOUS
<1>1. QueuesDrain
  BY DEF ConvInv, QueuesFollow, QueuesDrain, TakesOut
<1>2. ASSUME NEW t \in Turns, turn[t].phase = "done", ~turn[t].mixed, WebObserves,
             NEW kept, kept = IF turn[t].streams THEN turn[t].ran \cap {"default"} ELSE turn[t].ran
      PROVE  turn[t].got = As({t} \X kept, "item") \cup As({t} \X turn[t].ran, "ref")
  <2>1. ShownOf(t) /\ ShownAll(t)
    BY <1>2 DEF ConvInv, Shown, Collected, CollectedOf
  <2>2. turn[t].ran \subseteq {"default", "helper"}
    BY DEF ConvInv, ConversationsTypeOK, Turn, Agents
  <2>3. As({t} \X kept, "item") \cup As({t} \X turn[t].ran, "ref") \subseteq turn[t].got
    <3>1. ASSUME NEW a \in kept PROVE <<<<t, a>>, "item">> \in turn[t].got
      BY <1>2, <2>1 DEF ShownAll
    <3>2. ASSUME NEW a \in turn[t].ran PROVE <<<<t, a>>, "ref">> \in turn[t].got
      BY <2>1 DEF ShownAll
    <3>3. \A e \in As({t} \X kept, "item") : \E a \in kept : e = <<<<t, a>>, "item">>
      BY DEF As
    <3>4. \A e \in As({t} \X turn[t].ran, "ref") : \E a \in turn[t].ran : e = <<<<t, a>>, "ref">>
      BY DEF As
    <3> QED BY <3>1, <3>2, <3>3, <3>4, ZenonT(60)
  <2>4. ASSUME NEW e \in turn[t].got
        PROVE  e \in As({t} \X kept, "item") \cup As({t} \X turn[t].ran, "ref")
    <3>1. e \in As(OwnSet(t), "item") \cup As(OwnSet(t), "ref")
      BY <2>1 DEF ShownOf
    <3>2. CASE e \in As(OwnSet(t), "ref")
      BY <3>2 DEF OwnSet
    <3>3. CASE e \in As(OwnSet(t), "item")
      <4>1. PICK a \in turn[t].ran : e = <<<<t, a>>, "item">>
        BY <3>3 DEF As, OwnSet
      <4>2. a \in kept
        BY <1>2, <2>1, <2>2, <4>1 DEF ShownOf
      <4> QED BY <4>1, <4>2 DEF As
    <3> QED BY <3>1, <3>2, <3>3
  <2> QED BY <2>3, <2>4
<1>3. TurnShowsItsOwn
  BY <1>2 DEF TurnShowsItsOwn
<1> QED BY <1>1, <1>3 DEF TurnsCorrect, ConvInv

-----------------------------------------------------------------------------
(* A step of one turn, that neither begins it nor mixes its queues         *)

Steps(t) ==
  /\ turn' \in [Turns -> Turn]
  /\ \A u \in Turns : u # t => turn'[u] = turn[u]
  /\ turn'[t].conv = turn[t].conv
  /\ turn'[t].mixed = turn[t].mixed
  /\ turn'[t].phase \notin {"idle", "mirroring"} \/ turn'[t].phase = turn[t].phase
  /\ turn[t].phase # "idle"

\* Its queues are as they were or emptied, and no other turn's.
QueuesShrink(c) ==
  /\ items' \in [Convs -> SUBSET Result] /\ refs' \in [Convs -> SUBSET Result]
  /\ subRefs' \in [Convs -> SUBSET (Turns \X {"helper"})]
  /\ \A d \in Convs : d # c => items'[d] = items[d] /\ refs'[d] = refs[d] /\ subRefs'[d] = subRefs[d]
  /\ items'[c] \in {items[c], {}} /\ refs'[c] \in {refs[c], {}} /\ subRefs'[c] \in {subRefs[c], {}}

LEMMA TogetherStep ==
  ASSUME ConvInv, NEW t \in Turns, Steps(t),
         Underway(t)' => Underway(t) /\ turn'[t].shared = turn[t].shared
  PROVE  Together'
  BY DEF ConvInv, Together, Steps, Underway

LEMMA ToldStep ==
  ASSUME ConvInv, NEW t \in Turns, Steps(t),
         \A c \in stopped \ stopped' : c = turn[t].conv /\ Underway(t),
         turn'[t].phase = "streaming" /\ turn'[t].told /\ ~turn'[t].shared =>
           turn[t].phase = "streaming" /\ turn[t].told /\ ~turn[t].shared /\ stopped' = stopped
  PROVE  ToldIsStopped'
<1> SUFFICES ASSUME NEW u \in Turns, turn'[u].phase = "streaming", turn'[u].told, ~turn'[u].shared
             PROVE  turn'[u].conv \in stopped'
  BY DEF ToldIsStopped
<1>1. CASE u = t
  BY <1>1 DEF ConvInv, ToldIsStopped, Steps
<1>2. CASE u # t
  <2>1. /\ turn'[u] = turn[u] /\ turn[u].conv \in stopped
    BY <1>2 DEF Steps, ConvInv, ToldIsStopped
  <2>2. Underway(u)
    BY <2>1 DEF Underway
  <2>3. ~(Underway(t) /\ turn[t].conv = turn[u].conv)
    BY <1>2, <2>1, <2>2 DEF ConvInv, Together
  <2> QED BY <2>1, <2>3
<1> QED BY <1>1, <1>2

LEMMA LivingStep ==
  ASSUME ConvInv, NEW t \in Turns, Steps(t), stopped' \subseteq active',
         \A c \in active' :
           \/ c \in active /\ c # turn[t].conv
           \/ c \in active /\ (Running(t) => Running(t)')
           \/ c = turn[t].conv /\ Running(t)'
  PROVE  StopsAreForTheLiving'
<1> SUFFICES ASSUME NEW c \in active' PROVE \E u \in TurnsOf(c)' : Running(u)'
  BY DEF StopsAreForTheLiving
<1>1. CASE c = turn[t].conv /\ Running(t)'
  <2>1. t \in TurnsOf(c)'
    BY <1>1 DEF TurnsOf, Steps, Running, Processing
  <2> QED BY <1>1, <2>1
<1>2. CASE c \in active /\ ~(c = turn[t].conv /\ Running(t)')
  <2>1. PICK u \in TurnsOf(c) : Running(u)
    BY <1>2 DEF ConvInv, StopsAreForTheLiving
  <2>2. u # t
    BY <1>2, <2>1 DEF TurnsOf
  <2>3. u \in TurnsOf(c)' /\ Running(u)'
    BY <2>1, <2>2 DEF TurnsOf, Running, Steps
  <2> QED BY <2>3
<1> QED BY <1>1, <1>2

LEMMA QueuesStep ==
  ASSUME ConvInv, NEW t \in Turns, Steps(t), QueuesShrink(turn[t].conv),
         TakesOut(t) /\ items'[turn[t].conv] \cup refs'[turn[t].conv] # {} => TakesOut(t)'
  PROVE  QueuesFollow'
<1> SUFFICES ASSUME NEW c \in Convs
             PROVE  /\ \A x \in items'[c] : x[2] = "default"
                    /\ \A x \in items'[c] \cup refs'[c] :
                         WebObserves /\ turn'[x[1]].conv = c /\ TakesOut(x[1])'
  BY DEF QueuesFollow, WebObserves
<1>1. turn[t].conv \in Convs
  BY DEF ConvInv, ConversationsTypeOK, Turn
<1>2. items'[c] \subseteq items[c] /\ refs'[c] \subseteq refs[c]
  BY <1>1 DEF QueuesShrink
<1>3. \A x \in items'[c] : x[2] = "default"
  BY <1>2 DEF ConvInv, QueuesFollow
<1>4. ASSUME NEW x \in items'[c] \cup refs'[c]
      PROVE  WebObserves /\ turn'[x[1]].conv = c /\ TakesOut(x[1])'
  <2>1. WebObserves /\ turn[x[1]].conv = c /\ TakesOut(x[1])
    BY <1>2, <1>4 DEF ConvInv, QueuesFollow
  <2>2. x[1] \in Turns
    BY <1>2, <1>4 DEF ConvInv, ConversationsTypeOK, Result
  <2>3. CASE x[1] = t
    BY <1>4, <2>1, <2>3 DEF Steps
  <2>4. CASE x[1] # t
    BY <2>1, <2>2, <2>4 DEF Steps, TakesOut, WebToCome
  <2> QED BY <2>1, <2>3, <2>4
<1> QED BY <1>3, <1>4

LEMMA OwnStep ==
  ASSUME ConvInv, NEW t \in Turns, Steps(t), QueuesShrink(turn[t].conv),
         Underway(t)' => Underway(t), turn'[t].ran = turn[t].ran
  PROVE  OwnQueues'
<1> SUFFICES ASSUME NEW u \in Turns, Underway(u)', ~turn'[u].mixed
             PROVE  items'[turn'[u].conv] \cup refs'[turn'[u].conv] \cup subRefs'[turn'[u].conv]
                      \subseteq {u} \X turn'[u].ran
  BY DEF OwnQueues, OwnSet
<1>1. /\ Underway(u) /\ ~turn[u].mixed /\ turn'[u].conv = turn[u].conv /\ turn'[u].ran = turn[u].ran
      /\ turn[u].conv \in Convs /\ turn[t].conv \in Convs
  BY DEF Steps, Underway, ConvInv, ConversationsTypeOK, Turn
<1>2. items[turn[u].conv] \cup refs[turn[u].conv] \cup subRefs[turn[u].conv] \subseteq {u} \X turn[u].ran
  BY <1>1 DEF ConvInv, OwnQueues, OwnSet
<1>3. /\ items'[turn[u].conv] \subseteq items[turn[u].conv]
      /\ refs'[turn[u].conv] \subseteq refs[turn[u].conv]
      /\ subRefs'[turn[u].conv] \subseteq subRefs[turn[u].conv]
  BY <1>1 DEF QueuesShrink
<1> QED BY <1>1, <1>2, <1>3

LEMMA ShownStep ==
  ASSUME ConvInv, NEW t \in Turns, Steps(t), ~turn'[t].mixed => ShownOf(t)'
  PROVE  Shown'
  BY DEF ConvInv, Shown, ShownOf, OwnSet, Steps

LEMMA CollectedStep ==
  ASSUME ConvInv, NEW t \in Turns, Steps(t),
         \A c \in Convs : c # turn[t].conv => items'[c] = items[c] /\ refs'[c] = refs[c],
         Underway(t) \/ UNCHANGED pendingVars,
         ~turn[t].mixed /\ WebObserves => CollectedOf(t)'
  PROVE  Collected'
<1> SUFFICES ASSUME NEW u \in Turns, ~turn'[u].mixed, WebObserves PROVE CollectedOf(u)'
  BY DEF Collected, WebObserves
<1>1. CASE u = t
  BY <1>1 DEF Steps
<1>2. CASE u # t
  <2>1. turn'[u] = turn[u] /\ CollectedOf(u) /\ ~turn[u].mixed /\ turn[u].conv \in Convs
    BY <1>2 DEF Steps, ConvInv, Collected, ConversationsTypeOK, Turn
  <2>2. turn[u].phase \in {"streaming", "ended"} => Waits(u)'
    <3> SUFFICES ASSUME turn[u].phase \in {"streaming", "ended"} PROVE Waits(u)'
      OBVIOUS
    <3>1. Waits(u)
      BY <2>1 DEF CollectedOf
    <3>2. items'[turn[u].conv] = items[turn[u].conv] /\ refs'[turn[u].conv] = refs[turn[u].conv]
      <4>1. CASE UNCHANGED pendingVars
        BY <4>1 DEF pendingVars
      <4>2. CASE Underway(t) /\ turn[u].conv = turn[t].conv
        <5>1. Underway(u)
          BY DEF Underway
        <5>2. turn[u].shared
          BY <1>2, <4>2, <5>1 DEF ConvInv, Together
        <5> QED BY <2>1, <5>2 DEF ConvInv, TurnsShape, ShapeOf
      <4>3. CASE turn[u].conv # turn[t].conv
        BY <2>1, <4>3
      <4> QED BY <4>1, <4>2, <4>3
    <3> QED BY <2>1, <3>1, <3>2 DEF Waits
  <2> QED BY <2>1, <2>2 DEF CollectedOf, ShownAll, WebToCome
<1> QED BY <1>1, <1>2

LEMMA StepKeeps ==
  ASSUME ConvInv, NEW t \in Turns, Steps(t), QueuesShrink(turn[t].conv),
         turn'[t].ran = turn[t].ran,
         Underway(t)' => Underway(t) /\ turn'[t].shared = turn[t].shared,
         Underway(t) \/ UNCHANGED pendingVars,
         stopped' \subseteq active', active' \subseteq Convs,
         \A c \in active' :
           \/ c \in active /\ c # turn[t].conv
           \/ c \in active /\ (Running(t) => Running(t)')
           \/ c = turn[t].conv /\ Running(t)',
         \A c \in stopped \ stopped' : c = turn[t].conv /\ Underway(t),
         turn'[t].phase = "streaming" /\ turn'[t].told /\ ~turn'[t].shared =>
           turn[t].phase = "streaming" /\ turn[t].told /\ ~turn[t].shared /\ stopped' = stopped,
         ShapeOf(t)',
         TakesOut(t) /\ items'[turn[t].conv] \cup refs'[turn[t].conv] # {} => TakesOut(t)',
         ~turn[t].mixed => ShownOf(t)',
         ~turn[t].mixed /\ WebObserves => CollectedOf(t)'
  PROVE  ConvInv'
<1>1. ConversationsTypeOK'
  BY DEF ConversationsTypeOK, Steps, QueuesShrink
<1>2. TurnsShape'
  BY DEF ConvInv, TurnsShape, ShapeOf, Steps
<1>3. Together'
  BY TogetherStep
<1>4. ToldIsStopped'
  BY ToldStep
<1>5. StopsAreForTheLiving'
  BY LivingStep
<1>6. QueuesFollow'
  BY QueuesStep
<1>7. OwnQueues'
  BY OwnStep
<1>8. Shown'
  BY ShownStep DEF Steps
<1>9. Collected'
  BY CollectedStep DEF QueuesShrink
<1> QED BY <1>1, <1>2, <1>3, <1>4, <1>5, <1>6, <1>7, <1>8, <1>9 DEF ConvInv

\* What a frame carries of the queues.
LEMMA QueuedIsOwn ==
  ASSUME ConvInv, NEW t \in Turns, Underway(t), ~turn[t].mixed
  PROVE  /\ Queued(turn[t].conv) \subseteq As(OwnSet(t), "item") \cup As(OwnSet(t), "ref")
         /\ <<<<t, "helper">>, "item">> \notin Queued(turn[t].conv)
         /\ \A a \in Agents : ChunkFrame(turn[t].conv, a) \subseteq As(OwnSet(t), "ref")
         /\ \A a, b \in Agents : <<<<t, a>>, "item">> \notin ChunkFrame(turn[t].conv, b)
<1> DEFINE c == turn[t].conv
<1>1. c \in Convs
  BY DEF ConvInv, ConversationsTypeOK, Turn
<1>2. items[c] \subseteq OwnSet(t) /\ refs[c] \subseteq OwnSet(t) /\ subRefs[c] \subseteq OwnSet(t)
  BY DEF ConvInv, OwnQueues
<1>3. <<t, "helper">> \notin items[c]
  <2>1. \A x \in items[c] : x[2] = "default"
    BY <1>1 DEF ConvInv, QueuesFollow
  <2> QED BY <2>1
<1> HIDE DEF c
<1>4. Queued(c) \subseteq As(OwnSet(t), "item") \cup As(OwnSet(t), "ref")
  BY <1>2 DEF Queued, As
<1>5. <<<<t, "helper">>, "item">> \notin Queued(c)
  BY <1>3 DEF Queued, As
<1>6. /\ \A a \in Agents : ChunkFrame(c, a) \subseteq As(OwnSet(t), "ref")
      /\ \A a, b \in Agents : <<<<t, a>>, "item">> \notin ChunkFrame(c, b)
  BY <1>2 DEF ChunkFrame, As
<1> QED BY <1>4, <1>5, <1>6 DEF c

LEMMA FrameTypes ==
  ASSUME ConvInv, NEW t \in Turns
  PROVE  /\ turn[t] \in Turn /\ turn[t].conv \in Convs
         /\ Queued(turn[t].conv) \in SUBSET (Result \X {"item", "ref"})
         /\ \A a \in Agents : ChunkFrame(turn[t].conv, a) \in SUBSET (Result \X {"item", "ref"})
         /\ Attached(t) \in SUBSET (Result \X {"item", "ref"})
         /\ Attached(t) = As(OwnSet(t), "item") \cup As(OwnSet(t), "ref")
<1>1. turn[t] \in Turn /\ turn[t].conv \in Convs /\ turn[t].ran \subseteq Agents
  BY DEF ConvInv, ConversationsTypeOK, Turn
<1>2. /\ items[turn[t].conv] \subseteq Result /\ refs[turn[t].conv] \subseteq Result
      /\ subRefs[turn[t].conv] \subseteq Result
  BY <1>1 DEF ConvInv, ConversationsTypeOK, Result, Agents
<1>3. \A S \in SUBSET Result : /\ As(S, "item") \subseteq Result \X {"item", "ref"}
                              /\ As(S, "ref") \subseteq Result \X {"item", "ref"}
  BY DEF As
<1>4. {t} \X turn[t].ran \subseteq Result
  BY <1>1 DEF Result
<1> QED BY <1>1, <1>2, <1>3, <1>4 DEF Queued, ChunkFrame, Attached, OwnSet

\* What Carry leaves and what it adds.
LEMMA CarryIs ==
  ASSUME NEW f \in [Turns -> Turn], NEW t \in Turns,
         NEW S \in SUBSET (Result \X {"item", "ref"}), turn' = Carry(f, t, S)
  PROVE  /\ turn' \in [Turns -> Turn]
         /\ \A u \in Turns : u # t => turn'[u] = f[u]
         /\ turn'[t] = [f[t] EXCEPT !.got = IF f[t].mixed THEN {} ELSE f[t].got \cup S]
         /\ turn'[t].phase = f[t].phase /\ turn'[t].conv = f[t].conv
         /\ turn'[t].source = f[t].source /\ turn'[t].to = f[t].to
         /\ turn'[t].streams = f[t].streams /\ turn'[t].ran = f[t].ran
         /\ turn'[t].text = f[t].text /\ turn'[t].loose = f[t].loose
         /\ turn'[t].told = f[t].told /\ turn'[t].shared = f[t].shared
         /\ turn'[t].mixed = f[t].mixed
         /\ ~f[t].mixed => turn'[t].got = f[t].got \cup S
  BY DEF Carry, Turn

LEMMA SendIs ==
  ASSUME ConversationsTypeOK, NEW c \in Convs, NEW ch, Send(ch, c)
  PROVE  /\ QueuesShrink(c)
         /\ ch = "web" => items'[c] = {} /\ refs'[c] = {}
         /\ ch # "web" => UNCHANGED pendingVars
  BY DEF Send, Drain, QueuesShrink, ConversationsTypeOK, pendingVars

\* The web channel has its frame when it is sent to, another channel changes
\* nothing.
LEMMA MirrorUserKeeps ==
  ASSUME ConvInv, NEW t \in Turns, MirrorUser(t)
  PROVE  ConvInv'
<1> DEFINE i == First(turn[t].to)
           c == turn[t].conv
           S == WebFrame(Observers[i], c, {})
           f == [turn EXCEPT ![t].to = @ \ {i}]
<1>1. /\ turn[t].phase = "mirroring" /\ Send(Observers[i], c) /\ turn' = Carry(f, t, S)
      /\ UNCHANGED agentVars
  BY DEF MirrorUser
<1>2. /\ turn \in [Turns -> Turn] /\ turn[t] \in Turn /\ c \in Convs
      /\ Underway(t) /\ ShapeOf(t)
  BY <1>1, FrameTypes DEF ConvInv, ConversationsTypeOK, TurnsShape, Underway
<1>3. /\ f \in [Turns -> Turn] /\ \A u \in Turns : u # t => f[u] = turn[u]
      /\ f[t] = [turn[t] EXCEPT !.to = @ \ {i}]
  BY <1>2 DEF Turn
<1>4. S \in SUBSET (Result \X {"item", "ref"}) /\ S \subseteq Queued(c)
  BY FrameTypes DEF WebFrame
<1>5. QueuesShrink(c)
  BY <1>1, <1>2, SendIs DEF ConvInv
<1> HIDE DEF S, f, c, i
<1>6. /\ Steps(t) /\ turn'[t].phase = "mirroring" /\ turn'[t].ran = turn[t].ran
      /\ turn'[t].shared = turn[t].shared /\ turn'[t].mixed = turn[t].mixed
      /\ turn'[t].told = turn[t].told /\ turn'[t].loose = turn[t].loose
      /\ turn'[t].streams = turn[t].streams
      /\ ~turn[t].mixed => turn'[t].got = turn[t].got \cup S
  <2>1. /\ turn' \in [Turns -> Turn]
        /\ \A u \in Turns : u # t => turn'[u] = f[u]
        /\ turn'[t].phase = f[t].phase /\ turn'[t].conv = f[t].conv
        /\ turn'[t].streams = f[t].streams /\ turn'[t].ran = f[t].ran
        /\ turn'[t].loose = f[t].loose /\ turn'[t].told = f[t].told
        /\ turn'[t].shared = f[t].shared /\ turn'[t].mixed = f[t].mixed
        /\ ~f[t].mixed => turn'[t].got = f[t].got \cup S
    <3>1. f \in [Turns -> Turn] /\ S \in SUBSET (Result \X {"item", "ref"}) /\ turn' = Carry(f, t, S)
      BY <1>1, <1>3, <1>4
    <3> QED BY <3>1, CarryIs, ZenonT(60)
  <2>2. /\ f[t].phase = turn[t].phase /\ f[t].conv = turn[t].conv
        /\ f[t].streams = turn[t].streams /\ f[t].ran = turn[t].ran
        /\ f[t].loose = turn[t].loose /\ f[t].told = turn[t].told
        /\ f[t].shared = turn[t].shared /\ f[t].mixed = turn[t].mixed
        /\ f[t].got = turn[t].got
    BY <1>2, <1>3 DEF Turn
  <2> QED BY <1>1, <1>3, <2>1, <2>2 DEF Steps
<1>7. ~turn[t].mixed => ShownOf(t)'
  <2> SUFFICES ASSUME ~turn[t].mixed PROVE ShownOf(t)'
    OBVIOUS
  <2>1. S \subseteq As(OwnSet(t), "item") \cup As(OwnSet(t), "ref") /\ OwnSet(t)' = OwnSet(t)
    BY <1>2, <1>4, <1>6, QueuedIsOwn DEF c, OwnSet
  <2>2. ShownOf(t)
    BY DEF ConvInv, Shown
  <2> QED BY <1>1, <1>2, <1>6, <2>1, <2>2 DEF ShownOf, ShapeOf, As
<1> QED
  BY <1>1, <1>2, <1>5, <1>6, <1>7, StepKeeps
     DEF agentVars, ShapeOf, TakesOut, CollectedOf, Underway, Running, Processing, c,
         ConvInv, StopsAreForTheLiving, ConversationsTypeOK

LEMMA RunKeeps ==
  ASSUME ConvInv, NEW t \in Turns, Run(t)
  PROVE  ConvInv'
<1>1. /\ turn[t].phase = "mirroring" /\ active' = active \cup {turn[t].conv}
      /\ UNCHANGED <<stopped, pendingVars>>
  BY DEF Run
<1>2. /\ turn \in [Turns -> Turn] /\ turn[t] \in Turn /\ turn[t].conv \in Convs
      /\ ShapeOf(t)
  BY FrameTypes DEF ConvInv, ConversationsTypeOK, TurnsShape
<1>3. /\ turn' \in [Turns -> Turn] /\ \A u \in Turns : u # t => turn'[u] = turn[u]
      /\ turn'[t].conv = turn[t].conv /\ turn'[t].mixed = turn[t].mixed
      /\ \/ turn'[t].phase = "streaming" /\ turn'[t].streams
         \/ turn'[t].phase = "invoking" /\ ~turn'[t].streams
      /\ turn'[t].ran = turn[t].ran /\ turn'[t].got = turn[t].got
      /\ turn'[t].told = turn[t].told /\ turn'[t].shared = turn[t].shared
  BY <1>1, <1>2 DEF Run, Turn, Phase, ShapeOf
<1>4. turn[t].ran = {} /\ ~turn[t].told
  BY <1>1, <1>2 DEF ShapeOf
<1>5. Steps(t) /\ QueuesShrink(turn[t].conv)
  BY <1>1, <1>3 DEF Steps, QueuesShrink, ConvInv, ConversationsTypeOK, pendingVars
<1>6. ShapeOf(t)'
  BY <1>2, <1>3, <1>4 DEF ShapeOf
<1>7. ~turn[t].mixed => ShownOf(t)'
  <2> SUFFICES ASSUME ~turn[t].mixed PROVE ShownOf(t)'
    OBVIOUS
  <2>1. turn[t].got \subseteq As(OwnSet(t), "item") \cup As(OwnSet(t), "ref")
    BY DEF ConvInv, Shown, ShownOf
  <2>2. OwnSet(t) = {}
    BY <1>4 DEF OwnSet
  <2>3. turn[t].got = {}
    BY <2>1, <2>2 DEF As
  <2> QED BY <1>3, <2>3 DEF ShownOf
<1>8. CollectedOf(t)'
  BY <1>3, <1>4 DEF CollectedOf, Waits
<1> QED
  BY <1>1, <1>2, <1>3, <1>4, <1>5, <1>6, <1>7, <1>8, StepKeeps
     DEF TakesOut, Underway, Running, Processing, ConvInv, StopsAreForTheLiving, ConversationsTypeOK

\* Text of an agent: the references queued for it go with it.
LEMMA ChunkKeeps ==
  ASSUME ConvInv, NEW t \in Turns, NEW from \in Agents, Chunk(t, from)
  PROVE  ConvInv'
<1> DEFINE c == turn[t].conv
           S == ChunkFrame(c, from)
           f == [turn EXCEPT ![t].text = TRUE]
<1>1. /\ turn[t].phase = "streaming" /\ WebChunk(c, from) /\ turn' = Carry(f, t, S)
      /\ UNCHANGED agentVars
  BY DEF Chunk
<1>2. /\ turn \in [Turns -> Turn] /\ turn[t] \in Turn /\ c \in Convs
      /\ Underway(t) /\ ShapeOf(t)
  BY <1>1, FrameTypes DEF ConvInv, ConversationsTypeOK, TurnsShape, Underway
<1>3. /\ f \in [Turns -> Turn] /\ \A u \in Turns : u # t => f[u] = turn[u]
      /\ f[t] = [turn[t] EXCEPT !.text = TRUE]
  BY <1>2 DEF Turn
<1>4. S \in SUBSET (Result \X {"item", "ref"})
  BY FrameTypes
<1>5. /\ QueuesShrink(c) /\ items' = items
      /\ IF from = "default" THEN S = As(refs[c], "ref") ELSE refs' = refs
  BY <1>1, <1>2 DEF WebChunk, QueuesShrink, ChunkFrame, ConvInv, ConversationsTypeOK
<1> HIDE DEF S, f, c
<1>6. /\ Steps(t) /\ turn'[t].phase = "streaming" /\ turn'[t].ran = turn[t].ran
      /\ turn'[t].shared = turn[t].shared /\ turn'[t].mixed = turn[t].mixed
      /\ turn'[t].told = turn[t].told /\ turn'[t].loose = turn[t].loose
      /\ turn'[t].streams = turn[t].streams /\ turn'[t].conv = c
      /\ ~turn[t].mixed => turn'[t].got = turn[t].got \cup S
  <2>1. /\ turn' \in [Turns -> Turn]
        /\ \A u \in Turns : u # t => turn'[u] = f[u]
        /\ turn'[t].phase = f[t].phase /\ turn'[t].conv = f[t].conv
        /\ turn'[t].streams = f[t].streams /\ turn'[t].ran = f[t].ran
        /\ turn'[t].loose = f[t].loose /\ turn'[t].told = f[t].told
        /\ turn'[t].shared = f[t].shared /\ turn'[t].mixed = f[t].mixed
        /\ ~f[t].mixed => turn'[t].got = f[t].got \cup S
    <3>1. turn' = Carry(f, t, S) /\ f \in [Turns -> Turn]
      BY <1>1, <1>3
    <3> QED BY <3>1, <1>4, CarryIs, ZenonT(30)
  <2>2. /\ f[t].phase = turn[t].phase /\ f[t].conv = turn[t].conv
        /\ f[t].streams = turn[t].streams /\ f[t].ran = turn[t].ran
        /\ f[t].loose = turn[t].loose /\ f[t].told = turn[t].told
        /\ f[t].shared = turn[t].shared /\ f[t].mixed = turn[t].mixed
        /\ f[t].got = turn[t].got
    BY <1>2, <1>3 DEF Turn
  <2> QED BY <1>1, <1>3, <2>1, <2>2 DEF Steps, c
<1>7. ~turn[t].mixed => ShownOf(t)'
  <2> SUFFICES ASSUME ~turn[t].mixed PROVE ShownOf(t)'
    OBVIOUS
  <2>1. /\ S \subseteq As(OwnSet(t), "ref") /\ OwnSet(t)' = OwnSet(t)
        /\ <<<<t, "helper">>, "item">> \notin S
    BY <1>2, <1>6, QueuedIsOwn DEF S, c, OwnSet, Agents
  <2>2. ShownOf(t)
    BY DEF ConvInv, Shown
  <2> QED BY <1>6, <2>1, <2>2 DEF ShownOf, As
<1>8. ~turn[t].mixed /\ WebObserves => CollectedOf(t)'
  <2> SUFFICES ASSUME ~turn[t].mixed, WebObserves PROVE CollectedOf(t)'
    OBVIOUS
  <2>1. Waits(t)
    BY <1>1 DEF ConvInv, Collected, CollectedOf, c
  <2>2. \A a : <<t, a>> \in refs[c] => <<<<t, a>>, "ref">> \in S \/ refs' = refs
    BY <1>5 DEF As
  <2>3. Waits(t)'
    BY <1>5, <1>6, <2>1, <2>2 DEF Waits, c
  <2> QED BY <1>6, <2>3 DEF CollectedOf
<1> QED
  BY <1>1, <1>2, <1>5, <1>6, <1>7, <1>8, StepKeeps
     DEF c, agentVars, ShapeOf, TakesOut, Underway, Running, Processing,
         ConvInv, StopsAreForTheLiving, ConversationsTypeOK

\* Steps that only end what the graph does: nothing is sent.
LEMMA GraphEnds ==
  ASSUME ConvInv, NEW t \in Turns,
         Break(t) \/ StreamEnds(t) \/ StreamFails(t) \/ InvokeReturns(t) \/ InvokeFails(t)
  PROVE  ConvInv'
<1>1. /\ turn \in [Turns -> Turn] /\ turn[t] \in Turn /\ turn[t].conv \in Convs /\ ShapeOf(t)
      /\ Underway(t) /\ turn[t].phase \in {"streaming", "invoking", "replying"}
  BY FrameTypes DEF ConvInv, ConversationsTypeOK, TurnsShape, Underway,
     Break, StreamEnds, StreamFails, InvokeReturns, InvokeFails
<1>2. /\ turn' \in [Turns -> Turn] /\ \A u \in Turns : u # t => turn'[u] = turn[u]
      /\ turn'[t].conv = turn[t].conv /\ turn'[t].mixed = turn[t].mixed
      /\ turn'[t].ran = turn[t].ran /\ turn'[t].got = turn[t].got
      /\ turn'[t].told = turn[t].told /\ turn'[t].shared = turn[t].shared
      /\ turn[t].loose => turn'[t].loose
      /\ turn'[t].streams => turn[t].streams
      /\ \/ /\ turn'[t].phase = "ended" /\ turn[t].phase = "streaming" /\ turn'[t].streams = turn[t].streams
         \/ turn'[t].phase = "failing" /\ turn'[t].loose
         \/ turn'[t].phase = "invoking" /\ ~turn'[t].streams /\ turn'[t].loose
         \/ turn'[t].phase = "replying" /\ turn[t].phase = "invoking" /\ ~turn'[t].streams
  BY <1>1 DEF Break, StreamEnds, StreamFails, InvokeReturns, InvokeFails, Goto, Turn, Phase, ShapeOf
<1>3. /\ UNCHANGED pendingVars
      /\ \/ UNCHANGED agentVars
         \/ Clear(t)
         \/ active' = active /\ stopped' = stopped \ {turn[t].conv}
      /\ turn'[t].phase = "failing" => Clear(t)
  BY <1>1 DEF Break, StreamEnds, StreamFails, InvokeReturns, InvokeFails, Goto, Turn
<1>4. Steps(t) /\ QueuesShrink(turn[t].conv)
  BY <1>1, <1>2, <1>3 DEF Steps, QueuesShrink, ConvInv, ConversationsTypeOK, pendingVars
<1>5. ShapeOf(t)' /\ TakesOut(t)'
  BY <1>1, <1>2 DEF ShapeOf, TakesOut
<1>6. ~turn[t].mixed => ShownOf(t)'
  BY <1>2 DEF ConvInv, Shown, ShownOf, OwnSet
<1>7. ~turn[t].mixed /\ WebObserves => CollectedOf(t)'
  BY <1>2, <1>3 DEF ConvInv, Collected, CollectedOf, Waits, pendingVars
<1>8. stopped' \subseteq active' /\ active' \subseteq Convs /\ active' \subseteq active
  BY <1>3 DEF agentVars, Clear, ConvInv, StopsAreForTheLiving, ConversationsTypeOK
<1>9. \A c \in active' : c # turn[t].conv \/ Running(t)'
  BY <1>2, <1>3 DEF Clear, Running, Processing
<1>10. \A c \in stopped \ stopped' : c = turn[t].conv
  BY <1>3 DEF agentVars, Clear
<1> QED
  BY <1>1, <1>2, <1>3, <1>4, <1>5, <1>6, <1>7, <1>8, <1>9, <1>10, StepKeeps DEF Underway

\* The record a turn has after a frame of it, of which S is shown.
Sent(t, S) ==
  /\ turn' \in [Turns -> Turn] /\ \A u \in Turns : u # t => turn'[u] = turn[u]
  /\ turn'[t].conv = turn[t].conv /\ turn'[t].streams = turn[t].streams
  /\ turn'[t].ran = turn[t].ran /\ turn'[t].loose = turn[t].loose
  /\ turn'[t].told = turn[t].told /\ turn'[t].shared = turn[t].shared
  /\ turn'[t].mixed = turn[t].mixed
  /\ turn'[t].phase = "echoing"
  /\ ~turn[t].mixed => turn'[t].got = turn[t].got \cup S

LEMMA EchoingSent ==
  ASSUME ConvInv, NEW t \in Turns, NEW S \in SUBSET (Result \X {"item", "ref"}),
         NEW to \in SUBSET (1..Len(Observers)),
         turn' = Carry([turn EXCEPT ![t].phase = "echoing", ![t].to = to], t, S)
  PROVE  Sent(t, S) /\ turn'[t].to = to
<1> DEFINE f == [turn EXCEPT ![t].phase = "echoing", ![t].to = to]
<1>1. turn \in [Turns -> Turn] /\ turn[t] \in Turn
  BY DEF ConvInv, ConversationsTypeOK
<1>2. /\ f \in [Turns -> Turn] /\ \A u \in Turns : u # t => f[u] = turn[u]
      /\ f[t].phase = "echoing" /\ f[t].to = to /\ f[t].conv = turn[t].conv
      /\ f[t].streams = turn[t].streams /\ f[t].ran = turn[t].ran
      /\ f[t].loose = turn[t].loose /\ f[t].told = turn[t].told
      /\ f[t].shared = turn[t].shared /\ f[t].mixed = turn[t].mixed
      /\ f[t].got = turn[t].got
  BY <1>1 DEF Turn, Phase
<1>3. /\ turn' \in [Turns -> Turn]
      /\ \A u \in Turns : u # t => turn'[u] = f[u]
      /\ turn'[t].phase = f[t].phase /\ turn'[t].conv = f[t].conv
      /\ turn'[t].to = f[t].to
      /\ turn'[t].streams = f[t].streams /\ turn'[t].ran = f[t].ran
      /\ turn'[t].loose = f[t].loose /\ turn'[t].told = f[t].told
      /\ turn'[t].shared = f[t].shared /\ turn'[t].mixed = f[t].mixed
      /\ ~f[t].mixed => turn'[t].got = f[t].got \cup S
  <2>1. f \in [Turns -> Turn]
    BY <1>2
  <2>2. turn' = Carry(f, t, S)
    OBVIOUS
  <2> HIDE DEF f
  <2>3. /\ turn' \in [Turns -> Turn]
        /\ \A u \in Turns : u # t => turn'[u] = f[u]
        /\ turn'[t] = [f[t] EXCEPT !.got = IF f[t].mixed THEN {} ELSE f[t].got \cup S]
        /\ turn'[t].phase = f[t].phase /\ turn'[t].conv = f[t].conv
        /\ turn'[t].source = f[t].source /\ turn'[t].to = f[t].to
        /\ turn'[t].streams = f[t].streams /\ turn'[t].ran = f[t].ran
        /\ turn'[t].text = f[t].text /\ turn'[t].loose = f[t].loose
        /\ turn'[t].told = f[t].told /\ turn'[t].shared = f[t].shared
        /\ turn'[t].mixed = f[t].mixed
        /\ ~f[t].mixed => turn'[t].got = f[t].got \cup S
    BY <2>1, <2>2, CarryIs, ZenonT(60)
  <2> QED BY <2>3
<1> QED BY <1>2, <1>3 DEF Sent

\* A frame to channel ch that leaves the turn with its reply to mirror: the
\* queues are shown with what is attached, or nothing is.
LEMMA SentKeeps ==
  ASSUME ConvInv, NEW t \in Turns, turn[t].phase \in {"ended", "replying", "echoing"},
         NEW ch, NEW A, A = {} \/ (A = Attached(t) /\ ~turn[t].streams),
         Sent(t, WebFrame(ch, turn[t].conv, A)), Send(ch, turn[t].conv), UNCHANGED agentVars,
         ch # "web" /\ WebObserves /\ turn[t].phase # "echoing" =>
           ~turn[t].streams /\ WebToCome(t)',
         ch # "web" /\ turn[t].phase = "echoing" /\ WebToCome(t) => WebToCome(t)',
         ch = "web" /\ ~turn[t].streams => A = Attached(t)
  PROVE  ConvInv'
<1> DEFINE c == turn[t].conv
           S == WebFrame(ch, c, A)
<1>1. /\ turn[t] \in Turn /\ c \in Convs /\ Underway(t) /\ ShapeOf(t) /\ Running(t)
  BY FrameTypes DEF ConvInv, TurnsShape, Underway, Running, Processing
<1>2. /\ QueuesShrink(c)
      /\ ch = "web" => items'[c] = {} /\ refs'[c] = {}
      /\ ch # "web" => UNCHANGED pendingVars
  BY <1>1, SendIs DEF ConvInv
<1>3. /\ turn' \in [Turns -> Turn] /\ \A u \in Turns : u # t => turn'[u] = turn[u]
      /\ turn'[t].conv = turn[t].conv /\ turn'[t].streams = turn[t].streams
      /\ turn'[t].ran = turn[t].ran /\ turn'[t].loose = turn[t].loose
      /\ turn'[t].told = turn[t].told /\ turn'[t].shared = turn[t].shared
      /\ turn'[t].mixed = turn[t].mixed /\ turn'[t].phase = "echoing"
      /\ ~turn[t].mixed => turn'[t].got = turn[t].got \cup S
  BY DEF Sent
<1>4. /\ ch = "web" => S = A \cup Queued(c)
      /\ ch # "web" => S = {}
  BY DEF WebFrame
<1> HIDE DEF S
<1>5. Steps(t)
  BY <1>3 DEF Steps
<1>6. ShapeOf(t)'
  BY <1>1, <1>3 DEF ShapeOf
<1>7. TakesOut(t) /\ items'[c] \cup refs'[c] # {} => TakesOut(t)'
  <2> SUFFICES ASSUME TakesOut(t), NEW x \in items'[c] \cup refs'[c] PROVE TakesOut(t)'
    OBVIOUS
  <2>1. ch # "web" /\ x \in items[c] \cup refs[c]
    BY <1>2 DEF pendingVars
  <2>2. WebObserves
    BY <1>1, <2>1 DEF ConvInv, QueuesFollow
  <2> QED BY <1>3, <2>1, <2>2 DEF TakesOut
<1>8. ~turn[t].mixed => ShownOf(t)'
  <2> SUFFICES ASSUME ~turn[t].mixed PROVE ShownOf(t)'
    OBVIOUS
  <2>1. /\ Queued(c) \subseteq As(OwnSet(t), "item") \cup As(OwnSet(t), "ref")
        /\ <<<<t, "helper">>, "item">> \notin Queued(c)
    BY <1>1, QueuedIsOwn
  <2>2. S \subseteq As(OwnSet(t), "item") \cup As(OwnSet(t), "ref")
    BY <1>4, <2>1, FrameTypes
  <2>3. turn[t].streams => <<<<t, "helper">>, "item">> \notin S
    BY <1>4, <2>1
  <2>4. ShownOf(t) /\ OwnSet(t)' = OwnSet(t)
    BY <1>3 DEF ConvInv, Shown, OwnSet
  <2> QED BY <1>3, <2>2, <2>3, <2>4 DEF ShownOf, As
<1>9. ~turn[t].mixed /\ WebObserves => CollectedOf(t)'
  <2> SUFFICES ASSUME ~turn[t].mixed, WebObserves PROVE CollectedOf(t)'
    OBVIOUS
  <2>1. CollectedOf(t)
    BY DEF ConvInv, Collected
  <2>2. CASE ch = "web" /\ ~turn[t].streams
    <3>1. ASSUME NEW a \in turn[t].ran
          PROVE  <<<<t, a>>, "item">> \in S /\ <<<<t, a>>, "ref">> \in S
      BY <1>4, <2>2 DEF Attached, As
    <3>2. ShownAll(t)'
      BY <1>3, <3>1 DEF ShownAll
    <3> QED BY <1>3, <3>2 DEF CollectedOf
  <2>3. CASE ch = "web" /\ turn[t].streams /\ turn[t].phase = "ended"
    <3>1. Waits(t)
      BY <2>1, <2>3 DEF CollectedOf
    <3>2. As(refs[c], "ref") \subseteq S /\ As(items[c], "item") \subseteq S
      BY <1>4, <2>3 DEF Queued
    <3>3. ShownAll(t)'
      <4> SUFFICES ASSUME NEW a \in turn[t].ran
                   PROVE  /\ <<<<t, a>>, "ref">> \in turn'[t].got
                          /\ a = "default" => <<<<t, a>>, "item">> \in turn'[t].got
        BY <1>3, <2>3 DEF ShownAll
      <4>1. /\ <<<<t, a>>, "ref">> \in turn[t].got \/ <<t, a>> \in refs[c]
            /\ a = "default" => <<<<t, a>>, "item">> \in turn[t].got \/ <<t, a>> \in items[c]
        BY <3>1 DEF Waits
      <4>2. ~turn[t].mixed
        OBVIOUS
      <4>3. turn'[t].got = turn[t].got \cup S
        BY <1>3, <4>2
      <4>4. <<t, a>> \in refs[c] => <<<<t, a>>, "ref">> \in S
        BY <3>2 DEF As
      <4>5. <<t, a>> \in items[c] => <<<<t, a>>, "item">> \in S
        BY <3>2 DEF As
      <4> QED BY <4>1, <4>3, <4>4, <4>5
    <3> QED BY <1>3, <3>3 DEF CollectedOf
  <2>4. CASE turn[t].streams /\ turn[t].phase = "echoing"
    <3>1. ShownAll(t)
      BY <2>1, <2>4 DEF CollectedOf
    <3>2. ShownAll(t)'
      BY <1>3, <3>1 DEF ShownAll
    <3> QED BY <1>3, <3>2 DEF CollectedOf
  <2>5. CASE ch # "web" /\ turn[t].phase = "echoing" /\ ~turn[t].streams
    <3>1. ShownAll(t) \/ WebToCome(t)
      BY <2>1, <2>5 DEF CollectedOf
    <3>2. ShownAll(t) => ShownAll(t)'
      BY <1>3 DEF ShownAll
    <3> QED BY <1>3, <2>5, <3>1, <3>2 DEF CollectedOf
  <2>6. CASE ch # "web" /\ turn[t].phase # "echoing"
    BY <1>3, <2>6 DEF CollectedOf
  <2>7. turn[t].streams => turn[t].phase \in {"ended", "echoing"}
    BY <1>1 DEF ShapeOf
  <2> QED BY <2>2, <2>3, <2>4, <2>5, <2>6, <2>7
<1> QED
  BY <1>1, <1>2, <1>3, <1>5, <1>6, <1>7, <1>8, <1>9, StepKeeps
     DEF agentVars, Underway, Running, Processing, ConvInv, StopsAreForTheLiving,
         ConversationsTypeOK

LEMMA OthersTypes ==
  ASSUME NEW ch
  PROVE  /\ Others(ch) \in SUBSET (1..Len(Observers))
         /\ WebObserves /\ ch # "web" => \E i \in Others(ch) : Observers[i] = "web"
  BY DEF Others, WebObserves

LEMMA StreamDoneKeeps ==
  ASSUME ConvInv, NEW t \in Turns, StreamDone(t)
  PROVE  ConvInv'
<1>1. /\ turn[t].phase = "ended" /\ turn[t].streams /\ Send("web", turn[t].conv)
      /\ UNCHANGED agentVars
      /\ turn' = Carry(Echoing(t), t, WebFrame("web", turn[t].conv, {}))
  BY DEF StreamDone, ConvInv, TurnsShape, ShapeOf
<1>2. WebFrame("web", turn[t].conv, {}) \in SUBSET (Result \X {"item", "ref"})
  BY FrameTypes DEF WebFrame
<1>3. Sent(t, WebFrame("web", turn[t].conv, {}))
  BY <1>1, <1>2, EchoingSent, OthersTypes DEF Echoing
<1> QED BY <1>1, <1>3, SentKeeps

LEMMA SendReplyKeeps ==
  ASSUME ConvInv, NEW t \in Turns, SendReply(t)
  PROVE  ConvInv'
<1> DEFINE S == WebFrame(turn[t].source, turn[t].conv, Attached(t))
<1>1. /\ turn[t].phase = "replying" /\ ~turn[t].streams
      /\ Send(turn[t].source, turn[t].conv) /\ UNCHANGED agentVars
      /\ turn' = Carry(Echoing(t), t, S)
  BY DEF SendReply, ConvInv, TurnsShape, ShapeOf
<1>2. S \in SUBSET (Result \X {"item", "ref"})
  BY FrameTypes DEF WebFrame
<1>3. Sent(t, S) /\ turn'[t].to = Others(turn[t].source)
  BY <1>1, <1>2, EchoingSent, OthersTypes DEF Echoing
<1>4. turn[t].source # "web" /\ WebObserves => WebToCome(t)'
  BY <1>3, OthersTypes DEF WebToCome
<1> QED BY <1>1, <1>3, <1>4, SentKeeps

LEMMA EchoKeeps ==
  ASSUME ConvInv, NEW t \in Turns, Echo(t)
  PROVE  ConvInv'
<1> DEFINE i == First(turn[t].to)
           A == IF turn[t].streams THEN {} ELSE Attached(t)
           S == WebFrame(Observers[i], turn[t].conv, A)
           f == [turn EXCEPT ![t].to = @ \ {i}]
<1>1. /\ turn[t].phase = "echoing" /\ Send(Observers[i], turn[t].conv) /\ UNCHANGED agentVars
      /\ turn' = Carry(f, t, S)
  BY DEF Echo
<1>2. /\ turn \in [Turns -> Turn] /\ turn[t] \in Turn
      /\ turn[t].to \ {i} \in SUBSET (1..Len(Observers))
  BY DEF ConvInv, ConversationsTypeOK, Turn
<1>3. f = [turn EXCEPT ![t].phase = "echoing", ![t].to = turn[t].to \ {i}]
  BY <1>1, <1>2 DEF Turn
<1>4. S \in SUBSET (Result \X {"item", "ref"})
  BY FrameTypes DEF WebFrame
<1>x. turn' = Carry([turn EXCEPT ![t].phase = "echoing", ![t].to = turn[t].to \ {i}], t, S)
  BY <1>1, <1>3
<1> HIDE DEF S, f
<1>5. Sent(t, S) /\ turn'[t].to = turn[t].to \ {i}
  BY <1>x, <1>2, <1>4, EchoingSent
<1>6. Observers[i] # "web" /\ WebToCome(t) => WebToCome(t)'
  BY <1>5 DEF WebToCome
<1> QED BY <1>1, <1>5, <1>6, SentKeeps DEF S

LEMMA FinishKeeps ==
  ASSUME ConvInv, NEW t \in Turns, Finish(t) \/ ReportError(t)
  PROVE  ConvInv'
<1>1. /\ turn \in [Turns -> Turn] /\ turn[t] \in Turn /\ turn[t].conv \in Convs /\ ShapeOf(t)
  BY FrameTypes DEF ConvInv, ConversationsTypeOK, TurnsShape
<1>2. /\ turn' \in [Turns -> Turn] /\ \A u \in Turns : u # t => turn'[u] = turn[u]
      /\ turn'[t].conv = turn[t].conv /\ turn'[t].mixed = turn[t].mixed
      /\ turn'[t].ran = turn[t].ran /\ turn'[t].got = turn[t].got
      /\ turn'[t].loose = turn[t].loose /\ turn'[t].streams = turn[t].streams
      /\ ~turn'[t].shared
      /\ UNCHANGED pendingVars
      /\ \/ /\ turn[t].phase = "echoing" /\ turn'[t].phase = "done" /\ turn[t].to = {} /\ Clear(t)
         \/ turn[t].phase = "failing" /\ turn'[t].phase = "failed" /\ UNCHANGED agentVars
  BY <1>1 DEF Finish, ReportError, Settle, Turn, Phase
<1>3. Steps(t) /\ QueuesShrink(turn[t].conv)
  BY <1>1, <1>2 DEF Steps, QueuesShrink, ConvInv, ConversationsTypeOK, pendingVars
<1>4. ShapeOf(t)' /\ (TakesOut(t) => TakesOut(t)')
  BY <1>1, <1>2 DEF ShapeOf, TakesOut, WebToCome
<1>5. ~turn[t].mixed => ShownOf(t)'
  BY <1>2 DEF ConvInv, Shown, ShownOf, OwnSet
<1>6. ~turn[t].mixed /\ WebObserves => CollectedOf(t)'
  BY <1>2 DEF ConvInv, Collected, CollectedOf, ShownAll, WebToCome
<1>7. stopped' \subseteq active' /\ active' \subseteq Convs /\ active' \subseteq active
  BY <1>2 DEF agentVars, Clear, ConvInv, StopsAreForTheLiving, ConversationsTypeOK
<1>8. \A c \in active' : c # turn[t].conv \/ ~Running(t)
  BY <1>2 DEF agentVars, Clear, Running, Processing
<1>9. /\ ~Underway(t)' /\ turn'[t].phase # "streaming"
      /\ \A c \in stopped \ stopped' : c = turn[t].conv /\ Underway(t)
  BY <1>2 DEF agentVars, Clear, Underway
<1> QED
  BY <1>1, <1>2, <1>3, <1>4, <1>5, <1>6, <1>7, <1>8, <1>9, StepKeeps

-----------------------------------------------------------------------------
(* Steps that several turns notice                                         *)

\* What an unmixed turn knows of its queues stays, if neither changes.
LEMMA UnmixedKeeps ==
  ASSUME ConvInv, NEW u \in Turns, ~turn[u].mixed,
         turn'[u].phase = turn[u].phase, turn'[u].conv = turn[u].conv,
         turn'[u].ran = turn[u].ran, turn'[u].got = turn[u].got,
         turn'[u].streams = turn[u].streams, turn'[u].to = turn[u].to,
         \/ turn[u].phase = "idle"
         \/ /\ items'[turn[u].conv] = items[turn[u].conv]
            /\ refs'[turn[u].conv] = refs[turn[u].conv]
            /\ subRefs'[turn[u].conv] = subRefs[turn[u].conv]
  PROVE  /\ Underway(u)' =>
              items'[turn'[u].conv] \cup refs'[turn'[u].conv] \cup subRefs'[turn'[u].conv]
                \subseteq OwnSet(u)'
         /\ ShownOf(u)'
         /\ WebObserves => CollectedOf(u)'
<1>1. ShownOf(u)'
  BY DEF ConvInv, Shown, ShownOf, OwnSet
<1>2. CASE turn[u].phase = "idle"
  BY <1>1, <1>2 DEF Underway, CollectedOf
<1>3. CASE turn[u].phase # "idle"
  <2>1. Underway(u)' =>
          items'[turn'[u].conv] \cup refs'[turn'[u].conv] \cup subRefs'[turn'[u].conv]
            \subseteq OwnSet(u)'
    BY <1>3 DEF ConvInv, OwnQueues, OwnSet, Underway
  <2>2. WebObserves => CollectedOf(u)'
    BY <1>3 DEF ConvInv, Collected, CollectedOf, Waits, ShownAll, WebToCome
  <2> QED BY <1>1, <2>1, <2>2
<1> QED BY <1>2, <1>3

\* Turns go on as they were; those that are not mixed afterwards see nothing.
LEMMA MixingKeeps ==
  ASSUME ConvInv, turn' \in [Turns -> Turn],
         \A u \in Turns : ~turn'[u].mixed =>
           /\ ~turn[u].mixed
           /\ turn'[u].phase = turn[u].phase /\ turn'[u].conv = turn[u].conv
           /\ turn'[u].ran = turn[u].ran /\ turn'[u].got = turn[u].got
           /\ turn'[u].streams = turn[u].streams /\ turn'[u].to = turn[u].to
           /\ \/ turn[u].phase = "idle"
              \/ /\ items'[turn[u].conv] = items[turn[u].conv]
                 /\ refs'[turn[u].conv] = refs[turn[u].conv]
                 /\ subRefs'[turn[u].conv] = subRefs[turn[u].conv]
  PROVE  OwnQueues' /\ Shown' /\ Collected'
<1>1. ASSUME NEW u \in Turns, ~turn'[u].mixed
      PROVE  /\ Underway(u)' =>
                  items'[turn'[u].conv] \cup refs'[turn'[u].conv] \cup subRefs'[turn'[u].conv]
                    \subseteq OwnSet(u)'
             /\ ShownOf(u)'
             /\ WebObserves => CollectedOf(u)'
  BY <1>1, UnmixedKeeps
<1> QED BY <1>1 DEF OwnQueues, Shown, Collected, WebObserves

\* A result comes in while its turn waits for it.
LEMMA ResultKeeps ==
  ASSUME ConvInv, NEW t \in Turns, NEW agent \in Agents, ToolResult(t, agent), ~turn[t].loose
  PROVE  ConvInv'
<1> DEFINE c == turn[t].conv
           x == <<t, agent>>
<1>1. /\ turn \in [Turns -> Turn] /\ turn[t] \in Turn /\ c \in Convs /\ ShapeOf(t)
      /\ x \in Result
  BY FrameTypes DEF ConvInv, ConversationsTypeOK, TurnsShape, Result
<1>2. /\ turn[t].phase \in {"streaming", "invoking"} /\ agent \notin turn[t].ran
      /\ Underway(t) /\ UNCHANGED agentVars
  BY DEF ToolResult, Underway
<1>3. /\ turn' \in [Turns -> Turn] /\ \A u \in Turns : u # t => turn'[u] = turn[u]
      /\ turn'[t].conv = c /\ turn'[t].streams = turn[t].streams
      /\ turn'[t].phase = turn[t].phase /\ turn'[t].got = turn[t].got
      /\ turn'[t].loose = turn[t].loose /\ turn'[t].to = turn[t].to
      /\ turn'[t].told = turn[t].told /\ turn'[t].shared = turn[t].shared
      /\ turn'[t].mixed = turn[t].mixed
      /\ turn'[t].ran = turn[t].ran \cup {agent}
  BY <1>1 DEF ToolResult, Turn
<1>4. /\ items' \in [Convs -> SUBSET Result] /\ refs' \in [Convs -> SUBSET Result]
      /\ subRefs' \in [Convs -> SUBSET (Turns \X {"helper"})]
      /\ \A d \in Convs : d # c => /\ items'[d] = items[d] /\ refs'[d] = refs[d]
                                  /\ subRefs'[d] = subRefs[d]
      /\ items'[c] \subseteq items[c] \cup {x} /\ refs'[c] \subseteq refs[c] \cup {x}
      /\ subRefs'[c] \subseteq subRefs[c] \cup {x}
      /\ items[c] \subseteq items'[c] /\ refs[c] \subseteq refs'[c]
      /\ agent # "default" => items'[c] = items[c]
      /\ WebObserves => x \in refs'[c] /\ (agent = "default" => x \in items'[c])
      /\ ~WebObserves => items'[c] = items[c] /\ refs'[c] = refs[c]
  <2>1. CASE WebObserves
    <3>1. WebQueue(c, x)
      BY <2>1 DEF ToolResult
    <3>2. agent # "default" => x \in Turns \X {"helper"}
      BY DEF Agents
    <3>3. x[2] = agent
      OBVIOUS
    <3> HIDE DEF x, c
    <3> QED BY <1>1, <2>1, <3>1, <3>2, <3>3 DEF WebQueue, ConvInv, ConversationsTypeOK
  <2>2. CASE ~WebObserves
    BY <1>1, <2>2 DEF ToolResult, pendingVars, ConvInv, ConversationsTypeOK
  <2> QED BY <2>1, <2>2
<1>5. Steps(t)
  BY <1>2, <1>3 DEF Steps
<1>6. ConversationsTypeOK'
  BY <1>2, <1>3, <1>4 DEF agentVars, ConvInv, ConversationsTypeOK
<1>7. TurnsShape'
  BY <1>2, <1>3 DEF ConvInv, TurnsShape, ShapeOf
<1>8. Together' /\ ToldIsStopped' /\ StopsAreForTheLiving'
  <2>1. Running(t) => Running(t)'
    BY <1>3 DEF Running
  <2>2. Together'
    BY <1>2, <1>3, <1>5, TogetherStep
  <2>3. ToldIsStopped'
    BY <1>2, <1>3, <1>5, ToldStep DEF agentVars
  <2>4. StopsAreForTheLiving'
    BY <1>2, <1>5, <2>1, LivingStep DEF agentVars, ConvInv, StopsAreForTheLiving
  <2> QED BY <2>2, <2>3, <2>4
<1>9. QueuesFollow'
  <2> SUFFICES ASSUME NEW d \in Convs
               PROVE  /\ \A y \in items'[d] : y[2] = "default"
                      /\ \A y \in items'[d] \cup refs'[d] :
                           WebObserves /\ turn'[y[1]].conv = d /\ TakesOut(y[1])'
    BY DEF QueuesFollow, WebObserves
  <2>1. /\ \A y \in items'[d] : y \in items[d] \/ (y = x /\ agent = "default")
        /\ \A y \in items'[d] \cup refs'[d] :
             y \in items[d] \cup refs[d] \/ (y = x /\ d = c /\ WebObserves)
    BY <1>4
  <2>2. \A y \in items'[d] : y[2] = "default"
    BY <2>1 DEF ConvInv, QueuesFollow
  <2>3. ASSUME NEW y \in items[d] \cup refs[d]
        PROVE  WebObserves /\ turn'[y[1]].conv = d /\ TakesOut(y[1])'
    <3>1. WebObserves /\ turn[y[1]].conv = d /\ TakesOut(y[1])
      BY DEF ConvInv, QueuesFollow
    <3>2. y[1] \in Turns
      BY DEF ConvInv, ConversationsTypeOK, Result
    <3> QED BY <1>3, <3>1, <3>2 DEF TakesOut, WebToCome
  <2>4. x[1] = t /\ turn'[t].conv = c /\ TakesOut(t)'
    BY <1>2, <1>3 DEF TakesOut
  <2> HIDE DEF x, c
  <2> QED BY <2>1, <2>2, <2>3, <2>4
<1>10. OwnQueues'
  <2> SUFFICES ASSUME NEW u \in Turns, Underway(u)', ~turn'[u].mixed
               PROVE  items'[turn'[u].conv] \cup refs'[turn'[u].conv] \cup subRefs'[turn'[u].conv]
                        \subseteq OwnSet(u)'
    BY DEF OwnQueues
  <2>1. Underway(u) /\ ~turn[u].mixed /\ turn'[u].conv = turn[u].conv /\ turn[u].conv \in Convs
    BY <1>1, <1>3 DEF Underway, ConvInv, ConversationsTypeOK, Turn
  <2>2. items[turn[u].conv] \cup refs[turn[u].conv] \cup subRefs[turn[u].conv] \subseteq OwnSet(u)
    BY <2>1 DEF ConvInv, OwnQueues
  <2>3. CASE u = t
    <3>1. OwnSet(u) \subseteq OwnSet(u)' /\ x \in OwnSet(u)'
      BY <1>3, <2>3 DEF OwnSet
    <3> QED BY <1>4, <2>1, <2>2, <2>3, <3>1
  <2>4. CASE u # t
    <3>1. turn[u].conv # c
      BY <1>2, <2>1, <2>4 DEF ConvInv, Together, TurnsShape, ShapeOf
    <3>2. OwnSet(u)' = OwnSet(u)
      BY <1>3, <2>4 DEF OwnSet
    <3> QED BY <1>4, <2>1, <2>2, <3>1, <3>2
  <2> QED BY <2>3, <2>4
<1>11. Shown'
  <2>1. OwnSet(t) \subseteq OwnSet(t)'
    BY <1>3 DEF OwnSet
  <2>2. ~turn'[t].mixed => ShownOf(t)'
    BY <1>3, <2>1 DEF ConvInv, Shown, ShownOf, As
  <2> QED BY <1>5, <2>2, ShownStep
<1>12. Collected'
  <2>1. ASSUME ~turn[t].mixed, WebObserves PROVE CollectedOf(t)'
    <3>1. CASE turn[t].phase = "streaming"
      <4>1. Waits(t)
        BY <2>1, <3>1 DEF ConvInv, Collected, CollectedOf
      <4>2. Waits(t)'
        BY <1>3, <1>4, <2>1, <4>1 DEF Waits
      <4> QED BY <1>3, <3>1, <4>2 DEF CollectedOf
    <3>2. CASE turn[t].phase = "invoking"
      BY <1>3, <3>2 DEF CollectedOf
    <3> QED BY <1>2, <3>1, <3>2
  <2> QED BY <1>2, <1>4, <1>5, <2>1, CollectedStep
<1> QED BY <1>6, <1>7, <1>8, <1>9, <1>10, <1>11, <1>12 DEF ConvInv

\* What a mixing leaves of the turns.
LEMMA MixIs ==
  ASSUME NEW f \in [Turns -> Turn], NEW c
  PROVE  /\ Mix(f, c) \in [Turns -> Turn]
         /\ \A u \in Turns :
              /\ Mix(f, c)[u].phase = f[u].phase /\ Mix(f, c)[u].conv = f[u].conv
              /\ Mix(f, c)[u].to = f[u].to /\ Mix(f, c)[u].streams = f[u].streams
              /\ Mix(f, c)[u].ran = f[u].ran /\ Mix(f, c)[u].loose = f[u].loose
              /\ Mix(f, c)[u].told = f[u].told /\ Mix(f, c)[u].shared = f[u].shared
              /\ f[u].phase # "idle" /\ f[u].conv = c => Mix(f, c)[u].mixed
              /\ f[u].phase = "idle" \/ f[u].conv # c => Mix(f, c)[u] = f[u]
              /\ ~Mix(f, c)[u].mixed => Mix(f, c)[u] = f[u]
              /\ Mix(f, c)[u].got \in {f[u].got, {}}
<1>1. \A u \in Turns : f[u] \in Turn
  OBVIOUS
<1>2. ASSUME NEW u \in Turns
      PROVE  [f[u] EXCEPT !.mixed = TRUE, !.got = {}] \in Turn
  BY <1>1, ZenonT(60) DEF Turn
<1>3. Mix(f, c) \in [Turns -> Turn]
  BY <1>1, <1>2 DEF Mix
<1>4. ASSUME NEW u \in Turns, NEW g \in {[f[u] EXCEPT !.mixed = TRUE, !.got = {}]}
      PROVE  /\ g.phase = f[u].phase /\ g.conv = f[u].conv
             /\ g.to = f[u].to /\ g.streams = f[u].streams
             /\ g.ran = f[u].ran /\ g.loose = f[u].loose
             /\ g.told = f[u].told /\ g.shared = f[u].shared
             /\ g.mixed /\ g.got = {}
  BY <1>1 DEF Turn
<1>5. \A u \in Turns : Mix(f, c)[u] = IF f[u].phase # "idle" /\ f[u].conv = c
                                        THEN [f[u] EXCEPT !.mixed = TRUE, !.got = {}] ELSE f[u]
  BY DEF Mix
<1> QED BY <1>3, <1>4, <1>5, ZenonT(60)

\* A result of a run that was left comes in: its queues are nobody's own.
LEMMA LateResultKeeps ==
  ASSUME ConvInv, NEW t \in Turns, NEW agent \in Agents, ToolResult(t, agent), turn[t].loose
  PROVE  ConvInv'
<1> DEFINE c == turn[t].conv
           x == <<t, agent>>
           m == Mix(turn, c)
<1>1. /\ turn \in [Turns -> Turn] /\ turn[t] \in Turn /\ c \in Convs /\ ShapeOf(t)
      /\ x \in Result
  BY FrameTypes DEF ConvInv, ConversationsTypeOK, TurnsShape, Result
<1>2. /\ agent \notin turn[t].ran /\ UNCHANGED agentVars
      /\ turn[t].phase \notin {"idle", "mirroring"}
      /\ turn' = [m EXCEPT ![t].ran = @ \cup {agent}]
  BY <1>1 DEF ToolResult, ShapeOf
<1>3. /\ m \in [Turns -> Turn]
      /\ \A u \in Turns :
           /\ m[u].phase = turn[u].phase /\ m[u].conv = turn[u].conv
           /\ m[u].to = turn[u].to /\ m[u].streams = turn[u].streams
           /\ m[u].ran = turn[u].ran /\ m[u].loose = turn[u].loose
           /\ m[u].told = turn[u].told /\ m[u].shared = turn[u].shared
           /\ turn[u].phase # "idle" /\ turn[u].conv = c => m[u].mixed
           /\ turn[u].phase = "idle" \/ turn[u].conv # c => m[u] = turn[u]
           /\ ~m[u].mixed => m[u] = turn[u]
           /\ m[u].got \in {turn[u].got, {}}
  BY <1>1, MixIs
<1> HIDE DEF m
<1>4. /\ turn' \in [Turns -> Turn]
      /\ \A u \in Turns : u # t => turn'[u] = m[u]
      /\ turn'[t].phase = m[t].phase /\ turn'[t].conv = m[t].conv
      /\ turn'[t].to = m[t].to /\ turn'[t].streams = m[t].streams
      /\ turn'[t].loose = m[t].loose /\ turn'[t].got = m[t].got
      /\ turn'[t].told = m[t].told /\ turn'[t].shared = m[t].shared
      /\ turn'[t].mixed = m[t].mixed
      /\ turn'[t].ran = m[t].ran \cup {agent}
  BY <1>2, <1>3 DEF Turn
<1>5. \A u \in Turns :
        /\ turn'[u].phase = turn[u].phase /\ turn'[u].conv = turn[u].conv
        /\ turn'[u].to = turn[u].to /\ turn'[u].streams = turn[u].streams
        /\ turn'[u].loose = turn[u].loose
        /\ turn'[u].told = turn[u].told /\ turn'[u].shared = turn[u].shared
        /\ u # t => turn'[u].ran = turn[u].ran
        /\ turn[u].phase # "idle" /\ turn[u].conv = c => turn'[u].mixed
        /\ turn[u].mixed => turn'[u].mixed
        /\ turn[u].phase = "idle" => turn'[u] = turn[u]
        /\ ~turn'[u].mixed => u # t /\ turn'[u] = turn[u]
  BY <1>2, <1>3, <1>4
<1>6. /\ items' \in [Convs -> SUBSET Result] /\ refs' \in [Convs -> SUBSET Result]
      /\ subRefs' \in [Convs -> SUBSET (Turns \X {"helper"})]
      /\ \A d \in Convs : d # c => /\ items'[d] = items[d] /\ refs'[d] = refs[d]
                                  /\ subRefs'[d] = subRefs[d]
      /\ items'[c] \subseteq items[c] \cup {x} /\ refs'[c] \subseteq refs[c] \cup {x}
      /\ agent # "default" => items'[c] = items[c]
      /\ ~WebObserves => items'[c] = items[c] /\ refs'[c] = refs[c]
  <2>1. CASE WebObserves
    <3>1. WebQueue(c, x)
      BY <2>1 DEF ToolResult
    <3>2. agent # "default" => x \in Turns \X {"helper"}
      BY DEF Agents
    <3>3. x[2] = agent
      OBVIOUS
    <3> HIDE DEF x, c
    <3> QED BY <1>1, <2>1, <3>1, <3>2, <3>3 DEF WebQueue, ConvInv, ConversationsTypeOK
  <2>2. CASE ~WebObserves
    BY <1>1, <2>2 DEF ToolResult, pendingVars, ConvInv, ConversationsTypeOK
  <2> QED BY <2>1, <2>2
<1>7. ConversationsTypeOK'
  BY <1>2, <1>4, <1>6 DEF agentVars, ConvInv, ConversationsTypeOK
<1>8. TurnsShape'
  <2> SUFFICES ASSUME NEW u \in Turns PROVE ShapeOf(u)'
    BY DEF TurnsShape
  <2>1. ShapeOf(u)
    BY DEF ConvInv, TurnsShape
  <2> QED BY <1>2, <1>5, <2>1 DEF ShapeOf
<1>9. Together' /\ ToldIsStopped'
  BY <1>2, <1>5 DEF agentVars, ConvInv, Together, ToldIsStopped, Underway
<1>10. StopsAreForTheLiving'
  <2>1. \A d : TurnsOf(d)' = TurnsOf(d)
    BY <1>5 DEF TurnsOf
  <2>2. \A u \in Turns : Running(u)' = Running(u)
    BY <1>5 DEF Running
  <2>3. \A d : TurnsOf(d) \subseteq Turns
    BY DEF TurnsOf
  <2> QED BY <1>2, <2>1, <2>2, <2>3 DEF agentVars, ConvInv, StopsAreForTheLiving
<1>11. QueuesFollow'
  <2> SUFFICES ASSUME NEW d \in Convs
               PROVE  /\ \A y \in items'[d] : y[2] = "default"
                      /\ \A y \in items'[d] \cup refs'[d] :
                           WebObserves /\ turn'[y[1]].conv = d /\ TakesOut(y[1])'
    BY DEF QueuesFollow, WebObserves
  <2>1. /\ \A y \in items'[d] : y \in items[d] \/ (y = x /\ agent = "default")
        /\ \A y \in items'[d] \cup refs'[d] :
             y \in items[d] \cup refs[d] \/ (y = x /\ d = c /\ WebObserves)
    BY <1>6
  <2>2. \A y \in items'[d] : y[2] = "default"
    BY <2>1 DEF ConvInv, QueuesFollow
  <2>3. ASSUME NEW y \in items[d] \cup refs[d]
        PROVE  WebObserves /\ turn'[y[1]].conv = d /\ TakesOut(y[1])'
    <3>1. WebObserves /\ turn[y[1]].conv = d /\ TakesOut(y[1])
      BY DEF ConvInv, QueuesFollow
    <3>2. y[1] \in Turns
      BY DEF ConvInv, ConversationsTypeOK, Result
    <3> QED BY <1>5, <3>1, <3>2 DEF TakesOut, WebToCome
  <2>4. x[1] = t /\ turn'[t].conv = c /\ TakesOut(t)'
    BY <1>2, <1>5 DEF TakesOut
  <2> HIDE DEF x, c
  <2> QED BY <2>1, <2>2, <2>3, <2>4
<1>12. OwnQueues' /\ Shown' /\ Collected'
  <2>1. ASSUME NEW u \in Turns, ~turn'[u].mixed
        PROVE  /\ ~turn[u].mixed
               /\ turn'[u] = turn[u]
               /\ \/ turn[u].phase = "idle"
                  \/ /\ items'[turn[u].conv] = items[turn[u].conv]
                     /\ refs'[turn[u].conv] = refs[turn[u].conv]
                     /\ subRefs'[turn[u].conv] = subRefs[turn[u].conv]
    <3>1. turn[u].conv \in Convs
      BY FrameTypes
    <3> QED BY <1>5, <1>6, <2>1, <3>1
  <2> QED BY <1>4, <2>1, MixingKeeps
<1> QED BY <1>7, <1>8, <1>9, <1>10, <1>11, <1>12 DEF ConvInv

LEMMA StopKeeps ==
  ASSUME ConvInv, NEW c \in Convs, NEW ch \in Sources, StopCommand(c, ch)
  PROVE  ConvInv'
<1> DEFINE seen == IF ch = "web" THEN Mix(turn, c) ELSE turn
           Told(u) == c \in active /\ turn[u].phase = "streaming" /\ turn[u].conv = c
<1>1. /\ turn \in [Turns -> Turn] /\ ConversationsTypeOK
      /\ stopped' = IF c \in active THEN stopped \cup {c} ELSE stopped
      /\ active' = active /\ Send(ch, c)
      /\ turn' = [u \in Turns |-> IF Told(u) THEN [seen[u] EXCEPT !.told = TRUE] ELSE seen[u]]
  BY DEF ConvInv, ConversationsTypeOK, StopCommand
<1>2. /\ seen \in [Turns -> Turn]
      /\ \A u \in Turns :
           /\ seen[u].phase = turn[u].phase /\ seen[u].conv = turn[u].conv
           /\ seen[u].to = turn[u].to /\ seen[u].streams = turn[u].streams
           /\ seen[u].ran = turn[u].ran /\ seen[u].loose = turn[u].loose
           /\ seen[u].told = turn[u].told /\ seen[u].shared = turn[u].shared
           /\ ch = "web" /\ turn[u].phase # "idle" /\ turn[u].conv = c => seen[u].mixed
           /\ turn[u].phase = "idle" => seen[u] = turn[u]
           /\ ~seen[u].mixed => seen[u] = turn[u]
           /\ turn[u].mixed => seen[u].mixed
  <2>1. CASE ch = "web"
    BY <1>1, <2>1, MixIs
  <2>2. CASE ch # "web"
    BY <1>1, <2>2
  <2> QED BY <2>1, <2>2
<1> HIDE DEF seen
<1>3. ASSUME NEW u \in Turns, NEW g \in {[seen[u] EXCEPT !.told = TRUE]}
      PROVE  /\ g \in Turn
             /\ g.phase = seen[u].phase /\ g.conv = seen[u].conv
             /\ g.to = seen[u].to /\ g.streams = seen[u].streams
             /\ g.ran = seen[u].ran /\ g.loose = seen[u].loose
             /\ g.shared = seen[u].shared /\ g.mixed = seen[u].mixed /\ g.got = seen[u].got
  <2>1. seen[u] \in Turn
    BY <1>2
  <2> QED BY <2>1 DEF Turn
<1>4. /\ turn' \in [Turns -> Turn]
      /\ \A u \in Turns :
           /\ turn'[u].phase = turn[u].phase /\ turn'[u].conv = turn[u].conv
           /\ turn'[u].to = turn[u].to /\ turn'[u].streams = turn[u].streams
           /\ turn'[u].ran = turn[u].ran /\ turn'[u].loose = turn[u].loose
           /\ turn'[u].shared = turn[u].shared
           /\ ~Told(u) => turn'[u].told = turn[u].told
           /\ ch = "web" /\ turn[u].phase # "idle" /\ turn[u].conv = c => turn'[u].mixed
           /\ turn[u].phase = "idle" => turn'[u] = turn[u]
           /\ ~turn'[u].mixed => ~turn[u].mixed /\ turn'[u].got = turn[u].got
           /\ turn[u].mixed => turn'[u].mixed
  <2>1. \A u \in Turns : turn'[u] = IF Told(u) THEN [seen[u] EXCEPT !.told = TRUE] ELSE seen[u]
    BY <1>1
  <2>2. turn' \in [Turns -> Turn]
    BY <1>1, <1>2, <1>3
  <2> HIDE DEF Told
  <2>3. ASSUME NEW u \in Turns
        PROVE  /\ turn'[u].phase = turn[u].phase /\ turn'[u].conv = turn[u].conv
               /\ turn'[u].to = turn[u].to /\ turn'[u].streams = turn[u].streams
               /\ turn'[u].ran = turn[u].ran /\ turn'[u].loose = turn[u].loose
               /\ turn'[u].shared = turn[u].shared
               /\ ~Told(u) => turn'[u].told = turn[u].told
               /\ ch = "web" /\ turn[u].phase # "idle" /\ turn[u].conv = c => turn'[u].mixed
               /\ ~turn'[u].mixed => ~turn[u].mixed /\ turn'[u].got = turn[u].got
               /\ turn[u].mixed => turn'[u].mixed
    <3>1. CASE Told(u)
      <4>1. turn'[u] \in {[seen[u] EXCEPT !.told = TRUE]}
        BY <2>1, <3>1
      <4>2. /\ turn'[u].phase = seen[u].phase /\ turn'[u].conv = seen[u].conv
            /\ turn'[u].to = seen[u].to /\ turn'[u].streams = seen[u].streams
            /\ turn'[u].ran = seen[u].ran /\ turn'[u].loose = seen[u].loose
            /\ turn'[u].shared = seen[u].shared /\ turn'[u].mixed = seen[u].mixed
            /\ turn'[u].got = seen[u].got
        BY <1>3, <4>1
      <4> QED BY <1>2, <3>1, <4>2
    <3>2. CASE ~Told(u)
      BY <1>2, <2>1, <3>2, ZenonT(60)
    <3> QED BY <3>1, <3>2
  <2>4. ASSUME NEW u \in Turns, turn[u].phase = "idle" PROVE turn'[u] = turn[u]
    BY <1>2, <2>1, <2>4 DEF Told
  <2> QED BY <2>2, <2>3, <2>4
<1>5. /\ QueuesShrink(c)
      /\ ch # "web" => UNCHANGED pendingVars
  BY <1>1, SendIs
<1>6. ConversationsTypeOK'
  BY <1>1, <1>4, <1>5 DEF ConversationsTypeOK, QueuesShrink
<1>7. TurnsShape'
  <2> SUFFICES ASSUME NEW u \in Turns PROVE ShapeOf(u)'
    BY DEF TurnsShape
  <2>1. ShapeOf(u)
    BY DEF ConvInv, TurnsShape
  <2> QED BY <1>4, <2>1 DEF ShapeOf
<1>8. Together'
  BY <1>4 DEF ConvInv, Together, Underway
<1>9. ToldIsStopped'
  <2> SUFFICES ASSUME NEW u \in Turns,
                      turn'[u].phase = "streaming", turn'[u].told, ~turn'[u].shared
               PROVE  turn'[u].conv \in stopped'
    BY DEF ToldIsStopped
  <2>1. turn[u].conv \in stopped \/ Told(u)
    BY <1>4 DEF ConvInv, ToldIsStopped
  <2>2. stopped' = IF c \in active THEN stopped \cup {c} ELSE stopped
    BY <1>1
  <2>3. turn'[u].conv = turn[u].conv
    BY <1>4
  <2> QED BY <2>1, <2>2, <2>3
<1>10. StopsAreForTheLiving'
  <2>1. \A d : TurnsOf(d)' = TurnsOf(d)
    BY <1>4 DEF TurnsOf
  <2>2. \A u \in Turns : Running(u)' = Running(u)
    BY <1>4 DEF Running
  <2>3. \A d : TurnsOf(d) \subseteq Turns
    BY DEF TurnsOf
  <2> QED BY <1>1, <2>1, <2>2, <2>3 DEF ConvInv, StopsAreForTheLiving
<1>11. QueuesFollow'
  <2> SUFFICES ASSUME NEW d \in Convs
               PROVE  /\ \A y \in items'[d] : y[2] = "default"
                      /\ \A y \in items'[d] \cup refs'[d] :
                           WebObserves /\ turn'[y[1]].conv = d /\ TakesOut(y[1])'
    BY DEF QueuesFollow, WebObserves
  <2>1. items'[d] \subseteq items[d] /\ refs'[d] \subseteq refs[d]
    BY <1>5 DEF QueuesShrink
  <2>2. \A y \in items'[d] : y[2] = "default"
    BY <2>1 DEF ConvInv, QueuesFollow
  <2>3. ASSUME NEW y \in items[d] \cup refs[d]
        PROVE  WebObserves /\ turn'[y[1]].conv = d /\ TakesOut(y[1])'
    <3>1. WebObserves /\ turn[y[1]].conv = d /\ TakesOut(y[1])
      BY DEF ConvInv, QueuesFollow
    <3>2. y[1] \in Turns
      BY DEF ConvInv, ConversationsTypeOK, Result
    <3> QED BY <1>4, <3>1, <3>2 DEF TakesOut, WebToCome
  <2> QED BY <2>1, <2>2, <2>3
<1>12. OwnQueues' /\ Shown' /\ Collected'
  <2>1. ASSUME NEW u \in Turns, ~turn'[u].mixed
        PROVE  /\ ~turn[u].mixed
               /\ turn'[u].phase = turn[u].phase /\ turn'[u].conv = turn[u].conv
               /\ turn'[u].ran = turn[u].ran /\ turn'[u].got = turn[u].got
               /\ turn'[u].streams = turn[u].streams /\ turn'[u].to = turn[u].to
               /\ \/ turn[u].phase = "idle"
                  \/ /\ items'[turn[u].conv] = items[turn[u].conv]
                     /\ refs'[turn[u].conv] = refs[turn[u].conv]
                     /\ subRefs'[turn[u].conv] = subRefs[turn[u].conv]
    <3>1. turn[u].conv \in Convs
      BY FrameTypes
    <3>2. ch = "web" => turn[u].phase = "idle" \/ turn[u].conv # c
      BY <1>4, <2>1
    <3> QED BY <1>4, <1>5, <2>1, <3>1, <3>2 DEF QueuesShrink, pendingVars
  <2> QED BY <1>4, <2>1, MixingKeeps
<1> QED BY <1>6, <1>7, <1>8, <1>9, <1>10, <1>11, <1>12 DEF ConvInv

\* What a sharing leaves of the turns.
LEMMA ShareIs ==
  ASSUME turn \in [Turns -> Turn], NEW c
  PROVE  /\ Share(turn, c) \in [Turns -> Turn]
         /\ \A u \in Turns :
              LET g == Share(turn, c)[u] IN
              /\ g.phase = turn[u].phase /\ g.conv = turn[u].conv
              /\ g.to = turn[u].to /\ g.streams = turn[u].streams
              /\ g.ran = turn[u].ran /\ g.loose = turn[u].loose /\ g.told = turn[u].told
              /\ turn[u].shared => g.shared
              /\ g.shared => g.mixed \/ ~turn[u].mixed \/ g = turn[u]
              /\ Underway(u) /\ turn[u].conv = c => g.shared /\ g.mixed
              /\ ~(Underway(u) /\ turn[u].conv = c) => g = turn[u]
<1>1. \A u \in Turns : turn[u] \in Turn
  OBVIOUS
<1>2. ASSUME NEW u \in Turns,
             NEW g \in {[turn[u] EXCEPT !.shared = TRUE, !.mixed = TRUE, !.got = {}]}
      PROVE  /\ g \in Turn /\ g.phase = turn[u].phase /\ g.conv = turn[u].conv
             /\ g.to = turn[u].to /\ g.streams = turn[u].streams
             /\ g.ran = turn[u].ran /\ g.loose = turn[u].loose /\ g.told = turn[u].told
             /\ g.shared /\ g.mixed
  BY <1>1 DEF Turn
<1>3. \A u \in Turns : Share(turn, c)[u] =
        IF Underway(u) /\ turn[u].conv = c
          THEN [turn[u] EXCEPT !.shared = TRUE, !.mixed = TRUE, !.got = {}] ELSE turn[u]
  BY DEF Share
<1>4. Share(turn, c) \in [Turns -> Turn]
  BY <1>1, <1>2 DEF Share
<1> QED BY <1>2, <1>3, <1>4

\* A turn begins: with those underway it shares its conversation's queues.
LEMMA DispatchKeeps ==
  ASSUME ConvInv, NEW t \in Turns, NEW c \in Convs, NEW source \in Sources, Dispatch(t, c, source)
  PROVE  ConvInv'
<1> DEFINE s == Share(turn, c)
           busy == \E u \in TurnsOf(c) : Underway(u)
           clean == items[c] = {} /\ refs[c] = {} /\ subRefs[c] = {}
           mixed == busy \/ ~clean
<1>1. /\ turn \in [Turns -> Turn] /\ ConversationsTypeOK /\ ShapeOf(t)
      /\ turn[t].phase = "idle" /\ ~Underway(t)
      /\ turn' = [s EXCEPT ![t] =
                    [@ EXCEPT !.phase = "mirroring", !.conv = c, !.source = source,
                              !.to = Others(source),
                              !.shared = busy, !.mixed = mixed]]
      /\ UNCHANGED <<agentVars, pendingVars>>
  BY DEF ConvInv, ConversationsTypeOK, TurnsShape, Dispatch, Underway
<1>2. /\ s \in [Turns -> Turn]
      /\ \A u \in Turns :
           /\ s[u].phase = turn[u].phase /\ s[u].conv = turn[u].conv
           /\ s[u].to = turn[u].to /\ s[u].streams = turn[u].streams
           /\ s[u].ran = turn[u].ran /\ s[u].loose = turn[u].loose /\ s[u].told = turn[u].told
           /\ turn[u].shared => s[u].shared
           /\ Underway(u) /\ turn[u].conv = c => s[u].shared /\ s[u].mixed
           /\ ~(Underway(u) /\ turn[u].conv = c) => s[u] = turn[u]
  BY <1>1, ShareIs
<1>3. busy \in BOOLEAN /\ mixed \in BOOLEAN
  OBVIOUS
<1>4. busy <=> \E u \in Turns : Underway(u) /\ turn[u].conv = c
  BY DEF TurnsOf, Underway
<1> HIDE DEF s, busy, mixed
<1>5. /\ turn' \in [Turns -> Turn] /\ \A u \in Turns : u # t => turn'[u] = s[u]
      /\ turn'[t].phase = "mirroring" /\ turn'[t].conv = c
      /\ turn'[t].streams = turn[t].streams /\ turn'[t].ran = turn[t].ran
      /\ turn'[t].loose = turn[t].loose /\ turn'[t].told = turn[t].told
      /\ turn'[t].got = turn[t].got
      /\ turn'[t].shared = busy /\ turn'[t].mixed = mixed
  <2>1. s[t] = turn[t] /\ turn[t] \in Turn /\ Others(source) \in SUBSET (1..Len(Observers))
    BY <1>1, <1>2 DEF Others
  <2>2. ASSUME NEW g \in {[turn[t] EXCEPT !.phase = "mirroring", !.conv = c, !.source = source,
                                          !.to = Others(source),
                                          !.shared = busy, !.mixed = mixed]}
        PROVE  /\ g \in Turn /\ g.phase = "mirroring" /\ g.conv = c
               /\ g.streams = turn[t].streams /\ g.ran = turn[t].ran
               /\ g.loose = turn[t].loose /\ g.told = turn[t].told /\ g.got = turn[t].got
               /\ g.shared = busy /\ g.mixed = mixed
    <3>1. PICK to \in SUBSET (1..Len(Observers)) : to = Others(source)
      BY <2>1
    <3>2. PICK b \in BOOLEAN : b = busy
      BY <1>3
    <3>3. PICK m \in BOOLEAN : m = mixed
      BY <1>3
    <3>4. g \in {[turn[t] EXCEPT !.phase = "mirroring", !.conv = c, !.source = source,
                                 !.to = to, !.shared = b, !.mixed = m]}
      BY <3>1, <3>2, <3>3
    <3>5. /\ g \in Turn /\ g.phase = "mirroring" /\ g.conv = c
          /\ g.streams = turn[t].streams /\ g.ran = turn[t].ran
          /\ g.loose = turn[t].loose /\ g.told = turn[t].told /\ g.got = turn[t].got
          /\ g.shared = b /\ g.mixed = m
      <4>1. g \in Turn
        BY <2>1, <3>4, ZenonT(60) DEF Turn, Phase
      <4>2. /\ g.phase = "mirroring" /\ g.conv = c
            /\ g.streams = turn[t].streams /\ g.ran = turn[t].ran
            /\ g.loose = turn[t].loose /\ g.told = turn[t].told /\ g.got = turn[t].got
        BY <2>1, <3>4 DEF Turn
      <4>3. g.shared = b
        BY <2>1, <3>4 DEF Turn
      <4>4. g.mixed = m
        BY Zenon, <2>1, <3>4 DEF Turn
      <4> QED BY <4>1, <4>2, <4>3, <4>4
    <3> QED BY <3>2, <3>3, <3>5
  <2>3. /\ \A u \in Turns : u # t => turn'[u] = s[u]
        /\ turn'[t] \in {[turn[t] EXCEPT !.phase = "mirroring", !.conv = c, !.source = source,
                                          !.to = Others(source),
                                          !.shared = busy, !.mixed = mixed]}
        /\ turn' = [s EXCEPT ![t] = turn'[t]]
    BY <1>1, <1>2, <2>1
  <2>4. turn' \in [Turns -> Turn]
    BY <1>2, <2>2, <2>3
  <2> QED BY <2>2, <2>3, <2>4
<1>6. \A u \in Turns : u # t => Underway(u)' = Underway(u)
  BY <1>2, <1>5 DEF Underway
<1>7. ConversationsTypeOK'
  BY <1>1, <1>5 DEF ConversationsTypeOK, agentVars, pendingVars
<1>8. TurnsShape'
  <2> SUFFICES ASSUME NEW u \in Turns PROVE ShapeOf(u)'
    BY DEF TurnsShape
  <2>1. ShapeOf(u)
    BY DEF ConvInv, TurnsShape
  <2>2. CASE u = t
    BY <1>1, <1>5, <2>1, <2>2 DEF ShapeOf, mixed
  <2>3. CASE u # t /\ Underway(u) /\ turn[u].conv = c
    BY <1>2, <1>5, <2>1, <2>3 DEF ShapeOf, Underway
  <2>4. CASE u # t /\ ~(Underway(u) /\ turn[u].conv = c)
    BY <1>2, <1>5, <2>1, <2>4 DEF ShapeOf
  <2> QED BY <2>2, <2>3, <2>4
<1>9. Together'
  <2> SUFFICES ASSUME NEW u \in Turns, NEW v \in Turns, u # v, Underway(u)', Underway(v)',
                      turn'[u].conv = turn'[v].conv
               PROVE  turn'[u].shared
    BY DEF Together
  <2>1. CASE u = t
    BY <1>2, <1>4, <1>5, <1>6, <2>1
  <2>2. CASE v = t
    BY <1>2, <1>5, <1>6, <2>2
  <2>3. CASE u # t /\ v # t
    BY <1>2, <1>5, <1>6, <2>3 DEF ConvInv, Together
  <2> QED BY <2>1, <2>2, <2>3
<1>10. ToldIsStopped'
  BY <1>1, <1>2, <1>5 DEF ConvInv, ToldIsStopped, agentVars
<1>11. StopsAreForTheLiving'
  <2> SUFFICES ASSUME NEW d \in active PROVE \E u \in TurnsOf(d)' : Running(u)'
    BY <1>1 DEF StopsAreForTheLiving, ConvInv, agentVars
  <2>1. PICK u \in TurnsOf(d) : Running(u)
    BY DEF ConvInv, StopsAreForTheLiving
  <2>2. u # t /\ u \in Turns
    BY <1>1, <2>1 DEF TurnsOf
  <2> QED BY <1>2, <1>5, <2>1, <2>2 DEF TurnsOf, Running
<1>12. QueuesFollow'
  <2>1. ASSUME NEW d \in Convs, NEW y \in items[d] \cup refs[d]
        PROVE  WebObserves /\ turn'[y[1]].conv = d /\ TakesOut(y[1])'
    <3>1. WebObserves /\ turn[y[1]].conv = d /\ TakesOut(y[1])
      BY DEF ConvInv, QueuesFollow
    <3>2. y[1] \in Turns /\ y[1] # t
      BY <1>1, <3>1 DEF ConvInv, ConversationsTypeOK, Result, TakesOut
    <3>3. turn'[y[1]] = s[y[1]]
      BY <1>5, <3>2
    <3> QED BY <1>2, <3>1, <3>2, <3>3 DEF TakesOut, WebToCome
  <2> QED BY <1>1, <2>1 DEF ConvInv, QueuesFollow, WebObserves, pendingVars
<1>13. ASSUME NEW u \in Turns, ~turn'[u].mixed
       PROVE  /\ Underway(u)' =>
                   items'[turn'[u].conv] \cup refs'[turn'[u].conv] \cup subRefs'[turn'[u].conv]
                     \subseteq OwnSet(u)'
              /\ ShownOf(u)'
              /\ WebObserves => CollectedOf(u)'
  <2>1. CASE u = t
    <3>1. items'[c] = {} /\ refs'[c] = {} /\ subRefs'[c] = {}
      BY <1>1, <1>5, <1>13, <2>1 DEF mixed, pendingVars
    <3>2. turn'[t].got = {} /\ ~turn'[t].streams
      BY <1>1, <1>5 DEF ShapeOf
    <3> QED BY <1>5, <2>1, <3>1, <3>2 DEF ShownOf, CollectedOf
  <2>2. CASE u # t
    <3>1. turn'[u] = turn[u]
      BY <1>2, <1>5, <1>13, <2>2
    <3>2. ~turn[u].mixed
      BY <1>13, <3>1
    <3> QED BY <1>1, <3>1, <3>2, UnmixedKeeps DEF pendingVars
  <2> QED BY <2>1, <2>2
<1>14. OwnQueues' /\ Shown' /\ Collected'
  BY <1>13 DEF OwnQueues, Shown, Collected, WebObserves
<1> QED BY <1>7, <1>8, <1>9, <1>10, <1>11, <1>12, <1>14 DEF ConvInv

LEMMA ConvInvStarts == ConversationsInit => ConvInv
<1> SUFFICES ASSUME ConversationsInit PROVE ConvInv
  OBVIOUS
<1>1. /\ \A t \in Turns : turn[t] = NoTurn(t)
      /\ turn = [t \in Turns |-> NoTurn(t)]
      /\ active = {} /\ stopped = {}
      /\ \A c \in Convs : items[c] = {} /\ refs[c] = {} /\ subRefs[c] = {}
  BY DEF ConversationsInit
<1>2. \A t \in Turns :
        /\ NoTurn(t) \in Turn /\ NoTurn(t).phase = "idle"
        /\ NoTurn(t).got = {} /\ NoTurn(t).ran = {}
        /\ ~NoTurn(t).streams /\ ~NoTurn(t).told /\ ~NoTurn(t).loose
        /\ ~NoTurn(t).shared /\ ~NoTurn(t).mixed
  <2>1. (CHOOSE c \in Convs : TRUE) \in Convs /\ (CHOOSE s \in Sources : TRUE) \in Sources
    BY ConversationsAssumption
  <2> QED BY <2>1 DEF NoTurn, Turn, Phase
<1>3. ConversationsTypeOK
  BY <1>1, <1>2 DEF ConversationsInit, ConversationsTypeOK
<1>4. TurnsShape /\ Together /\ ToldIsStopped /\ StopsAreForTheLiving /\ QueuesFollow
  BY <1>1, <1>2
     DEF TurnsShape, ShapeOf, Together, Underway, ToldIsStopped, StopsAreForTheLiving, QueuesFollow
<1>5. OwnQueues /\ Shown /\ Collected
  BY <1>1, <1>2 DEF OwnQueues, Underway, Shown, ShownOf, Collected, CollectedOf
<1> QED BY <1>3, <1>4, <1>5 DEF ConvInv

LEMMA ConvInvIsKept == ConvInv /\ [ConversationsNext]_conversationVars => ConvInv'
<1> SUFFICES ASSUME ConvInv, [ConversationsNext]_conversationVars PROVE ConvInv'
  OBVIOUS
<1>1. CASE UNCHANGED conversationVars
  <2>1. UNCHANGED <<turn, active, stopped, items, refs, subRefs>>
    BY <1>1 DEF conversationVars, agentVars, pendingVars
  <2>2. ConversationsTypeOK' /\ TurnsShape' /\ Together' /\ ToldIsStopped'
    BY <2>1 DEF ConvInv, ConversationsTypeOK, TurnsShape, ShapeOf, Together, Underway, ToldIsStopped
  <2>3. StopsAreForTheLiving'
    BY <2>1 DEF ConvInv, StopsAreForTheLiving, TurnsOf, Running
  <2>4. QueuesFollow'
    BY <2>1 DEF ConvInv, QueuesFollow, TakesOut, WebToCome, WebObserves
  <2>5. OwnQueues' /\ Shown'
    BY <2>1 DEF ConvInv, OwnQueues, Underway, OwnSet, Shown, ShownOf
  <2>6. Collected'
    BY <2>1 DEF ConvInv, Collected, CollectedOf, Waits, ShownAll, WebToCome, WebObserves
  <2> QED BY <2>2, <2>3, <2>4, <2>5, <2>6 DEF ConvInv
<1>2. ASSUME NEW c \in Convs, NEW ch \in Sources, StopCommand(c, ch) PROVE ConvInv'
  BY <1>2, StopKeeps
<1>3. ASSUME NEW t \in Turns, NEW c \in Convs, NEW s \in Sources, Dispatch(t, c, s) PROVE ConvInv'
  BY <1>3, DispatchKeeps
<1>4. ASSUME NEW t \in Turns, Proceed(t) PROVE ConvInv'
  <2>1. CASE MirrorUser(t)
    BY <2>1, MirrorUserKeeps
  <2>2. CASE Run(t)
    BY <2>2, RunKeeps
  <2>3. CASE Break(t) \/ StreamEnds(t) \/ StreamFails(t) \/ InvokeReturns(t) \/ InvokeFails(t)
    BY <2>3, GraphEnds
  <2>4. CASE StreamDone(t)
    BY <2>4, StreamDoneKeeps
  <2>5. CASE SendReply(t)
    BY <2>5, SendReplyKeeps
  <2>6. CASE Echo(t)
    BY <2>6, EchoKeeps
  <2>7. CASE Finish(t) \/ ReportError(t)
    BY <2>7, FinishKeeps
  <2> QED BY <1>4, <2>1, <2>2, <2>3, <2>4, <2>5, <2>6, <2>7 DEF Proceed
<1>5. ASSUME NEW t \in Turns, NEW a \in AgentsOf(t), ToolResult(t, a) \/ Chunk(t, a) PROVE ConvInv'
  <2>1. a \in Agents
    BY DEF AgentsOf, Agents
  <2> QED BY <1>5, <2>1, ResultKeeps, LateResultKeeps, ChunkKeeps
<1> QED BY <1>1, <1>2, <1>3, <1>4, <1>5 DEF ConversationsNext

\* Whatever the turns of the conversations do: a turn that had its conversation
\* to itself has shown the client its own results, all of them and nothing else,
\* a turn that came to its end leaves nothing in the queues for the main agent,
\* and a stop request is only kept while a turn of its conversation runs.
THEOREM TurnsAreCorrect == ConversationsSpec => []TurnsCorrect
<1>1. ConversationsSpec => []ConvInv
  BY ConvInvStarts, ConvInvIsKept, PTL DEF ConversationsSpec
<1> QED BY <1>1, InvShows, PTL

\* Once a stop is confirmed, a stream that has its conversation to itself yields
\* no further text.
THEOREM StoppedStaysSilent == ConversationsSpec => StoppedIsSilent
<1>1. ConversationsSpec => []ConvInv
  BY ConvInvStarts, ConvInvIsKept, PTL DEF ConversationsSpec
<1>2. ConvInv => \A t \in Turns : turn[t].told /\ ~turn[t].shared => \A a \in Agents : ~Chunk(t, a)
  BY DEF ConvInv, ToldIsStopped, Chunk
<1> QED BY <1>1, <1>2, PTL DEF StoppedIsSilent

-----------------------------------------------------------------------------
(* Privileged access                                                       *)

\* Of the rows of a conversation there is a newest one, and only that may be live.
NewestIsThere ==
  \A chat \in Chats : Of(chat) # {} => \E g \in Of(chat) : \A h \in Of(chat) : h <= g
GrantsInv == GrantsTypeOK /\ NewestIsThere /\ OneLiveGrant

\* The newest of grants, where there is one.
LEMMA NewestIs ==
  ASSUME NEW S \in SUBSET Nat, NEW g \in S, \A h \in S : h <= g
  PROVE  Newest(S) = g
<1>1. \A k \in S : (\A h \in S : h <= k) => k = g
  BY SMT
<1> QED BY <1>1 DEF Newest

\* Rows that change their state alone, and become live never.
LEMMA RowsGoOn ==
  ASSUME GrantsInv, DOMAIN grantRows' = Issued,
         \A g \in Issued : /\ grantRows'[g].chat = grantRows[g].chat
                           /\ grantRows'[g].state = "live" => grantRows[g].state = "live"
  PROVE  NewestIsThere' /\ OneLiveGrant'
<1>1. \A chat : Of(chat)' = Of(chat)
  BY DEF Of, Issued
<1>2. NewestIsThere'
  BY <1>1 DEF GrantsInv, NewestIsThere
<1>3. OneLiveGrant'
  <2>1. \A g \in Issued : grantRows'[g].state = "live" => g = Newest(Of(grantRows[g].chat))
    BY DEF GrantsInv, OneLiveGrant
  <2>2. \A g \in Issued : grantRows'[g].state = "live" => g = Newest(Of(grantRows[g].chat))'
    BY <1>1, <2>1
  <2> QED BY <2>2 DEF OneLiveGrant, Issued
<1> QED BY <1>2, <1>3

LEMMA ActivateKeeps ==
  ASSUME GrantsInv, NEW chat \in Chats, Activate(chat)
  PROVE  GrantsInv'
<1>1. PICK n \in 0..MaxGrants : grantRows \in [1..n -> Row]
  BY DEF GrantsInv, GrantsTypeOK
<1>2. Issued = 1..n /\ n \in Nat
  BY <1>1, GrantsAssumption DEF Issued
<1>3. 1 + (IF Issued = {} THEN 0 ELSE Newest(Issued)) = n + 1
  <2>1. CASE n = 0
    BY <1>2, <2>1
  <2>2. CASE n > 0
    <3>1. n \in 1..n /\ 1..n \in SUBSET Nat /\ \A h \in 1..n : h <= n
      BY <1>2, <2>2
    <3>2. Newest(1..n) = n
      BY <3>1, NewestIs
    <3> QED BY <1>2, <3>1, <3>2
  <2> QED BY <1>2, <2>1, <2>2
<1>4. /\ n + 1 \in Grant
      /\ grantRows' = [h \in 1..(n + 1) |->
            IF h = n + 1 THEN [chat |-> chat, state |-> "live"]
            ELSE IF h \in Of(chat) /\ grantRows[h].state = "live"
              THEN [grantRows[h] EXCEPT !.state = "revoked"] ELSE grantRows[h]]
      /\ UNCHANGED <<context, toolCall>>
  BY <1>3 DEF Activate
<1>5. /\ grantRows'[n + 1] = [chat |-> chat, state |-> "live"]
      /\ \A h \in 1..n : /\ grantRows'[h] \in Row /\ grantRows'[h].chat = grantRows[h].chat
                         /\ grantRows'[h].state = "live" =>
                              grantRows[h].state = "live" /\ grantRows[h].chat # chat
  <2>1. \A h \in 1..n : h \in 1..(n + 1) /\ h # n + 1 /\ grantRows[h] \in Row
    BY <1>1, <1>2
  <2>2. \A h \in 1..n : h \in Of(chat) <=> grantRows[h].chat = chat
    BY <1>2 DEF Of
  <2>3. ASSUME NEW h \in 1..n
        PROVE  /\ grantRows'[h] \in Row /\ grantRows'[h].chat = grantRows[h].chat
               /\ grantRows'[h].state = "live" => grantRows[h].state = "live" /\ grantRows[h].chat # chat
    <3>1. grantRows'[h] = IF h \in Of(chat) /\ grantRows[h].state = "live"
                            THEN [grantRows[h] EXCEPT !.state = "revoked"] ELSE grantRows[h]
      BY <1>4, <2>1
    <3> QED BY <2>1, <2>2, <3>1 DEF Row
  <2>4. n + 1 \in 1..(n + 1)
    BY <1>2
  <2> QED BY <1>4, <2>3, <2>4
<1>6. DOMAIN grantRows' = 1..(n + 1) /\ n + 1 \in 0..MaxGrants /\ 1..(n + 1) = 1..n \cup {n + 1}
  BY <1>2, <1>4, GrantsAssumption DEF Grant
<1>7. GrantsTypeOK'
  <2>1. grantRows'[n + 1] \in Row
    BY <1>5 DEF Row
  <2>2. grantRows' \in [1..(n + 1) -> Row]
    BY <1>4, <1>5, <1>6, <2>1
  <2> QED BY <1>4, <1>6, <2>2 DEF GrantsInv, GrantsTypeOK
<1>8. /\ Of(chat)' = Of(chat) \cup {n + 1}
      /\ \A c : c # chat => Of(c)' = Of(c)
      /\ \A c : Of(c) \subseteq 1..n
  BY <1>2, <1>5, <1>6 DEF Of, Issued
<1>9. \A h \in Of(chat)' : h <= n + 1 /\ h \in Nat
  BY <1>2, <1>8
<1>10. NewestIsThere'
  <2> SUFFICES ASSUME NEW c \in Chats, Of(c)' # {}
               PROVE  \E g \in Of(c)' : \A h \in Of(c)' : h <= g
    BY DEF NewestIsThere
  <2>1. CASE c = chat
    BY <1>8, <1>9, <2>1
  <2>2. CASE c # chat
    BY <1>8, <2>2 DEF GrantsInv, NewestIsThere
  <2> QED BY <2>1, <2>2
<1>11. OneLiveGrant'
  <2> SUFFICES ASSUME NEW g \in 1..(n + 1), grantRows'[g].state = "live"
               PROVE  g = Newest(Of(grantRows[g].chat))'
    BY <1>6 DEF OneLiveGrant, Issued
  <2>1. CASE g = n + 1
    <3>1. grantRows'[g].chat = chat
      BY <1>5, <2>1
    <3>2. Of(chat)' \in SUBSET Nat /\ n + 1 \in Of(chat)' /\ \A h \in Of(chat)' : h <= n + 1
      BY <1>8, <1>9
    <3>3. Newest(Of(chat)') = n + 1
      BY <3>2, NewestIs
    <3> QED BY <2>1, <3>1, <3>3
  <2>2. CASE g # n + 1
    <3>1. g \in 1..n
      BY <1>6, <2>2
    <3>2. grantRows[g].state = "live" /\ grantRows[g].chat # chat /\ grantRows'[g].chat = grantRows[g].chat
      BY <1>5, <3>1
    <3>3. g = Newest(Of(grantRows[g].chat))
      BY <1>2, <3>1, <3>2 DEF GrantsInv, OneLiveGrant
    <3> QED BY <1>8, <3>2, <3>3
  <2> QED BY <2>1, <2>2
<1> QED BY <1>7, <1>10, <1>11 DEF GrantsInv

LEMMA GrantEnds ==
  ASSUME GrantsInv, \/ \E chat \in Chats : Revoke(chat)
                    \/ \E g \in Grant : GrantExpires(g)
  PROVE  GrantsInv'
<1>1. PICK n \in 0..MaxGrants : grantRows \in [1..n -> Row]
  BY DEF GrantsInv, GrantsTypeOK
<1>2. Issued = 1..n
  BY <1>1 DEF Issued
<1>3. /\ grantRows' \in [1..n -> Row]
      /\ \A h \in 1..n : /\ grantRows'[h].chat = grantRows[h].chat
                         /\ grantRows'[h].state = "live" => grantRows[h].state = "live"
      /\ context' \in [Chats -> Context] /\ UNCHANGED toolCall
  <2>1. ASSUME NEW chat \in Chats, Revoke(chat)
        PROVE  /\ grantRows' \in [1..n -> Row]
               /\ \A h \in 1..n : /\ grantRows'[h].chat = grantRows[h].chat
                                  /\ grantRows'[h].state = "live" => grantRows[h].state = "live"
               /\ context' \in [Chats -> Context] /\ UNCHANGED toolCall
    <3>1. \A h \in 1..n : grantRows[h] \in Row
      BY <1>1
    <3>2. ASSUME NEW h \in 1..n, NEW r \in {[grantRows[h] EXCEPT !.state = "revoked"]}
          PROVE  r \in Row /\ r.chat = grantRows[h].chat /\ r.state = "revoked"
      BY <3>1 DEF Row
    <3>3. /\ DOMAIN grantRows' = 1..n /\ grantRows' = [h \in 1..n |-> grantRows'[h]]
          /\ \A h \in 1..n : grantRows'[h] \in {[grantRows[h] EXCEPT !.state = "revoked"]} \cup {grantRows[h]}
          /\ UNCHANGED <<context, toolCall>>
      BY <1>2, <2>1 DEF Revoke
    <3> QED BY <3>1, <3>2, <3>3 DEF GrantsInv, GrantsTypeOK
  <2>2. ASSUME NEW g \in Grant, GrantExpires(g)
        PROVE  /\ grantRows' \in [1..n -> Row]
               /\ \A h \in 1..n : /\ grantRows'[h].chat = grantRows[h].chat
                                  /\ grantRows'[h].state = "live" => grantRows[h].state = "live"
               /\ context' \in [Chats -> Context] /\ UNCHANGED toolCall
    <3>1. /\ g \in 1..n /\ grantRows[g] \in Row
          /\ grantRows' = [grantRows EXCEPT ![g] = [grantRows[g] EXCEPT !.state = "expired"]]
          /\ UNCHANGED toolCall
      BY <1>1, <1>2, <2>2 DEF GrantExpires
    <3>2. ASSUME NEW r \in {[grantRows[g] EXCEPT !.state = "expired"]}
          PROVE  r \in Row /\ r.chat = grantRows[g].chat /\ r.state = "expired"
      BY <3>1 DEF Row
    <3>3. /\ grantRows' \in [1..n -> Row]
          /\ \A h \in 1..n : /\ grantRows'[h].chat = grantRows[h].chat
                             /\ grantRows'[h].state = "live" => grantRows[h].state = "live"
      BY <1>1, <3>1, <3>2
    <3>4. context' \in [Chats -> Context]
      BY <2>2, SMTT(30) DEF GrantExpires, GrantsInv, GrantsTypeOK, Context
    <3> QED BY <3>1, <3>3, <3>4
  <2> QED BY <2>1, <2>2
<1>4. DOMAIN grantRows' = Issued
  BY <1>2, <1>3
<1>5. NewestIsThere' /\ OneLiveGrant'
  BY <1>2, <1>3, <1>4, RowsGoOn
<1>6. GrantsTypeOK'
  BY <1>1, <1>3 DEF GrantsInv, GrantsTypeOK
<1> QED BY <1>5, <1>6 DEF GrantsInv

\* What is remembered is an entry of its type, and passes a grant on only for a
\* conversation that has a live one.
LEMMA ResolvedIs ==
  ASSUME NEW entry \in Context, NEW chat
  PROVE  /\ Resolved(entry, chat) \in Context
         /\ Resolved(entry, chat).grant # 0 => StatusActive(chat)
<1>1. NoEntry \in Context /\ NoEntry.grant = 0
  BY GrantsAssumption DEF NoEntry, Context
<1>2. ASSUME NEW e \in Context PROVE Normalised(e) \in {e, NoEntry}
  BY DEF Normalised
<1> DEFINE e == [entry EXCEPT !.token = IF @ = "expired" THEN "none" ELSE @,
                              !.grant = IF entry.ends = "past" \/ ~StatusActive(chat) THEN 0 ELSE @]
<1>3. e \in Context /\ (e.grant # 0 => StatusActive(chat))
  <2>1. PICK dead \in BOOLEAN : dead = (entry.ends = "past" \/ ~StatusActive(chat))
    OBVIOUS
  <2>2. PICK token \in {IF entry.token = "expired" THEN "none" ELSE entry.token},
             grant \in {IF dead THEN 0 ELSE entry.grant} : TRUE
    OBVIOUS
  <2>3. token \in {"none", "set", "expired"} /\ grant \in 0..MaxGrants /\ (grant # 0 => ~dead)
    BY <2>2, GrantsAssumption DEF Context
  <2>4. e = [entry EXCEPT !.token = token, !.grant = grant]
    BY <2>1, <2>2
  <2>5. [entry EXCEPT !.token = token, !.grant = grant] \in Context
    BY <2>3 DEF Context
  <2>6. [entry EXCEPT !.token = token, !.grant = grant].grant = grant
    BY DEF Context
  <2> QED BY <2>1, <2>3, <2>4, <2>5, <2>6
<1>4. Resolved(entry, chat) = Normalised(e)
  BY DEF Resolved
<1> QED BY <1>1, <1>2, <1>3, <1>4

LEMMA UpdatedIs ==
  ASSUME GrantsInv, NEW entry \in Context, NEW chat,
         NEW token \in {"keep", "none", "set"},
         NEW grant, grant \in {"keep", "clear"} \/ \E g \in Issued : grant = <<g>>
  PROVE  Updated(entry, token, grant) \in Context
<1>1. NoEntry \in Context
  BY GrantsAssumption DEF NoEntry, Context
<1>2. \A g \in Issued : g \in 0..MaxGrants
  BY GrantsAssumption DEF GrantsInv, GrantsTypeOK, Issued
<1> DEFINE e == [token |-> IF token = "keep" THEN entry.token ELSE token,
                 grant |-> IF grant = "keep" THEN entry.grant
                           ELSE IF grant = "clear" THEN 0 ELSE grant[1],
                 ends  |-> IF grant = "keep" THEN entry.ends ELSE "later"]
<1>3. (IF grant = "keep" THEN entry.grant ELSE IF grant = "clear" THEN 0 ELSE grant[1]) \in 0..MaxGrants
  BY <1>2, GrantsAssumption DEF Context
<1>4. e \in Context
  BY <1>3 DEF Context
<1>5. Updated(entry, token, grant) = Normalised(e)
  BY DEF Updated
<1> QED BY <1>1, <1>4, <1>5 DEF Normalised

\* Of an entry what has ended is kept as it is.
LEMMA ContextEnds ==
  ASSUME GrantsInv, NEW chat \in Chats,
         PersonalTokenExpires(chat) \/ RememberedEnds(chat)
  PROVE  GrantsInv'
<1>1. context[chat] \in Context /\ context \in [Chats -> Context]
  BY DEF GrantsInv, GrantsTypeOK
<1>2. ASSUME NEW e \in {[context[chat] EXCEPT !.token = "expired"], [context[chat] EXCEPT !.ends = "past"]}
      PROVE  e \in Context
  BY <1>1 DEF Context
<1>3. context' \in [Chats -> Context] /\ UNCHANGED <<grantRows, toolCall>>
  BY <1>1, <1>2 DEF PersonalTokenExpires, RememberedEnds
<1> QED BY <1>3 DEF GrantsInv, GrantsTypeOK, NewestIsThere, OneLiveGrant, Of, Issued

\* A frame that passes on a value of its type; and a turn is dispatched with a
\* grant only while its conversation has a live one.
LEMMA MessageKeeps ==
  ASSUME GrantsInv, NEW chat \in Chats, MessageArrives(chat)
  PROVE  /\ GrantsInv' /\ UNCHANGED grantRows
         /\ \A t \in Calls :
              /\ toolCall[t].state = "called" => toolCall'[t] = toolCall[t]
              /\ toolCall[t].state = "none" /\ toolCall'[t].state = "called" /\ toolCall'[t].grant # 0
                   => StatusActive(toolCall'[t].chat)
<1>1. PICK token \in {"keep", "none", "set"}, t \in Calls \cup {"contextOnly"} :
        /\ t \in Calls => toolCall[t] = NoCall
        /\ \/ \E grant \in {"keep", "clear"} : Frame(chat, token, grant, t)
           \/ \E g \in Of(chat) : Frame(chat, token, <<g>>, t)
  BY DEF MessageArrives
<1>2. PICK grant : /\ grant \in {"keep", "clear"} \/ \E g \in Issued : grant = <<g>>
                   /\ Frame(chat, token, grant, t)
  BY <1>1 DEF Of
<1>3. context[chat] \in Context /\ context \in [Chats -> Context]
      /\ toolCall \in [Calls -> {NoCall} \cup ToolCall]
  BY DEF GrantsInv, GrantsTypeOK
<1>4. Updated(context[chat], token, grant) \in Context
  BY <1>2, <1>3, UpdatedIs
<1>5. PICK e \in {Resolved(Updated(context[chat], token, grant), chat)} : TRUE
  OBVIOUS
<1>6. e \in Context /\ (e.grant # 0 => StatusActive(chat))
  BY <1>4, <1>5, ResolvedIs
<1>7. context' = [context EXCEPT ![chat] = e] /\ UNCHANGED grantRows
  BY <1>2, <1>5 DEF Frame
<1>8. context' \in [Chats -> Context] /\ context'[chat] = e
  BY <1>3, <1>6, <1>7
<1>9. PICK c \in {[state |-> "called", chat |-> chat, grant |-> e.grant]} : TRUE
  OBVIOUS
<1>10. c \in ToolCall /\ c.state = "called" /\ c.chat = chat /\ c.grant = e.grant
  BY <1>6, <1>9 DEF ToolCall, Context
<1>11. toolCall' = IF t \in Calls THEN [toolCall EXCEPT ![t] = c] ELSE toolCall
  BY <1>2, <1>8, <1>9 DEF Frame
<1>12. toolCall' \in [Calls -> {NoCall} \cup ToolCall]
  BY <1>3, <1>10, <1>11
<1>13. GrantsInv'
  BY <1>7, <1>8, <1>12 DEF GrantsInv, GrantsTypeOK, NewestIsThere, OneLiveGrant, Of, Issued
<1>14. NoCall.state = "none"
  BY DEF NoCall
<1>15. ASSUME NEW u \in Calls
       PROVE  /\ toolCall[u].state = "called" => toolCall'[u] = toolCall[u]
              /\ toolCall[u].state = "none" /\ toolCall'[u].state = "called" /\ toolCall'[u].grant # 0
                   => StatusActive(toolCall'[u].chat)
  <2>1. CASE u = t
    <3>1. toolCall[u] = NoCall /\ toolCall'[u] = c
      BY <1>1, <1>3, <1>11, <2>1
    <3> QED BY <1>6, <1>10, <1>14, <3>1
  <2>2. CASE u # t
    BY <1>3, <1>11, <2>2
  <2> QED BY <2>1, <2>2
<1> QED BY <1>7, <1>13, <1>15

LEMMA ToolKeeps ==
  ASSUME GrantsInv, NEW t \in Calls, ToolRuns(t)
  PROVE  /\ GrantsInv' /\ UNCHANGED grantRows
         /\ \A u \in Calls :
              /\ toolCall[u].state = "none" => toolCall'[u] = toolCall[u]
              /\ toolCall[u].state = "called" /\ toolCall'[u].state = "acted" =>
                   /\ toolCall[u].grant \in Of(toolCall[u].chat)
                   /\ grantRows[toolCall[u].grant].state = "live"
<1>1. toolCall \in [Calls -> {NoCall} \cup ToolCall] /\ toolCall[t].state = "called"
  BY DEF GrantsInv, GrantsTypeOK, ToolRuns
<1>2. toolCall[t] \in ToolCall /\ toolCall[t].chat \in Chats
  BY <1>1 DEF NoCall, ToolCall
<1>3. PICK valid \in BOOLEAN : valid = (toolCall[t].grant # 0 /\ Valid(toolCall[t].grant, toolCall[t].chat))
  OBVIOUS
<1>4. PICK c \in {[toolCall[t] EXCEPT !.state = IF valid THEN "acted" ELSE "refused"]} : TRUE
  OBVIOUS
<1>5. c \in ToolCall /\ (c.state = "acted" => valid)
  BY <1>2, <1>4 DEF ToolCall
<1>6. toolCall' = [toolCall EXCEPT ![t] = c] /\ UNCHANGED <<grantRows, context>>
  BY <1>3, <1>4 DEF ToolRuns
<1>7. toolCall' \in [Calls -> {NoCall} \cup ToolCall]
  BY <1>1, <1>5, <1>6
<1>8. GrantsInv'
  BY <1>6, <1>7 DEF GrantsInv, GrantsTypeOK, NewestIsThere, OneLiveGrant, Of, Issued
<1>9. valid => /\ toolCall[t].grant \in Of(toolCall[t].chat)
               /\ grantRows[toolCall[t].grant].state = "live"
  <2> SUFFICES ASSUME valid PROVE /\ toolCall[t].grant \in Of(toolCall[t].chat)
                                  /\ grantRows[toolCall[t].grant].state = "live"
    OBVIOUS
  <2>1. /\ Of(toolCall[t].chat) # {} /\ toolCall[t].grant = Newest(Of(toolCall[t].chat))
        /\ grantRows[Newest(Of(toolCall[t].chat))].state = "live"
    BY <1>3 DEF Valid, StatusActive
  <2>2. PICK g \in Of(toolCall[t].chat) : \A h \in Of(toolCall[t].chat) : h <= g
    BY <1>2, <2>1 DEF GrantsInv, NewestIsThere
  <2>3. Of(toolCall[t].chat) \in SUBSET Nat
    BY GrantsAssumption DEF GrantsInv, GrantsTypeOK, Of, Issued
  <2>4. Newest(Of(toolCall[t].chat)) = g
    BY <2>2, <2>3, NewestIs
  <2> QED BY <2>1, <2>2, <2>4
<1>10. ASSUME NEW u \in Calls
       PROVE  /\ toolCall[u].state = "none" => toolCall'[u] = toolCall[u]
              /\ toolCall[u].state = "called" /\ toolCall'[u].state = "acted" =>
                   /\ toolCall[u].grant \in Of(toolCall[u].chat)
                   /\ grantRows[toolCall[u].grant].state = "live"
  <2>1. CASE u = t
    <3>1. toolCall'[u] = c
      BY <1>1, <1>6, <2>1
    <3> QED BY <1>1, <1>5, <1>9, <2>1, <3>1
  <2>2. CASE u # t
    BY <1>1, <1>6, <2>2
  <2> QED BY <2>1, <2>2
<1> QED BY <1>6, <1>8, <1>10

LEMMA GrantsStart == GrantsInit => GrantsInv
<1> SUFFICES ASSUME GrantsInit PROVE GrantsInv
  OBVIOUS
<1>1. 0 \in 0..MaxGrants /\ grantRows = <<>> /\ DOMAIN grantRows = {}
  BY GrantsAssumption DEF GrantsInit
<1>2. 1..0 = {} /\ grantRows \in [1..0 -> Row]
  BY <1>1
<1>3. context \in [Chats -> Context] /\ toolCall \in [Calls -> {NoCall} \cup ToolCall]
  BY GrantsAssumption DEF GrantsInit, NoEntry, Context
<1>4. \A chat : Of(chat) = {}
  BY <1>1 DEF Of, Issued
<1>5. OneLiveGrant /\ NewestIsThere
  BY <1>1, <1>4 DEF OneLiveGrant, NewestIsThere, Issued
<1> QED BY <1>1, <1>2, <1>3, <1>5 DEF GrantsInv, GrantsTypeOK

\* Every step keeps the invariant, lets a tool act on a live grant of its
\* conversation only, and dispatches no turn with a dead one.
LEMMA GrantsGoOn ==
  GrantsInv /\ [GrantsNext]_grantVars =>
    /\ GrantsInv'
    /\ \A t \in Calls : toolCall[t].state = "called" /\ toolCall'[t].state = "acted" =>
         /\ toolCall[t].grant \in Of(toolCall[t].chat)
         /\ grantRows[toolCall[t].grant].state = "live"
    /\ \A t \in Calls :
         toolCall[t].state = "none" /\ toolCall'[t].state = "called" /\ toolCall'[t].grant # 0
           => StatusActive(toolCall'[t].chat)
<1> SUFFICES ASSUME GrantsInv, [GrantsNext]_grantVars
             PROVE  /\ GrantsInv'
                    /\ \A t \in Calls : toolCall[t].state = "called" /\ toolCall'[t].state = "acted" =>
                         /\ toolCall[t].grant \in Of(toolCall[t].chat)
                         /\ grantRows[toolCall[t].grant].state = "live"
                    /\ \A t \in Calls :
                         toolCall[t].state = "none" /\ toolCall'[t].state = "called"
                           /\ toolCall'[t].grant # 0 => StatusActive(toolCall'[t].chat)
  OBVIOUS
<1>1. CASE \E chat \in Chats : Activate(chat)
  <2>1. UNCHANGED toolCall
    BY <1>1 DEF Activate
  <2> QED BY <1>1, <2>1, ActivateKeeps
<1>2. CASE \/ \E chat \in Chats : Revoke(chat)
           \/ \E g \in Grant : GrantExpires(g)
  <2>1. UNCHANGED toolCall
    BY <1>2 DEF Revoke, GrantExpires
  <2> QED BY <1>2, <2>1, GrantEnds
<1>3. CASE \E chat \in Chats : PersonalTokenExpires(chat) \/ RememberedEnds(chat)
  <2>1. UNCHANGED toolCall
    BY <1>3 DEF PersonalTokenExpires, RememberedEnds
  <2> QED BY <1>3, <2>1, ContextEnds
<1>4. CASE \E chat \in Chats : MessageArrives(chat)
  BY <1>4, MessageKeeps
<1>5. CASE \E t \in Calls : ToolRuns(t)
  BY <1>5, ToolKeeps
<1>6. CASE UNCHANGED grantVars
  <2>1. UNCHANGED <<grantRows, context, toolCall>>
    BY <1>6 DEF grantVars
  <2> QED BY <2>1 DEF GrantsInv, GrantsTypeOK, NewestIsThere, OneLiveGrant, Of, Issued
<1> QED BY <1>1, <1>2, <1>3, <1>4, <1>5, <1>6 DEF GrantsNext

\* A conversation has one live grant at most, a tool acts only on a grant of its
\* conversation that is live when it asks, and no turn is dispatched with a grant
\* of a conversation that has no live one (AuthService, GloveAgent and the tools
\* that check their grant).
THEOREM GrantsAreCorrect == GrantsSpec => GrantsPromise
<1>2. GrantsInv /\ GrantsInv' /\ [GrantsNext]_grantVars =>
        /\ [GrantsTypeOK' /\ OneLiveGrant']_grantVars
        /\ [\A t \in Calls : toolCall[t].state = "called" /\ toolCall'[t].state = "acted" =>
              /\ toolCall[t].grant \in Of(toolCall[t].chat)
              /\ grantRows[toolCall[t].grant].state = "live"]_grantVars
        /\ [\A t \in Calls :
              toolCall[t].state = "none" /\ toolCall'[t].state = "called" /\ toolCall'[t].grant # 0
                => StatusActive(toolCall'[t].chat)]_grantVars
  BY GrantsGoOn DEF GrantsInv
<1>3. GrantsInv /\ [GrantsNext]_grantVars => GrantsInv'
  BY GrantsGoOn
<1> QED BY <1>2, <1>3, GrantsStart, PTL
        DEF GrantsSpec, GrantsPromise, ActsOnLiveGrant, DeadGrantsAreForgotten

-----------------------------------------------------------------------------
(* The title of a conversation                                             *)

\* The runs no other has overlapped are in the newest checkpoint and in what every
\* run underway will write; of the runs that make a title one is underway at most,
\* while titleGenerationInFlight has the conversation and no title is stored.
Remembered ==
  \A r \in alone : /\ run[r] # "idle" /\ r \in thread
                   /\ \A x \in RunsUnderway : r \in work[x]
MakesOneTitle ==
  /\ \A t \in Dispatches : run[<<t, "title">>] = "running" => inFlight /\ title = "none"
  /\ \A t, u \in Dispatches :
       run[<<t, "title">>] = "running" /\ run[<<u, "title">>] = "running" => t = u
TitlesInv == TitlesTypeOK /\ Remembered /\ MakesOneTitle

LEMMA RunsAre ==
  /\ \A t \in Dispatches : <<t, "turn">> \in Runs /\ <<t, "title">> \in Runs
  /\ \A t, u : <<t, "turn">> # <<u, "title">>
  /\ \A t, u : <<t, "title">> = <<u, "title">> => t = u
BY DEF Runs

\* A run begins with all that is in the thread.
LEMMA BeginKeeps ==
  ASSUME TitlesInv, NEW r \in Runs, BeginRun(r)
  PROVE  /\ thread' \subseteq Runs /\ alone' \subseteq Runs
         /\ run' = [run EXCEPT ![r] = "running"]
         /\ run' \in [Runs -> {"idle", "running", "complete", "over"}]
         /\ work' \in [Runs -> SUBSET Runs]
         /\ Remembered'
<1>1. /\ thread \subseteq Runs /\ alone \subseteq Runs
      /\ run \in [Runs -> {"idle", "running", "complete", "over"}]
      /\ work \in [Runs -> SUBSET Runs]
  BY DEF TitlesInv, TitlesTypeOK
<1>2. /\ run' = [run EXCEPT ![r] = "running"]
      /\ work' = [work EXCEPT ![r] = thread \cup {r}]
      /\ thread' = thread \cup {r}
      /\ alone' = IF RunsUnderway = {} THEN alone \cup {r} ELSE alone \ RunsUnderway
  BY DEF BeginRun
<1>3. /\ thread' \subseteq Runs /\ alone' \subseteq Runs
      /\ run' \in [Runs -> {"idle", "running", "complete", "over"}]
      /\ work' \in [Runs -> SUBSET Runs]
  BY <1>1, <1>2
<1>4. RunsUnderway' = RunsUnderway \cup {r}
  BY <1>1, <1>2 DEF RunsUnderway
<1>5. Remembered'
  <2> SUFFICES ASSUME NEW q \in alone'
               PROVE  /\ run'[q] # "idle" /\ q \in thread'
                      /\ \A x \in RunsUnderway' : q \in work'[x]
    BY DEF Remembered
  <2>1. q \in alone => run[q] # "idle" /\ q \in thread /\ \A x \in RunsUnderway : q \in work[x]
    BY DEF TitlesInv, Remembered
  <2>2. q \in Runs /\ (q \in alone \/ (q = r /\ RunsUnderway = {}))
    BY <1>2, <1>3
  <2>3. run'[q] # "idle" /\ q \in thread'
    BY <1>1, <1>2, <2>1, <2>2
  <2>4. ASSUME NEW x \in RunsUnderway' PROVE q \in work'[x]
    <3>1. CASE x = r
      BY <1>1, <1>2, <2>3, <3>1
    <3>2. CASE x # r
      <4>1. x \in RunsUnderway /\ x \in Runs
        BY <1>4, <3>2 DEF RunsUnderway
      <4>2. work'[x] = work[x] /\ q \in alone
        BY <1>1, <1>2, <2>2, <3>2, <4>1
      <4> QED BY <2>1, <4>1, <4>2
    <3> QED BY <3>1, <3>2
  <2> QED BY <2>3, <2>4
<1> QED BY <1>2, <1>3, <1>5

\* The runs that end take nothing with them: the others have what they had.
LEMMA EndsKeep ==
  ASSUME TitlesInv,
         run' \in [Runs -> {"idle", "running", "complete", "over"}],
         \A x \in Runs : run'[x] = "running" => run[x] = "running" /\ work'[x] = work[x],
         \A x \in Runs : run'[x] = "idle" => run[x] = "idle",
         UNCHANGED alone, alone \subseteq thread'
  PROVE  Remembered'
<1>1. \A x \in RunsUnderway' : x \in RunsUnderway /\ work'[x] = work[x]
  BY DEF RunsUnderway
<1>2. \A q \in alone : /\ q \in Runs /\ run[q] # "idle" /\ q \in thread
                       /\ \A x \in RunsUnderway : q \in work[x]
  BY DEF TitlesInv, TitlesTypeOK, Remembered
<1> QED BY <1>1, <1>2 DEF Remembered

LEMMA TitlesGoOn ==
  TitlesInv /\ [TitlesNext]_titleVars => TitlesInv' /\ (title # "none" => UNCHANGED title)
<1> SUFFICES ASSUME TitlesInv, [TitlesNext]_titleVars
             PROVE  TitlesInv' /\ (title # "none" => UNCHANGED title)
  OBVIOUS
<1>1. /\ thread \subseteq Runs /\ alone \subseteq Runs
      /\ run \in [Runs -> {"idle", "running", "complete", "over"}]
      /\ work \in [Runs -> SUBSET Runs]
      /\ inFlight \in BOOLEAN /\ title \in Dispatches \cup {"none"}
  BY DEF TitlesInv, TitlesTypeOK
<1>2. /\ \A q \in alone : q \in thread /\ \A x \in RunsUnderway : q \in work[x]
      /\ \A x \in Runs : run[x] = "running" => x \in RunsUnderway
  BY DEF TitlesInv, Remembered, RunsUnderway
<1>3. ASSUME NEW t \in Dispatches, BeginTurn(t)
      PROVE  TitlesInv' /\ UNCHANGED title
  <2>1. BeginRun(<<t, "turn">>) /\ UNCHANGED <<inFlight, title>> /\ <<t, "turn">> \in Runs
    BY <1>3, RunsAre DEF BeginTurn
  <2>2. /\ thread' \subseteq Runs /\ alone' \subseteq Runs
        /\ run' = [run EXCEPT ![<<t, "turn">>] = "running"]
        /\ run' \in [Runs -> {"idle", "running", "complete", "over"}]
        /\ work' \in [Runs -> SUBSET Runs]
        /\ Remembered'
    BY <2>1, BeginKeeps
  <2>3. \A u \in Dispatches : run'[<<u, "title">>] = run[<<u, "title">>]
    BY <1>1, <2>2, RunsAre
  <2>4. MakesOneTitle'
    BY <2>1, <2>3 DEF TitlesInv, MakesOneTitle
  <2> QED BY <1>1, <2>1, <2>2, <2>4 DEF TitlesInv, TitlesTypeOK
<1>4. ASSUME NEW r \in Runs, Checkpoint(r)
      PROVE  TitlesInv' /\ UNCHANGED title
  <2>1. run[r] = "running" /\ thread' = work[r] /\ UNCHANGED <<run, work, inFlight, title, alone>>
    BY <1>4 DEF Checkpoint
  <2>2. alone \subseteq thread'
    BY <1>2, <2>1
  <2>3. Remembered'
    BY <1>1, <2>1, <2>2, EndsKeep
  <2> QED BY <1>1, <2>1, <2>3 DEF TitlesInv, TitlesTypeOK, MakesOneTitle
<1>5. ASSUME NEW t \in Dispatches, TurnEnds(t)
      PROVE  TitlesInv' /\ UNCHANGED title
  <2>1. PICK r \in Runs : r = <<t, "turn">>
    BY RunsAre
  <2>2. /\ run[r] = "running" /\ UNCHANGED <<inFlight, title, alone>>
        /\ work' = [work EXCEPT ![r] = {}] /\ (thread' = work[r] \/ thread' = thread)
        /\ \E s \in {"complete", "over"} : run' = [run EXCEPT ![r] = s]
    BY <1>5, <2>1 DEF TurnEnds
  <2>3. /\ alone \subseteq thread' /\ thread' \subseteq Runs
        /\ run' \in [Runs -> {"idle", "running", "complete", "over"}]
        /\ work' \in [Runs -> SUBSET Runs]
        /\ \A x \in Runs : run'[x] = "running" => run[x] = "running" /\ work'[x] = work[x]
        /\ \A x \in Runs : run'[x] = "idle" => run[x] = "idle"
    BY <1>1, <1>2, <2>2
  <2>4. Remembered'
    BY <2>2, <2>3, EndsKeep
  <2>5. \A u \in Dispatches : run'[<<u, "title">>] = run[<<u, "title">>]
    BY <1>1, <2>1, <2>2, RunsAre
  <2>6. MakesOneTitle'
    BY <2>2, <2>5 DEF TitlesInv, MakesOneTitle
  <2> QED BY <1>1, <2>2, <2>3, <2>4, <2>6 DEF TitlesInv, TitlesTypeOK
<1>6. ASSUME NEW t \in Dispatches, GenerateTitle(t)
      PROVE  TitlesInv' /\ UNCHANGED title
  <2>1. <<t, "turn">> \in Runs /\ <<t, "title">> \in Runs
    BY RunsAre
  <2>2. CASE title # "none" \/ inFlight
    <3>1. /\ run' = [run EXCEPT ![<<t, "turn">>] = "over"]
          /\ UNCHANGED <<thread, work, inFlight, alone, title>>
      BY <1>6, <2>2 DEF GenerateTitle
    <3>2. /\ run' \in [Runs -> {"idle", "running", "complete", "over"}]
          /\ \A x \in Runs : run'[x] = "running" => run[x] = "running" /\ work'[x] = work[x]
          /\ \A x \in Runs : run'[x] = "idle" => run[x] = "idle"
          /\ alone \subseteq thread'
      BY <1>1, <1>2, <2>1, <3>1
    <3>3. Remembered'
      BY <3>1, <3>2, EndsKeep
    <3>4. \A u \in Dispatches : run'[<<u, "title">>] = run[<<u, "title">>]
      BY <1>1, <3>1, RunsAre
    <3>5. MakesOneTitle'
      BY <3>1, <3>4 DEF TitlesInv, MakesOneTitle
    <3> QED BY <1>1, <3>1, <3>2, <3>3, <3>5 DEF TitlesInv, TitlesTypeOK
  <2>3. CASE ~(title # "none" \/ inFlight)
    <3>1. BeginRun(<<t, "title">>) /\ inFlight' = TRUE /\ UNCHANGED title
      BY <1>6, <2>3 DEF GenerateTitle
    <3>2. /\ thread' \subseteq Runs /\ alone' \subseteq Runs
          /\ run' = [run EXCEPT ![<<t, "title">>] = "running"]
          /\ run' \in [Runs -> {"idle", "running", "complete", "over"}]
          /\ work' \in [Runs -> SUBSET Runs]
          /\ Remembered'
      BY <2>1, <3>1, BeginKeeps
    <3>3. \A u \in Dispatches : run'[<<u, "title">>] = "running" => u = t
      <4>1. \A u \in Dispatches : run[<<u, "title">>] # "running"
        BY <2>3 DEF TitlesInv, MakesOneTitle
      <4> QED BY <1>1, <3>2, <4>1, RunsAre
    <3>4. MakesOneTitle'
      BY <2>3, <3>1, <3>3 DEF MakesOneTitle
    <3> QED BY <1>1, <3>1, <3>2, <3>4 DEF TitlesInv, TitlesTypeOK
  <2> QED BY <2>2, <2>3
<1>7. ASSUME NEW t \in Dispatches, StoreTitle(t)
      PROVE  TitlesInv' /\ title = "none"
  <2>1. PICK r \in Runs : r = <<t, "title">>
    BY RunsAre
  <2>2. <<t, "turn">> \in Runs
    BY RunsAre
  <2>3. /\ run[r] = "running" /\ UNCHANGED <<thread, alone>>
        /\ run' = [run EXCEPT ![r] = "over", ![<<t, "turn">>] = "over"]
        /\ work' = [work EXCEPT ![r] = {}] /\ title' \in {t, title} /\ inFlight' = FALSE
    BY <1>7, <2>1 DEF StoreTitle
  <2>4. /\ alone \subseteq thread'
        /\ run' \in [Runs -> {"idle", "running", "complete", "over"}]
        /\ work' \in [Runs -> SUBSET Runs]
        /\ \A x \in Runs : run'[x] = "running" => run[x] = "running" /\ work'[x] = work[x]
        /\ \A x \in Runs : run'[x] = "idle" => run[x] = "idle"
    BY <1>1, <1>2, <2>2, <2>3
  <2>5. Remembered'
    BY <2>3, <2>4, EndsKeep
  <2>6. \A u \in Dispatches : run'[<<u, "title">>] # "running"
    <3>1. ASSUME NEW u \in Dispatches, run'[<<u, "title">>] = "running" PROVE FALSE
      <4>1. <<u, "title">> \in Runs /\ run[<<u, "title">>] = "running"
        BY <2>4, <3>1, RunsAre
      <4>2. u = t
        BY <2>1, <2>3, <4>1 DEF TitlesInv, MakesOneTitle
      <4> QED BY <1>1, <2>1, <2>2, <2>3, <3>1, <4>2
    <3> QED BY <3>1
  <2>7. MakesOneTitle' /\ title = "none"
    BY <2>1, <2>3, <2>6 DEF TitlesInv, MakesOneTitle
  <2>8. thread' \subseteq Runs /\ alone' \subseteq Runs /\ inFlight' \in BOOLEAN
    BY <1>1, <2>3
  <2>9. title' \in Dispatches \cup {"none"}
    BY <1>1, <2>3
  <2>10. TitlesTypeOK'
    BY <2>4, <2>8, <2>9 DEF TitlesTypeOK
  <2> QED BY <2>5, <2>7, <2>10 DEF TitlesInv
<1>8. ASSUME RestartTitles
      PROVE  TitlesInv' /\ UNCHANGED title
  <2>1. /\ run' = [r \in Runs |-> IF run[r] \in {"running", "complete"} THEN "over" ELSE run[r]]
        /\ inFlight' = FALSE /\ work' = [r \in Runs |-> {}] /\ UNCHANGED <<thread, title, alone>>
    BY <1>8 DEF RestartTitles
  <2>2. /\ run' \in [Runs -> {"idle", "running", "complete", "over"}]
        /\ work' \in [Runs -> SUBSET Runs]
        /\ \A x \in Runs : run'[x] # "running"
        /\ \A x \in Runs : run'[x] = "idle" => run[x] = "idle"
        /\ alone \subseteq thread'
    BY <1>1, <1>2, <2>1
  <2>3. Remembered'
    BY <2>1, <2>2, EndsKeep
  <2>4. MakesOneTitle'
    BY <2>2, RunsAre DEF MakesOneTitle
  <2> QED BY <1>1, <2>1, <2>2, <2>3, <2>4 DEF TitlesInv, TitlesTypeOK
<1>9. CASE UNCHANGED titleVars
  BY <1>9 DEF titleVars, TitlesInv, TitlesTypeOK, Remembered, MakesOneTitle, RunsUnderway
<1> QED BY <1>3, <1>4, <1>5, <1>6, <1>7, <1>8, <1>9 DEF TitlesNext

LEMMA TitlesStart == TitlesInit => TitlesInv
BY RunsAre DEF TitlesInit, TitlesInv, TitlesTypeOK, Remembered, MakesOneTitle

\* What a run wrote that no other run has overlapped stays in the conversation,
\* whichever runs overlap later, and a title is never replaced (the title graph of
\* the gateway on the thread of the turns).
THEOREM TitlesAreCorrect == TitlesSpec => TitlesPromise
<1>1. TitlesInv => LoneRunsAreRemembered
  BY DEF TitlesInv, Remembered, LoneRunsAreRemembered
<1>2. TitlesInv /\ [TitlesNext]_titleVars => TitlesInv'
  BY TitlesGoOn
<1>3. TitlesInv /\ [TitlesNext]_titleVars => [title # "none" => UNCHANGED title]_titleVars
  BY TitlesGoOn
<1>4. TitlesInv' => LoneRunsAreRemembered'
  BY DEF TitlesInv, Remembered, LoneRunsAreRemembered
<1>5. TitlesInv => TitlesTypeOK
  BY DEF TitlesInv
<1> QED BY <1>1, <1>2, <1>3, <1>4, <1>5, TitlesStart, PTL DEF TitlesSpec, TitlesPromise, TitleIsKept

-----------------------------------------------------------------------------
(* The start of the gateway                                                *)

\* As long as the gateway is there, a tool of which every call was answered in
\* time has nothing on the way but what is awaited, and its crawl, if the start has
\* stopped it, is kept for the phase that resumes it.
AtTool ==
  /\ phase \in {"pause", "resume"} => at \in 1..Len(Imaps)
  /\ phase = "check" => at = 1
  /\ waiting => phase \in {"pause", "resume"}
Awaited ==
  /\ state \in {"running", "stopped", "stopping"} => phase \in {"none", "open"}
  /\ answer # "none" => waiting
OnTheWay ==
  \A i \in ImapSet \ unheard : wire[i] # <<>> =>
    /\ waiting /\ answer = "none" /\ Imaps[at] = i
    /\ wire[i] = <<IF phase = "pause" THEN "stop" ELSE "start">>
Owing ==
  \A i \in owed \ unheard :
    /\ phase \notin {"none", "open"}
    /\ phase = "check" => i \in paused
    /\ phase = "pause" => i \in paused \/ (answer = "stopped" /\ Imaps[at] = i)
    /\ phase = "resume" =>
         /\ i \in paused
         /\ \E j \in at..Len(Imaps) : Imaps[j] = i /\ (answer # "none" => j # at)
StartInv == Awaited /\ OnTheWay /\ Owing
LifeInv == LifeTypeOK /\ AtTool /\ (state # "dead" => StartInv)

LEMMA ImapsAre ==
  /\ Len(Imaps) \in Nat /\ \A i \in 1..Len(Imaps) : Imaps[i] \in ImapSet
  /\ Imaps # <<>> => 1 \in 1..Len(Imaps)
  /\ Imaps = <<>> => ImapSet = {}
  /\ \A i \in ImapSet : \E j \in 1..Len(Imaps) : Imaps[j] = i
BY LifeAssumption DEF ImapSet

\* The tool after this one, or the phase after this one with the first.
LEMMA NextToolIs ==
  ASSUME LifeTypeOK, AtTool, phase \in {"pause", "resume"},
         NEW next \in {"check", "open"}, NextTool(next)
  PROVE  /\ waiting' = FALSE /\ answer' = "none" /\ at' \in Nat /\ AtTool'
         /\ \/ at < Len(Imaps) /\ at' = at + 1 /\ phase' = phase
            \/ at = Len(Imaps) /\ at' = 1 /\ phase' = next
<1>1. at \in 1..Len(Imaps) /\ Len(Imaps) \in Nat
  BY ImapsAre DEF AtTool
<1>2. /\ waiting' = FALSE /\ answer' = "none"
      /\ \/ at < Len(Imaps) /\ at' = at + 1 /\ phase' = phase
         \/ at = Len(Imaps) /\ at' = 1 /\ phase' = next
  BY <1>1 DEF NextTool
<1> QED BY <1>1, <1>2 DEF AtTool

\* The types, and whose turn it is, whether the gateway is still there or not.
LEMMA LifeTypes == LifeInv /\ [LifeNext]_lifeVars => LifeTypeOK' /\ AtTool'
<1> SUFFICES ASSUME LifeInv, [LifeNext]_lifeVars PROVE LifeTypeOK' /\ AtTool'
  OBVIOUS
<1>1. LifeTypeOK /\ AtTool
  BY DEF LifeInv
<1> USE DEF LifeTypeOK
<1>2. ASSUME NEW request \in {"stop", "start"}, phase \in {"pause", "resume"}, Ask(request)
      PROVE  LifeTypeOK' /\ AtTool'
  <2>1. wire' \in [ImapSet -> Seq({"stop", "start"})]
    <3>1. Imaps[at] \in ImapSet
      BY <1>1, <1>2, ImapsAre DEF AtTool
    <3>2. wire[Imaps[at]] \in Seq({"stop", "start"})
      BY <1>1, <3>1
    <3>3. Append(wire[Imaps[at]], request) \in Seq({"stop", "start"})
      BY <3>2
    <3> QED BY <1>1, <1>2, <3>3 DEF Ask
  <2> QED BY <1>1, <1>2, <2>1 DEF Ask, AtTool
<1>3. CASE Pause \/ Resume
  BY <1>2, <1>3 DEF Pause, Resume
<1>4. ASSUME phase \in {"pause", "resume"}, NEW next \in {"check", "open"}, NextTool(next),
             UNCHANGED <<state, failing, wire, crawls, owed>>,
             paused' \cup unheard' \subseteq paused \cup unheard \cup {Imaps[at]}
      PROVE  LifeTypeOK' /\ AtTool'
  <2>1. /\ waiting' = FALSE /\ answer' = "none" /\ at' \in Nat /\ AtTool'
        /\ phase' \in {phase, next}
    BY <1>1, <1>4, NextToolIs
  <2>2. Imaps[at] \in ImapSet
    BY <1>1, <1>4, ImapsAre DEF AtTool
  <2> QED BY <1>1, <1>4, <2>1, <2>2
<1>5. CASE PauseSkipped
  BY <1>4, <1>5 DEF PauseSkipped, Skip
<1>6. CASE PauseAnswered
  BY <1>4, <1>6 DEF PauseAnswered
<1>7. CASE RunsOut
  BY <1>1, <1>4, <1>7 DEF RunsOut, Skip, AtTool
<1>8. CASE ResumeSkipped
  BY <1>4, <1>8 DEF ResumeSkipped, Skip
<1>9. CASE ResumeAnswered
  <2>1. /\ phase = "resume" /\ NextTool("open") /\ UNCHANGED <<paused, unheard>>
        /\ UNCHANGED <<state, failing, wire, crawls, owed>>
    BY <1>9 DEF ResumeAnswered, Skip
  <2> QED BY <1>4, <2>1
<1>10. ASSUME NEW ok \in BOOLEAN, Probe(ok) PROVE LifeTypeOK' /\ AtTool'
  BY <1>1, <1>10, ImapsAre DEF Probe, AtTool
<1>11. ASSUME NEW ok \in BOOLEAN, Open(ok) PROVE LifeTypeOK' /\ AtTool'
  <2>1. /\ phase = "open"
        /\ UNCHANGED <<phase, failing, waiting, wire, answer, paused, crawls, owed, unheard>>
    BY <1>11 DEF Open, restVars
  <2>2. at' \in Nat
    <3>1. at \in Nat /\ at' \in {at + 1, 1}
      BY <1>1, <1>11 DEF Open
    <3> QED BY <3>1
  <2>3. state' \in {"stopped", "running", state}
    BY <1>11 DEF Open
  <2> QED BY <1>1, <2>1, <2>2, <2>3 DEF AtTool
<1>12. ASSUME NEW ok \in BOOLEAN, Close(ok) PROVE LifeTypeOK' /\ AtTool'
  <2>1. phase \in {"none", "open"} /\ ~waiting
    BY <1>1, <1>12 DEF LifeInv, StartInv, Awaited, AtTool, Close
  <2>2. UNCHANGED <<phase, failing, waiting, wire, answer, paused, crawls, owed, unheard>>
    BY <1>12 DEF Close, restVars
  <2>3. at' \in Nat
    <3>1. at \in Nat /\ at' = at + 1
      BY <1>1, <1>12 DEF Close
    <3> QED BY <3>1
  <2>4. state' \in {"dead", state}
    BY <1>12 DEF Close
  <2> QED BY <1>1, <2>1, <2>2, <2>3, <2>4 DEF AtTool
<1>13. ASSUME NEW i \in ImapSet, Serve(i) PROVE LifeTypeOK' /\ AtTool'
  <2>1. wire[i] \in Seq({"stop", "start"}) /\ wire[i] # <<>>
    BY <1>1, <1>13 DEF Serve
  <2>2. Tail(wire[i]) \in Seq({"stop", "start"})
    BY <2>1
  <2>3. wire' \in [ImapSet -> Seq({"stop", "start"})]
    BY <1>1, <1>13, <2>2 DEF Serve
  <2>4. /\ answer' \in {"none", "stopped", "not active", "started"}
        /\ crawls' \cup owed' \subseteq ImapSet
        /\ UNCHANGED <<state, phase, at, failing, waiting, paused, unheard>>
    BY <1>1, <1>13 DEF Serve
  <2> QED BY <1>1, <2>3, <2>4 DEF AtTool
<1>14. ASSUME NEW i \in ImapSet, CrawlEnds(i) PROVE LifeTypeOK' /\ AtTool'
  BY <1>1, <1>14 DEF CrawlEnds, AtTool
<1>15. CASE Start
  BY <1>1, <1>15, ImapsAre DEF Start, AtTool, restVars
<1>16. CASE Signal
  BY <1>1, <1>16, ImapsAre DEF Signal, AtTool, restVars
<1>17. CASE Quit \/ ForceExit
  <2>1. /\ state' = "dead"
        /\ UNCHANGED <<phase, at, failing, waiting, wire, answer, paused, crawls, owed, unheard>>
    BY <1>17 DEF Quit, ForceExit, restVars
  <2> QED BY <1>1, <2>1 DEF AtTool
<1>18. CASE UNCHANGED lifeVars
  BY <1>1, <1>18 DEF lifeVars, AtTool
<1> QED BY <1>3, <1>5, <1>6, <1>7, <1>8, <1>9, <1>10, <1>11, <1>12, <1>13, <1>14, <1>15,
           <1>16, <1>17, <1>18 DEF LifeNext

\* The next tool's turn has come: of this one nothing is owed, or it is unheard.
LEMMA NextToolKeeps ==
  ASSUME LifeInv, StartInv, LifeTypeOK', NEW next \in {"check", "open"}, NextTool(next),
         phase \in {"pause", "resume"}, next = IF phase = "pause" THEN "check" ELSE "open",
         UNCHANGED <<state, wire, owed>>, unheard \subseteq unheard',
         \A i \in ImapSet : wire[i] = <<>> \/ i \in unheard',
         phase = "pause" => \A i \in owed \ unheard' : i \in paused',
         phase = "resume" => UNCHANGED paused /\ (Imaps[at] \in owed => Imaps[at] \in unheard' \/ answer # "none")
  PROVE  StartInv'
<1>1. LifeTypeOK /\ AtTool /\ at \in 1..Len(Imaps) /\ Len(Imaps) \in Nat
  BY ImapsAre DEF LifeInv, AtTool
<1>2. /\ waiting' = FALSE /\ answer' = "none" /\ at' \in Nat /\ AtTool'
      /\ \/ at < Len(Imaps) /\ at' = at + 1 /\ phase' = phase
         \/ at = Len(Imaps) /\ at' = 1 /\ phase' = next
  BY <1>1, NextToolIs
<1>3. Awaited'
  <2>1. state \notin {"running", "stopped", "stopping"}
    BY DEF StartInv, Awaited
  <2> QED BY <1>2, <2>1 DEF Awaited
<1>4. OnTheWay'
  BY <1>2 DEF OnTheWay
<1>5. Owing'
  <2> SUFFICES ASSUME NEW i \in owed' \ unheard'
               PROVE  /\ phase' \notin {"none", "open"}
                      /\ phase' = "check" => i \in paused'
                      /\ phase' = "pause" => i \in paused'
                      /\ phase' = "resume" =>
                           /\ i \in paused' /\ \E j \in at'..Len(Imaps) : Imaps[j] = i
    BY <1>2 DEF Owing
  <2>1. i \in owed \ unheard
    OBVIOUS
  <2>2. CASE phase = "pause"
    BY <1>2, <2>1, <2>2
  <2>3. CASE phase = "resume"
    <3>1. PICK j \in at..Len(Imaps) : Imaps[j] = i /\ (answer # "none" => j # at) /\ i \in paused
      BY <2>1, <2>3 DEF StartInv, Owing
    <3>2. j # at
      BY <2>1, <2>3, <3>1
    <3>3. j \in (at + 1)..Len(Imaps) /\ at < Len(Imaps)
      BY <1>1, <3>1, <3>2
    <3> QED BY <1>1, <1>2, <2>3, <3>1, <3>3
  <2> QED BY <2>2, <2>3
<1> QED BY <1>3, <1>4, <1>5 DEF StartInv

\* A request goes out: nothing else is on the way to that tool, if it is heard.
LEMMA AskKeeps ==
  ASSUME LifeInv, StartInv, state = "starting", ~waiting, phase \in {"pause", "resume"},
         NEW request \in {"stop", "start"}, request = IF phase = "pause" THEN "stop" ELSE "start",
         Ask(request)
  PROVE  StartInv'
<1>1. /\ waiting' = TRUE /\ wire' = [wire EXCEPT ![Imaps[at]] = Append(@, request)]
      /\ UNCHANGED <<state, phase, at, failing, answer, paused, crawls, owed, unheard>>
      /\ answer = "none" /\ wire \in [ImapSet -> Seq({"stop", "start"})]
  BY DEF Ask, LifeInv, LifeTypeOK, StartInv, Awaited
<1>2. \A i \in ImapSet \ unheard : wire[i] = <<>>
  BY DEF StartInv, OnTheWay
<1>3. OnTheWay'
  <2> SUFFICES ASSUME NEW i \in ImapSet \ unheard, wire'[i] # <<>>
               PROVE  Imaps[at] = i /\ wire'[i] = <<request>>
    BY <1>1 DEF OnTheWay
  <2>1. Imaps[at] = i
    BY <1>1, <1>2
  <2>2. wire'[i] = Append(<<>>, request)
    BY <1>1, <1>2, <2>1
  <2> QED BY <2>1, <2>2
<1>4. Owing' /\ Awaited'
  BY <1>1 DEF StartInv, Owing, Awaited
<1> QED BY <1>3, <1>4 DEF StartInv

\* A tool serves a request: of a tool that is heard it is the one that is awaited.
LEMMA ServeKeeps ==
  ASSUME LifeInv, StartInv, NEW i \in ImapSet, Serve(i)
  PROVE  StartInv'
<1>1. /\ wire[i] # <<>> /\ wire \in [ImapSet -> Seq({"stop", "start"})]
      /\ wire' = [wire EXCEPT ![i] = Tail(@)]
      /\ UNCHANGED <<state, phase, at, failing, waiting, paused, unheard>>
      /\ answer' = answer \/ (waiting /\ Imaps[at] = i)
  BY DEF Serve, LifeInv, LifeTypeOK
<1>2. Awaited'
  BY <1>1 DEF StartInv, Awaited
<1>3. OnTheWay'
  <2> SUFFICES ASSUME NEW k \in ImapSet \ unheard, wire'[k] # <<>>
               PROVE  /\ waiting /\ answer' = "none" /\ Imaps[at] = k
                      /\ wire'[k] = <<IF phase = "pause" THEN "stop" ELSE "start">>
    BY <1>1 DEF OnTheWay
  <2>1. k # i
    <3>1. k = i => wire[i] = <<IF phase = "pause" THEN "stop" ELSE "start">>
      BY <1>1 DEF StartInv, OnTheWay
    <3>2. k = i => wire'[k] = <<>>
      BY <1>1, <3>1
    <3> QED BY <3>2
  <2>2. wire'[k] = wire[k]
    BY <1>1, <2>1
  <2>3. /\ waiting /\ answer = "none" /\ Imaps[at] = k
        /\ wire[k] = <<IF phase = "pause" THEN "stop" ELSE "start">>
    BY <2>2 DEF StartInv, OnTheWay
  <2> QED BY <1>1, <2>1, <2>2, <2>3
<1>4. \A k \in owed : k \in owed' \/ k = i
  BY DEF Serve
<1>5. ASSUME NEW k \in owed' \ unheard, k # i
      PROVE  /\ phase \notin {"none", "open"}
             /\ phase = "check" => k \in paused
             /\ phase = "pause" => k \in paused \/ (answer' = "stopped" /\ Imaps[at] = k)
             /\ phase = "resume" =>
                  /\ k \in paused
                  /\ \E j \in at..Len(Imaps) : Imaps[j] = k /\ (answer' # "none" => j # at)
  <2>1. k \in owed \ unheard
    BY <1>5 DEF Serve
  <2>2. /\ phase \notin {"none", "open"}
        /\ phase = "check" => k \in paused
        /\ phase = "pause" => k \in paused \/ (answer = "stopped" /\ Imaps[at] = k)
        /\ phase = "resume" =>
             /\ k \in paused
             /\ \E j \in at..Len(Imaps) : Imaps[j] = k /\ (answer # "none" => j # at)
    BY <2>1 DEF StartInv, Owing
  <2>3. CASE answer' = answer
    BY <2>2, <2>3
  <2>4. CASE waiting /\ Imaps[at] = i
    BY <1>5, <2>2, <2>4
  <2> QED BY <1>1, <2>3, <2>4
<1>6. ASSUME i \in owed' \ unheard
      PROVE  phase = "pause" /\ (i \in paused \/ (answer' = "stopped" /\ Imaps[at] = i))
  <2>1. /\ waiting /\ answer = "none" /\ Imaps[at] = i
        /\ wire[i] = <<IF phase = "pause" THEN "stop" ELSE "start">>
    BY <1>1, <1>6 DEF StartInv, OnTheWay
  <2>2. Len(wire[i]) = 1 /\ Head(wire[i]) = IF phase = "pause" THEN "stop" ELSE "start"
    BY <2>1
  <2>3. phase \in {"pause", "resume"}
    BY <2>1 DEF LifeInv, AtTool
  <2>4. CASE phase = "resume"
    <3>1. owed' = owed \ {i}
      BY <2>2, <2>4 DEF Serve
    <3> QED BY <1>6, <3>1
  <2>5. CASE phase = "pause" /\ i \in crawls
    BY <2>1, <2>2, <2>5 DEF Serve
  <2>6. CASE phase = "pause" /\ i \notin crawls
    <3>1. i \in owed
      BY <1>6, <2>2, <2>6 DEF Serve
    <3> QED BY <1>6, <2>1, <2>6, <3>1 DEF StartInv, Owing
  <2> QED BY <2>3, <2>4, <2>5, <2>6
<1>7. Owing'
  BY <1>1, <1>5, <1>6 DEF Owing
<1> QED BY <1>2, <1>3, <1>7 DEF StartInv

LEMMA LifeGoesOn == LifeInv /\ [LifeNext]_lifeVars => LifeInv'
<1> SUFFICES ASSUME LifeInv, [LifeNext]_lifeVars, state' # "dead" PROVE StartInv'
  BY LifeTypes DEF LifeInv
<1>1. LifeTypeOK' /\ AtTool' /\ LifeTypeOK /\ AtTool
  BY LifeTypes DEF LifeInv
<1>2. state # "dead"
  BY DEF LifeNext, Start, Pause, PauseSkipped, PauseAnswered, RunsOut, Resume, ResumeSkipped,
         ResumeAnswered, Probe, Open, Close, Serve, CrawlEnds, Signal, Quit, ForceExit, Skip, Ask,
         lifeVars
<1>3. StartInv /\ Awaited /\ OnTheWay /\ Owing
  BY <1>2 DEF LifeInv, StartInv
<1>4. CASE Pause \/ Resume
  BY <1>3, <1>4, AskKeeps DEF Pause, Resume
<1>5. CASE PauseSkipped
  <2>1. ~waiting /\ NextTool("check") /\ phase = "pause" /\ UNCHANGED <<state, wire, owed, unheard, paused>>
    BY <1>5 DEF PauseSkipped, Skip
  <2>2. answer = "none" /\ \A i \in ImapSet \ unheard : wire[i] = <<>>
    BY <1>3, <2>1 DEF Awaited, OnTheWay
  <2>3. \A i \in owed \ unheard : i \in paused
    BY <1>3, <2>1, <2>2 DEF Owing
  <2> QED BY <1>1, <1>3, <2>1, <2>2, <2>3, NextToolKeeps
<1>6. CASE PauseAnswered
  <2>1. /\ waiting /\ answer # "none" /\ NextTool("check") /\ phase = "pause"
        /\ UNCHANGED <<state, wire, owed, unheard>>
        /\ paused' = IF answer = "stopped" THEN paused \cup {Imaps[at]} ELSE paused
    BY <1>6 DEF PauseAnswered
  <2>2. \A i \in ImapSet \ unheard : wire[i] = <<>>
    BY <1>3, <2>1 DEF OnTheWay
  <2>3. \A i \in owed \ unheard : i \in paused'
    BY <1>3, <2>1 DEF Owing
  <2> QED BY <1>1, <1>3, <2>1, <2>2, <2>3, NextToolKeeps
<1>7. CASE RunsOut
  <2>1. /\ waiting /\ answer = "none" /\ unheard' = unheard \cup {Imaps[at]}
        /\ phase \in {"pause", "resume"} /\ UNCHANGED <<state, wire, owed, paused>>
        /\ NextTool(IF phase = "pause" THEN "check" ELSE "open")
    BY <1>1, <1>7 DEF RunsOut, Skip, AtTool
  <2>2. \A i \in ImapSet \ unheard' : wire[i] = <<>>
    BY <1>3, <2>1 DEF OnTheWay
  <2>3. phase = "pause" => \A i \in owed \ unheard' : i \in paused
    BY <1>3, <2>1 DEF Owing
  <2> QED BY <1>1, <1>3, <2>1, <2>2, <2>3, NextToolKeeps
<1>8. CASE ResumeSkipped
  <2>1. /\ ~waiting /\ NextTool("open") /\ phase = "resume" /\ UNCHANGED <<state, wire, owed, paused>>
        /\ unheard' = IF Imaps[at] \in paused THEN unheard \cup {Imaps[at]} ELSE unheard
    BY <1>8 DEF ResumeSkipped, Skip
  <2>2. \A i \in ImapSet \ unheard' : wire[i] = <<>>
    BY <1>3, <2>1 DEF OnTheWay
  <2>3. Imaps[at] \in owed => Imaps[at] \in unheard'
    BY <1>3, <2>1 DEF Owing
  <2> QED BY <1>1, <1>3, <2>1, <2>2, <2>3, NextToolKeeps
<1>9. CASE ResumeAnswered
  <2>1. /\ waiting /\ answer # "none" /\ NextTool("open") /\ phase = "resume"
        /\ UNCHANGED <<state, wire, owed, paused, unheard>>
    BY <1>9 DEF ResumeAnswered, Skip
  <2>2. \A i \in ImapSet \ unheard : wire[i] = <<>>
    BY <1>3, <2>1 DEF OnTheWay
  <2> QED BY <1>1, <1>3, <2>1, <2>2, NextToolKeeps
<1>10. ASSUME NEW ok \in BOOLEAN, Probe(ok) PROVE StartInv'
  <2>1. /\ phase = "check" /\ state = "starting" /\ at = 1
        /\ phase' = IF Imaps = <<>> THEN "open" ELSE "resume"
        /\ UNCHANGED <<state, at, waiting, wire, answer, paused, crawls, owed, unheard>>
    BY <1>1, <1>10 DEF Probe, AtTool
  <2>2. ~waiting /\ answer = "none"
    BY <1>1, <1>3, <2>1 DEF AtTool, Awaited
  <2>3. \A i \in owed \ unheard : i \in paused /\ i \in ImapSet
    BY <1>1, <1>3, <2>1 DEF Owing, LifeTypeOK
  <2>4. Owing'
    BY <2>1, <2>2, <2>3, ImapsAre DEF Owing
  <2> QED BY <1>3, <2>1, <2>2, <2>4 DEF StartInv, Awaited, OnTheWay
<1>11. ASSUME NEW ok \in BOOLEAN, Open(ok) \/ Close(ok) PROVE StartInv'
  <2>1. /\ phase \in {"none", "open"} /\ UNCHANGED <<phase, waiting, wire, answer, paused, owed, unheard>>
    BY <1>3, <1>11 DEF Open, Close, Awaited, restVars
  <2>2. ~waiting
    BY <1>1, <2>1 DEF AtTool
  <2> QED BY <1>3, <2>1, <2>2 DEF StartInv, Awaited, OnTheWay, Owing
<1>12. ASSUME NEW i \in ImapSet, Serve(i) PROVE StartInv'
  BY <1>3, <1>12, ServeKeeps
<1>13. ASSUME NEW i \in ImapSet, CrawlEnds(i) PROVE StartInv'
  BY <1>3, <1>13 DEF CrawlEnds, StartInv, Awaited, OnTheWay, Owing
<1>14. CASE Start
  <2>1. /\ phase = "none" /\ state' = "starting" /\ phase' \in {"check", "pause"}
        /\ UNCHANGED <<waiting, wire, answer, paused, owed, unheard>>
    BY <1>14 DEF Start, restVars
  <2>2. ~waiting /\ owed \ unheard = {}
    BY <1>1, <1>3, <2>1 DEF AtTool, Owing
  <2> QED BY <1>3, <2>1, <2>2 DEF StartInv, Awaited, OnTheWay, Owing
<1>15. CASE Signal
  <2>1. /\ state = "running" /\ UNCHANGED <<phase, waiting, wire, answer, paused, owed, unheard>>
    BY <1>15 DEF Signal, restVars
  <2>2. phase \in {"none", "open"} /\ ~waiting
    BY <1>1, <1>3, <2>1 DEF Awaited, AtTool
  <2> QED BY <1>3, <2>1, <2>2 DEF StartInv, Awaited, OnTheWay, Owing
<1>16. CASE Quit \/ ForceExit
  BY <1>16 DEF Quit, ForceExit
<1>17. CASE UNCHANGED lifeVars
  BY <1>3, <1>17 DEF lifeVars, StartInv, Awaited, OnTheWay, Owing
<1> QED BY <1>4, <1>5, <1>6, <1>7, <1>8, <1>9, <1>10, <1>11, <1>12, <1>13, <1>14, <1>15,
           <1>16, <1>17 DEF LifeNext

LEMMA LifeStart == LifeInit => LifeInv
<1> SUFFICES ASSUME LifeInit PROVE LifeInv
  OBVIOUS
<1>1. /\ state = "stopped" /\ phase = "none" /\ at = 1 /\ failing = FALSE /\ waiting = FALSE
      /\ wire = [i \in ImapSet |-> <<>>] /\ answer = "none" /\ paused = {}
      /\ crawls \subseteq ImapSet /\ owed = {} /\ unheard = {}
  BY DEF LifeInit
<1>2. LifeTypeOK
  <2>1. wire \in [ImapSet -> Seq({"stop", "start"})]
    BY <1>1
  <2> QED BY <1>1, <2>1 DEF LifeTypeOK
<1>3. AtTool /\ StartInv
  BY <1>1 DEF AtTool, StartInv, Awaited, OnTheWay, Owing
<1> QED BY <1>2, <1>3 DEF LifeInv

\* Once the gateway runs, or its start has failed, every crawl that the start has
\* stopped has been started again, unless a call to its tool failed or came too
\* late, whatever the tools do and whenever their crawls end
\* (pauseImapCrawlsForHealthChecks).
THEOREM LifeIsCorrect == LifeSpec => []LifeCorrect
<1>1. LifeInv => LifeCorrect
  <2> SUFFICES ASSUME LifeInv, state \in {"running", "stopped"}, NEW i \in owed, i \notin unheard
               PROVE  FALSE
    BY DEF CrawlsAreResumed, LifeCorrect, LifeInv
  <2> QED BY DEF LifeInv, StartInv, Awaited, Owing
<1> QED BY <1>1, LifeStart, LifeGoesOn, PTL DEF LifeSpec

-----------------------------------------------------------------------------
(* The channels beside the web (Channels)                                  *)

\* A bounded set of numbers that is not empty has a largest element.
LEMMA LargestExists ==
  ASSUME NEW n \in Nat, NEW S \in SUBSET (0..n), S # {}
  PROVE  \E i \in S : \A j \in S : j <= i
<1> DEFINE T == {m \in Nat : \E i \in S : m = n - i}
<1>1. T # {} /\ T \subseteq Nat
  <2>1. PICK i \in S : TRUE
    OBVIOUS
  <2>2. n - i \in T
    OBVIOUS
  <2> QED BY <2>2
<1> HIDE DEF T
<1>2. OpToRel(<, Nat) = {ss \in Nat \X Nat : ss[1] < ss[2]}
  BY Zenon DEF OpToRel
<1>3. IsWellFoundedOn({ss \in Nat \X Nat : ss[1] < ss[2]}, Nat)
  BY <1>2, NatLessThanWellFounded, Zenon
<1>4. PICK m \in T : \A k \in T : ~ (<<k, m>> \in {ss \in Nat \X Nat : ss[1] < ss[2]})
  BY <1>1, <1>3, WFMin
<1>5. ASSUME NEW k \in T PROVE m <= k
  <2>1. k \in Nat /\ m \in Nat /\ <<k, m>> \in Nat \X Nat
    BY <1>1
  <2>2. ~ (<<k, m>>[1] < <<k, m>>[2])
    BY <1>4, <2>1
  <2> QED BY <2>1, <2>2
<1> USE DEF T
<1>6. PICK i \in S : m = n - i
  OBVIOUS
<1>7. \A j \in S : n - j \in T
  OBVIOUS
<1> QED BY <1>5, <1>6, <1>7

\* A piece of a sequence.
LEMMA PieceOf ==
  ASSUME NEW L, NEW s \in Seq(L), NEW m \in 1..(Len(s) + 1), NEW n \in (m - 1)..Len(s)
  PROVE  /\ SubSeq(s, m, n) \in Seq(L)
         /\ Len(SubSeq(s, m, n)) = n - m + 1
         /\ \A i \in 1..(n - m + 1) : SubSeq(s, m, n)[i] = s[m + i - 1]
<1>1. Len(s) \in Nat /\ \A i \in 1..Len(s) : s[i] \in L
  BY LenProperties, ElementOfSeq
<1>2. \A i \in m..n : s[i] \in L
  BY <1>1
<1>3. m \in Int /\ n \in Int /\ n - m + 1 >= 0
  BY <1>1
<1> QED BY <1>2, <1>3, SubSeqProperties

\* The maps of BlueBubbles: every current conversation knows its chat, and a
\* conversation that knows a chat is its current one.
MapsFit(current, chats, now) ==
  /\ now \in Nat
  /\ current \in [Guids -> [conversation : Nat, last : Nat]]
  /\ chats \in Seq(Guids \cup {"none"})
  /\ \A g \in Guids : /\ current[g].conversation # 0 =>
                           /\ current[g].conversation \in DOMAIN chats
                           /\ chats[current[g].conversation] = g
  /\ \A c \in DOMAIN chats : chats[c] # "none" => current[chats[c]].conversation = c

\* A turn that goes on is of a conversation that had its chat: it is still that chat's
\* as long as the time of silence has not passed since the turn began.
TurnFits(going, current, chats, now) ==
  /\ going \in [conversation : Nat, chat : Guids, at : Nat]
  /\ going.at <= now /\ going.conversation \in DOMAIN chats
  /\ chats[going.conversation] \in {going.chat, "none"}
  /\ now - going.at < Ttl =>
       current[going.chat].conversation = going.conversation /\ going.at <= current[going.chat].last

\* What is known of a text on its way to Telegram while it is cut.
CutFits(t) ==
  /\ t.text \in Seq({Newline, "x"}) /\ t.rest \in Seq({Newline, "x"})
  /\ t.parts \in Seq(Seq({Newline, "x"})) /\ t.from \in Seq(Nat)
  /\ Len(t.from) = Len(t.parts) + 1
  /\ t.from[Len(t.from)] \in 1..Len(t.text) + 1

\* The invariant of the channels.
ChannelsInv ==
  /\ MapsFit(conversationMap, conversationToChatGuid, clock)
  /\ \A going \in blueTurns : TurnFits(going, conversationMap, conversationToChatGuid, clock)
  /\ RepliesReachChat /\ RepliesInTime /\ TextArrives
  /\ DOMAIN telegramSent = DOMAIN NoText /\ CutFits(telegramSent) /\ PartsAreWhole
  /\ cliTurns \in {0, 1} /\ (cliTurns = 1 => processing)

\* The maps are inverse where they fit.
LEMMA FittingMapsInverse ==
  ASSUME MapsFit(conversationMap, conversationToChatGuid, clock)
  PROVE  MapsInverse
<1>. SUFFICES ASSUME NEW c \in DOMAIN conversationToChatGuid
              PROVE  LET chat == conversationToChatGuid[c] IN
                     IF chat = "none" THEN \A g \in Guids : conversationMap[g].conversation # c
                     ELSE conversationMap[chat].conversation = c
  BY DEF MapsInverse
<1>1. c # 0
  BY LenProperties DEF MapsFit
<1>2. "none" \notin Guids
  BY ChannelsAssumption
<1>. QED
  BY <1>1, <1>2 DEF MapsFit

LEMMA ChannelsStart == ChannelsInit => ChannelsInv
<1>. SUFFICES ASSUME ChannelsInit
              PROVE  ChannelsInv
  OBVIOUS
<1>1. MapsFit(conversationMap, conversationToChatGuid, clock)
  BY DEF ChannelsInit, MapsFit, NoChat
<1>2. RepliesReachChat /\ RepliesInTime /\ TextArrives
  BY DEF ChannelsInit, RepliesReachChat, RepliesInTime, TextArrives
<1>3. CutFits(telegramSent)
  <2>1. << >> \in Seq({Newline, "x"}) /\ << >> \in Seq(Seq({Newline, "x"})) /\ <<1>> \in Seq(Nat)
    OBVIOUS
  <2>. QED
    BY <2>1 DEF ChannelsInit, CutFits, NoText
<1>4. PartsAreWhole
  BY DEF ChannelsInit, PartsAreWhole, NoText
<1>. QED
  BY <1>1, <1>2, <1>3, <1>4 DEF ChannelsInv, ChannelsInit

\* A message joins its chat's conversation, or begins a new one.
LEMMA MessageFits ==
  ASSUME NEW chat \in Guids, HandleWebhook(chat), ChannelsInv
  PROVE  /\ MapsFit(conversationMap', conversationToChatGuid', clock')
         /\ \A going \in blueTurns' : TurnFits(going, conversationMap', conversationToChatGuid', clock')
<1>. DEFINE c == ResolvedConversation(chat)
            entry == conversationMap[chat]
            n == Len(conversationToChatGuid)
<1>1. /\ MapsFit(conversationMap, conversationToChatGuid, clock) /\ n \in Nat
      /\ clock' = clock /\ clock \in Nat /\ entry \in [conversation : Nat, last : Nat]
      /\ DOMAIN conversationToChatGuid = 1..n
  BY DEF ChannelsInv, MapsFit, HandleWebhook
<1>2. "none" \notin Guids
  BY ChannelsAssumption
<1>3. conversationMap' = [conversationMap EXCEPT ![chat] = [conversation |-> c, last |-> clock]]
  BY DEF HandleWebhook
<1>4. CASE c <= n
  <2>1. c = entry.conversation /\ c # 0
    BY <1>1, <1>4 DEF ResolvedConversation
  <2>2. conversationToChatGuid' = conversationToChatGuid
    BY <1>4 DEF HandleWebhook
  <2>3. conversationToChatGuid[c] = chat /\ c \in 1..n
    BY <1>1, <2>1 DEF MapsFit
  <2>4. \A g \in Guids : conversationMap'[g].conversation = conversationMap[g].conversation
    BY <1>1, <1>3, <2>1 DEF MapsFit
  <2>5. conversationMap' \in [Guids -> [conversation : Nat, last : Nat]]
    BY <1>1, <1>3, <2>3 DEF MapsFit
  <2>6. MapsFit(conversationMap', conversationToChatGuid', clock')
    <3>1. \A k \in DOMAIN conversationToChatGuid : conversationToChatGuid[k] # "none" =>
            conversationToChatGuid[k] \in Guids
      BY <1>1 DEF MapsFit
    <3>. QED
      BY <1>1, <2>2, <2>4, <2>5, <3>1 DEF MapsFit
  <2>7. ASSUME NEW going \in blueTurns'
        PROVE  TurnFits(going, conversationMap', conversationToChatGuid', clock')
    <3>1. CASE going \in blueTurns
      <4>1. TurnFits(going, conversationMap, conversationToChatGuid, clock)
        BY <3>1 DEF ChannelsInv
      <4>2. going.at <= conversationMap[going.chat].last => going.at <= conversationMap'[going.chat].last
        BY <1>1, <1>3, <4>1 DEF TurnFits, MapsFit
      <4>. QED
        BY <1>1, <2>2, <2>4, <4>1, <4>2 DEF TurnFits
    <3>2. CASE going = [conversation |-> c, chat |-> chat, at |-> clock]
      <4>1. conversationMap'[chat] = [conversation |-> c, last |-> clock]
        BY <1>1, <1>3 DEF MapsFit
      <4>2. going \in [conversation : Nat, chat : Guids, at : Nat] /\ going.at = clock /\ going.chat = chat
            /\ going.conversation = c
        BY <1>1, <2>3, <3>2
      <4>. QED
        BY <1>1, <2>2, <2>3, <4>1, <4>2 DEF TurnFits
    <3>. QED
      BY <3>1, <3>2 DEF HandleWebhook
  <2>. QED
    BY <2>6, <2>7
<1>5. CASE ~(c <= n)
  <2>1. c = n + 1 /\ (entry.conversation = 0 \/ Stale(entry))
    <3>1. entry.conversation # 0 => entry.conversation \in 1..n
      BY <1>1 DEF MapsFit
    <3>. QED
      BY <1>1, <1>5, <3>1 DEF ResolvedConversation
  <2>. DEFINE chats == [k \in DOMAIN conversationToChatGuid |->
                          IF k = entry.conversation THEN "none" ELSE conversationToChatGuid[k]]
  <2>2. conversationToChatGuid' = Append(chats, chat)
    BY <1>5 DEF HandleWebhook, Renewed
  <2>3. chats \in Seq(Guids \cup {"none"}) /\ Len(chats) = n
    <3>1. \A k \in 1..n : conversationToChatGuid[k] \in Guids \cup {"none"}
      BY <1>1 DEF MapsFit
    <3>2. chats \in [1..n -> Guids \cup {"none"}]
      BY <1>1, <3>1
    <3>. QED
      BY <1>1, <3>2
  <2>4. \A k \in 1..n : conversationToChatGuid'[k] = IF k = entry.conversation THEN "none" ELSE conversationToChatGuid[k]
    BY <1>1, <2>2, <2>3
  <2>5. /\ conversationToChatGuid' \in Seq(Guids \cup {"none"}) /\ DOMAIN conversationToChatGuid' = 1..n + 1
        /\ conversationToChatGuid'[n + 1] = chat
    BY <1>1, <2>2, <2>3
  <2>. HIDE DEF chats
  <2>6. /\ conversationMap' \in [Guids -> [conversation : Nat, last : Nat]]
        /\ conversationMap'[chat] = [conversation |-> n + 1, last |-> clock]
        /\ \A g \in Guids \ {chat} : conversationMap'[g] = conversationMap[g]
    BY <1>1, <1>3, <2>1 DEF MapsFit
  <2>7. ASSUME NEW g \in Guids, conversationMap'[g].conversation # 0
        PROVE  /\ conversationMap'[g].conversation \in 1..n + 1
               /\ conversationToChatGuid'[conversationMap'[g].conversation] = g
    <3>1. CASE g = chat
      BY <1>1, <2>5, <2>6, <3>1
    <3>2. CASE g # chat
      <4>1. /\ conversationMap'[g] = conversationMap[g] /\ conversationMap[g].conversation \in 1..n
            /\ conversationToChatGuid[conversationMap[g].conversation] = g
        BY <1>1, <2>6, <2>7, <3>2 DEF MapsFit
      <4>2. conversationMap[g].conversation # entry.conversation
        <5>1. entry.conversation \in 1..n => conversationToChatGuid[entry.conversation] = chat
          BY <1>1 DEF MapsFit
        <5>. QED
          BY <3>2, <4>1, <5>1
      <4>. QED
        BY <1>1, <2>4, <4>1, <4>2
    <3>. QED
      BY <3>1, <3>2
  <2>8. ASSUME NEW k \in 1..n + 1, conversationToChatGuid'[k] # "none"
        PROVE  conversationMap'[conversationToChatGuid'[k]].conversation = k
    <3>1. CASE k = n + 1
      BY <2>5, <2>6, <3>1
    <3>2. CASE k \in 1..n
      <4>1. k # entry.conversation /\ conversationToChatGuid'[k] = conversationToChatGuid[k]
        BY <2>4, <2>8, <3>2
      <4>2. conversationToChatGuid[k] \in Guids /\ conversationMap[conversationToChatGuid[k]].conversation = k
        BY <1>1, <2>8, <3>2, <4>1 DEF MapsFit
      <4>3. conversationToChatGuid[k] # chat
        BY <4>1, <4>2
      <4>. QED
        BY <2>6, <4>1, <4>2, <4>3
    <3>. QED
      BY <1>1, <3>1, <3>2
  <2>9. MapsFit(conversationMap', conversationToChatGuid', clock')
    BY <1>1, <2>5, <2>6, <2>7, <2>8 DEF MapsFit
  <2>10. ASSUME NEW going \in blueTurns'
         PROVE  TurnFits(going, conversationMap', conversationToChatGuid', clock')
    <3>1. CASE going \in blueTurns
      <4>1. TurnFits(going, conversationMap, conversationToChatGuid, clock)
        BY <3>1 DEF ChannelsInv
      <4>2. /\ going.conversation \in 1..n /\ going.conversation \in 1..n + 1
            /\ conversationToChatGuid'[going.conversation] \in {going.chat, "none"}
        BY <1>1, <2>4, <4>1 DEF TurnFits
      <4>3. ASSUME clock - going.at < Ttl
            PROVE  going.chat # chat
        <5>1. SUFFICES ASSUME going.chat = chat
                       PROVE  FALSE
          OBVIOUS
        <5>2. entry.conversation = going.conversation /\ going.at <= entry.last /\ going.at \in Nat
          BY <4>1, <4>3, <5>1 DEF TurnFits
        <5>3. Stale(entry)
          BY <2>1, <4>2, <5>2
        <5>4. clock - entry.last >= Ttl
          BY <5>3 DEF Stale
        <5>5. Ttl \in Nat /\ entry.last \in Nat
          BY <1>1, ChannelsAssumption
        <5>. QED
          BY <1>1, <4>3, <5>2, <5>4, <5>5
      <4>4. clock - going.at < Ttl => conversationMap'[going.chat] = conversationMap[going.chat]
        BY <2>6, <4>1, <4>3 DEF TurnFits
      <4>. QED
        BY <1>1, <2>5, <4>1, <4>2, <4>4 DEF TurnFits
    <3>2. CASE going = [conversation |-> c, chat |-> chat, at |-> clock]
      <4>1. going \in [conversation : Nat, chat : Guids, at : Nat] /\ going.at = clock /\ going.chat = chat
            /\ going.conversation = n + 1
        BY <1>1, <2>1, <3>2
      <4>. QED
        BY <1>1, <2>5, <2>6, <4>1 DEF TurnFits
    <3>. QED
      BY <3>1, <3>2 DEF HandleWebhook
  <2>. QED
    BY <2>9, <2>10
<1>. QED
  BY <1>4, <1>5

\* An eviction takes the conversations that have been silent, and no other.
LEMMA EvictionFits ==
  ASSUME EvictStale, ChannelsInv
  PROVE  /\ MapsFit(conversationMap', conversationToChatGuid', clock')
         /\ \A going \in blueTurns' : TurnFits(going, conversationMap', conversationToChatGuid', clock')
<1>. DEFINE n == Len(conversationToChatGuid)
            Over(k) == \E chat \in Guids : Stale(conversationMap[chat]) /\ conversationMap[chat].conversation = k
<1>1. /\ MapsFit(conversationMap, conversationToChatGuid, clock) /\ n \in Nat
      /\ clock' = clock /\ clock \in Nat
      /\ DOMAIN conversationToChatGuid = 1..n
  BY DEF ChannelsInv, MapsFit, EvictStale
<1>2. "none" \notin Guids
  BY ChannelsAssumption
<1>3. \A g \in Guids : conversationMap'[g] = IF Stale(conversationMap[g]) THEN NoChat ELSE conversationMap[g]
  BY DEF EvictStale
<1>4. conversationMap' \in [Guids -> [conversation : Nat, last : Nat]]
  BY <1>1, <1>3 DEF EvictStale, MapsFit, NoChat
<1>5. /\ DOMAIN conversationToChatGuid' = 1..n
      /\ \A k \in 1..n : conversationToChatGuid'[k] = IF Over(k) THEN "none" ELSE conversationToChatGuid[k]
  BY <1>1 DEF EvictStale
<1>6. conversationToChatGuid' \in Seq(Guids \cup {"none"})
  <2>1. \A k \in 1..n : conversationToChatGuid[k] \in Guids \cup {"none"}
    BY <1>1 DEF MapsFit
  <2>2. conversationToChatGuid' \in [1..n -> Guids \cup {"none"}]
    BY <1>1, <2>1 DEF EvictStale
  <2>. QED
    BY <1>1, <2>2
<1>7. \A g \in Guids : conversationMap[g].conversation # 0 =>
        /\ conversationMap[g].conversation \in 1..n /\ conversationToChatGuid[conversationMap[g].conversation] = g
        /\ (Over(conversationMap[g].conversation) => Stale(conversationMap[g]))
  <2>1. \A g \in Guids : conversationMap[g].conversation # 0 =>
          conversationMap[g].conversation \in 1..n /\ conversationToChatGuid[conversationMap[g].conversation] = g
    BY <1>1 DEF MapsFit
  <2>. QED
    BY <2>1
<1>8. NoChat.conversation = 0
  BY DEF NoChat
<1>9. ASSUME NEW g \in Guids, conversationMap'[g].conversation # 0
      PROVE  /\ conversationMap'[g].conversation \in 1..n
             /\ conversationToChatGuid'[conversationMap'[g].conversation] = g
  <2>1. ~Stale(conversationMap[g]) /\ conversationMap'[g] = conversationMap[g]
    BY <1>3, <1>8, <1>9
  <2>. QED
    BY <1>5, <1>7, <1>9, <2>1
<1>10. ASSUME NEW k \in 1..n, conversationToChatGuid'[k] # "none"
       PROVE  conversationMap'[conversationToChatGuid'[k]].conversation = k
  <2>1. ~Over(k) /\ conversationToChatGuid'[k] = conversationToChatGuid[k]
    BY <1>5, <1>10
  <2>2. conversationToChatGuid[k] \in Guids /\ conversationMap[conversationToChatGuid[k]].conversation = k
    BY <1>1, <1>10, <2>1 DEF MapsFit
  <2>3. ~Stale(conversationMap[conversationToChatGuid[k]])
    BY <2>1, <2>2
  <2>. QED
    BY <1>3, <2>1, <2>2, <2>3
<1>11. MapsFit(conversationMap', conversationToChatGuid', clock')
  BY <1>1, <1>4, <1>5, <1>6, <1>9, <1>10 DEF MapsFit
<1>12. ASSUME NEW going \in blueTurns'
       PROVE  TurnFits(going, conversationMap', conversationToChatGuid', clock')
  <2>1. TurnFits(going, conversationMap, conversationToChatGuid, clock)
    BY DEF ChannelsInv, EvictStale
  <2>2. going.conversation \in 1..n /\ conversationToChatGuid'[going.conversation] \in {going.chat, "none"}
    BY <1>1, <1>5, <2>1 DEF TurnFits
  <2>3. ASSUME clock - going.at < Ttl
        PROVE  conversationMap'[going.chat] = conversationMap[going.chat]
    <3>1. /\ going.at <= conversationMap[going.chat].last /\ going.at \in Nat /\ going.chat \in Guids
          /\ conversationMap[going.chat].last \in Nat
      BY <1>1, <2>1, <2>3 DEF TurnFits, MapsFit
    <3>2. ~(clock - conversationMap[going.chat].last >= Ttl)
      <4>1. Ttl \in Nat
        BY ChannelsAssumption
      <4>. QED
        BY <1>1, <2>3, <3>1, <4>1
    <3>3. ~Stale(conversationMap[going.chat])
      BY <3>2 DEF Stale
    <3>. QED
      BY <1>3, <3>1, <3>3
  <2>. QED
    BY <1>1, <1>5, <2>1, <2>2, <2>3 DEF TurnFits
<1>. QED
  BY <1>11, <1>12

\* A reply: of a turn whose chat's conversation has not been silent it reaches that chat.
LEMMA ReplyArrives ==
  ASSUME NEW going \in blueTurns, NEW fates \in Fates, NEW accepted \in BOOLEAN,
         BlueReply(going, fates, accepted), ChannelsInv
  PROVE  RepliesReachChat' /\ RepliesInTime' /\ TextArrives'
<1>. DEFINE to == ChatOf(going.conversation)
            silent == going.conversation # conversationMap[going.chat].conversation \/ Stale(conversationMap[going.chat])
            texts == TextWithItems(fates) + (IF SentAlone(fates) /\ accepted THEN 1 ELSE 0)
            again == SentAlone(fates) /\ TextWithItems(fates) = 1
            failed == SentAlone(fates) /\ ~accepted
<1>1. /\ blueSent'.to = to /\ blueSent'.turn = going /\ blueSent'.at = clock /\ blueSent'.silent = silent
      /\ blueSent'.texts = texts /\ blueSent'.again = again /\ blueSent'.failed = failed
  BY DEF BlueReply
<1>2. /\ MapsFit(conversationMap, conversationToChatGuid, clock)
      /\ TurnFits(going, conversationMap, conversationToChatGuid, clock)
  BY DEF ChannelsInv
<1>3. going.chat \in Guids /\ going.chat # "none" /\ going.conversation \in DOMAIN conversationToChatGuid
      /\ going.conversation # 0
  <2>1. DOMAIN conversationToChatGuid = 1..Len(conversationToChatGuid)
    BY <1>2, LenProperties DEF MapsFit
  <2>2. going.chat \in Guids /\ going.conversation \in DOMAIN conversationToChatGuid
    BY <1>2 DEF TurnFits
  <2>3. going.conversation # 0
    <3>. HIDE DEF MapsFit
    <3>1. Len(conversationToChatGuid) \in Nat
      BY <1>2, LenProperties DEF MapsFit
    <3>. QED
      BY <2>1, <2>2, <3>1
  <2>4. going.chat # "none"
    BY <2>2, ChannelsAssumption
  <2>. QED
    BY <2>2, <2>3, <2>4
<1>4. ~silent => to = going.chat
  BY <1>2, <1>3 DEF MapsFit, ChatOf
<1>5. to \in {going.chat, "no such chat"}
  BY <1>2 DEF TurnFits, ChatOf
<1>6. clock - going.at < Ttl => to = going.chat
  <2>1. clock - going.at < Ttl => conversationMap[going.chat].conversation = going.conversation
    BY <1>2 DEF TurnFits
  <2>2. conversationMap[going.chat].conversation = going.conversation =>
          conversationToChatGuid[going.conversation] = going.chat
    BY <1>2, <1>3 DEF MapsFit
  <2>. QED
    BY <1>3, <2>1, <2>2 DEF ChatOf
<1>7. TextWithItems(fates) \in {0, 1} /\ (~SentAlone(fates) => TextWithItems(fates) = 1)
  <2>1. ASSUME ~SentAlone(fates)
        PROVE  TextWithItems(fates) = 1
    <3>1. "sent" \in ToSet(fates) /\ "refused" \notin ToSet(fates)
      BY <2>1 DEF SentAlone
    <3>2. DOMAIN fates = 1..Len(fates)
      BY DEF Fates
    <3>3. {i \in 1..Len(fates) : fates[i] = "refused"} = {}
      BY <3>1, <3>2 DEF ToSet
    <3>4. SelectInSeq(fates, LAMBDA f : f = "refused") = 0
      BY <3>3 DEF SelectInSeq
    <3>5. Tried(fates) = fates
      BY <3>4 DEF Tried
    <3>. QED
      BY <3>1, <3>5 DEF TextWithItems
  <2>2. TextWithItems(fates) \in {0, 1}
    BY DEF TextWithItems
  <2>. QED
    BY <2>1, <2>2
<1>8. ~failed => texts >= 1 /\ (texts > 1 => again)
  <2>. HIDE DEF SentAlone
  <2>1. CASE SentAlone(fates) /\ accepted
    BY <1>7, <2>1
  <2>2. CASE ~SentAlone(fates)
    BY <1>7, <2>2
  <2>. QED
    BY <2>1, <2>2
<1>. HIDE DEF to, silent, texts, again, failed
<1>9. RepliesReachChat'
  BY <1>1, <1>4 DEF RepliesReachChat
<1>10. RepliesInTime'
  BY <1>1, <1>5, <1>6 DEF RepliesInTime
<1>11. TextArrives'
  BY <1>1, <1>8 DEF TextArrives
<1>. QED
  BY <1>9, <1>10, <1>11

\* Where a rest beyond the limit is cut: within it.
LEMMA CutWithin ==
  ASSUME NEW rest \in Seq({Newline, "x"}), Len(rest) > MaxLen
  PROVE  CutAt(rest) \in 1..MaxLen
<1>. DEFINE cut == {i \in 2..MaxLen + 1 : rest[i] = Newline}
<1>1. MaxLen \in Nat \ {0}
  BY ChannelsAssumption
<1>2. CASE cut = {}
  BY <1>1, <1>2 DEF CutAt
<1>3. CASE cut # {}
  <2>1. {j - 1 : j \in cut} \subseteq 1..MaxLen
    BY <1>1
  <2>2. PICK k \in {j - 1 : j \in cut} : \A l \in {j - 1 : j \in cut} : l <= k
    <3>1. {j - 1 : j \in cut} # {} /\ {j - 1 : j \in cut} \in SUBSET (0..MaxLen) /\ MaxLen \in Nat
      BY <1>1, <1>3, <2>1
    <3>. HIDE DEF cut
    <3>. QED
      BY <3>1, LargestExists
  <2>3. \A j \in cut : j - 1 <= k
    BY <2>2
  <2>4. CutAt(rest) \in {j - 1 : j \in cut}
    <3>1. CutAt(rest) = CHOOSE i \in {j - 1 : j \in cut} : \A j \in cut : j - 1 <= i
      BY <1>3 DEF CutAt
    <3>2. \E i \in {j - 1 : j \in cut} : \A j \in cut : j - 1 <= i
      BY <2>2, <2>3
    <3>. HIDE DEF cut
    <3>. QED
      BY <3>1, <3>2
  <2>. QED
    BY <2>1, <2>4
<1>. QED
  BY <1>2, <1>3

\* What a rest is cut into, as pieces of the text.
LEMMA PiecesOfRest ==
  ASSUME NEW L, NEW text \in Seq(L), NEW m \in Nat, m = Len(text), NEW b \in 1..m + 1,
         NEW rest, rest = SubSeq(text, b, m), NEW cut \in 0..Len(rest)
  PROVE  /\ Len(rest) = m - b + 1 /\ b + cut \in 1..m + 1
         /\ SubSeq(rest, 1, cut) = SubSeq(text, b, b + cut - 1)
         /\ SubSeq(rest, 1, cut) \in Seq(L) /\ Len(SubSeq(rest, 1, cut)) = cut
         /\ SubSeq(rest, cut + 1, Len(rest)) = SubSeq(text, b + cut, m)
         /\ SubSeq(rest, cut + 1, Len(rest)) \in Seq(L)
         /\ Len(SubSeq(rest, cut + 1, Len(rest))) = m - b + 1 - cut
<1>1. m \in b - 1..Len(text) /\ b \in 1..Len(text) + 1
  OBVIOUS
<1>2. rest \in Seq(L) /\ Len(rest) = m - b + 1 /\ \A i \in 1..m - b + 1 : rest[i] = text[b + i - 1]
  BY <1>1, PieceOf
<1>3. cut \in Nat /\ cut <= m - b + 1 /\ b + cut \in 1..m + 1
  BY <1>2
<1>. DEFINE front == SubSeq(rest, 1, cut)
            piece == SubSeq(text, b, b + cut - 1)
            tail == SubSeq(rest, cut + 1, Len(rest))
            back == SubSeq(text, b + cut, m)
<1>4. front \in Seq(L) /\ Len(front) = cut /\ \A i \in 1..cut : front[i] = rest[i]
  <2>1. 1 \in 1..Len(rest) + 1 /\ cut \in 1 - 1..Len(rest)
    BY <1>2, <1>3
  <2>. QED
    BY <1>2, <1>3, <2>1, PieceOf
<1>5. piece \in Seq(L) /\ Len(piece) = cut /\ \A i \in 1..cut : piece[i] = text[b + i - 1]
  <2>1. b + cut - 1 \in b - 1..Len(text) /\ (b + cut - 1) - b + 1 = cut
    BY <1>3
  <2>. QED
    BY ZenonT(60), <1>1, <2>1, PieceOf
<1>6. tail \in Seq(L) /\ Len(tail) = m - b + 1 - cut
      /\ \A i \in 1..m - b + 1 - cut : tail[i] = rest[cut + i]
  <2>1. cut + 1 \in 1..Len(rest) + 1 /\ Len(rest) \in (cut + 1) - 1..Len(rest)
        /\ Len(rest) - (cut + 1) + 1 = m - b + 1 - cut
    BY <1>2, <1>3
  <2>2. /\ tail \in Seq(L) /\ Len(tail) = Len(rest) - (cut + 1) + 1
        /\ \A i \in 1..Len(rest) - (cut + 1) + 1 : tail[i] = rest[(cut + 1) + i - 1]
    BY <1>2, <2>1, PieceOf
  <2>3. \A i \in 1..m - b + 1 - cut : (cut + 1) + i - 1 = cut + i
    BY <1>3
  <2>. QED
    BY ZenonT(60), <2>1, <2>2, <2>3
<1>7. back \in Seq(L) /\ Len(back) = m - b + 1 - cut
      /\ \A i \in 1..m - b + 1 - cut : back[i] = text[b + cut + i - 1]
  <2>1. b + cut \in 1..Len(text) + 1 /\ m \in (b + cut) - 1..Len(text) /\ m - (b + cut) + 1 = m - b + 1 - cut
    BY <1>3
  <2>2. /\ back \in Seq(L) /\ Len(back) = m - (b + cut) + 1
        /\ \A i \in 1..m - (b + cut) + 1 : back[i] = text[(b + cut) + i - 1]
    BY <2>1, PieceOf
  <2>. QED
    BY <2>1, <2>2
<1>. HIDE DEF front, piece, tail, back
<1>8. front = piece
  <2>1. \A i \in 1..cut : i \in 1..m - b + 1
    BY <1>3
  <2>2. \A i \in 1..cut : front[i] = piece[i]
    BY <1>2, <1>4, <1>5, <2>1
  <2>. QED
    BY <1>4, <1>5, <2>2, SeqEqual
<1>9. tail = back
  <2>1. \A i \in 1..m - b + 1 - cut : tail[i] = back[i]
    <3>1. \A i \in 1..m - b + 1 - cut : cut + i \in 1..m - b + 1 /\ b + (cut + i) - 1 = b + cut + i - 1
      BY <1>3
    <3>. QED
      BY <1>2, <1>6, <1>7, <3>1
  <2>. QED
    BY <1>6, <1>7, <2>1, SeqEqual
<1>. QED
  BY <1>2, <1>3, <1>4, <1>6, <1>8, <1>9 DEF front, piece, tail, back

\* The rest after a cut is the text behind it, or behind the newline there.
LEMMA RestBehindCut ==
  ASSUME NEW L, NEW text \in Seq(L), NEW b \in 1..Len(text) + 1, NEW cut \in 0..Len(text) - b + 1
  PROVE  LET after == AfterCut(SubSeq(text, b, Len(text)), cut)
             next == Len(text) - Len(after) + 1
         IN /\ after \in Seq(L) /\ after = SubSeq(text, next, Len(text)) /\ next \in 1..Len(text) + 1
            /\ next = b + cut \/ (next = b + cut + 1 /\ text[b + cut] = Newline)
<1>1. PICK m \in Nat : m = Len(text)
  OBVIOUS
<1>2. PICK rest : rest = SubSeq(text, b, m)
  OBVIOUS
<1>3. PICK after : after = AfterCut(rest, cut)
  OBVIOUS
<1>4. PICK next : next = m - Len(after) + 1
  OBVIOUS
<1>5. cut \in 0..Len(rest) /\ b \in 1..m + 1
  BY <1>1, <1>2
<1>. DEFINE tail == SubSeq(rest, cut + 1, Len(rest))
            k == b + cut
<1>6. /\ k \in 1..m + 1 /\ tail = SubSeq(text, k, m) /\ tail \in Seq(L) /\ Len(tail) = m - k + 1
  <2>. HIDE DEF k
  <2>1. /\ b + cut \in 1..m + 1 /\ SubSeq(rest, cut + 1, Len(rest)) = SubSeq(text, b + cut, m)
        /\ SubSeq(rest, cut + 1, Len(rest)) \in Seq(L) /\ Len(rest) = m - b + 1
        /\ Len(SubSeq(rest, cut + 1, Len(rest))) = m - b + 1 - cut
    <3>1. SubSeq(rest, cut + 1, Len(rest)) \in Seq(L)
      BY <1>1, <1>2, <1>5, PiecesOfRest
    <3>2. SubSeq(rest, cut + 1, Len(rest)) = SubSeq(text, b + cut, m)
      BY <1>1, <1>2, <1>5, PiecesOfRest
    <3>4. Len(rest) = m - b + 1
      <4>1. b \in 1..(Len(text) + 1) /\ m \in (b - 1)..Len(text)
        BY <1>1, <1>5
      <4>2. Len(SubSeq(text, b, m)) = m - b + 1
        BY <4>1, PieceOf
      <4>. QED
        BY <1>2, <4>2
    <3>5. b + cut \in 1..m + 1
      BY <1>1, <1>5, <3>4
    <3>3. Len(SubSeq(rest, cut + 1, Len(rest))) = m - b + 1 - cut
      <4>1. cut + 1 \in 1..(Len(rest) + 1) /\ Len(rest) \in (cut + 1 - 1)..Len(rest)
        BY <1>1, <1>5, <3>4
      <4>2. rest \in Seq(L)
        <5>1. b \in 1..(Len(text) + 1) /\ m \in (b - 1)..Len(text)
          BY <1>1, <1>5
        <5>2. SubSeq(text, b, m) \in Seq(L)
          BY <5>1, PieceOf
        <5>. QED
          BY <1>2, <5>2
      <4>3. Len(SubSeq(rest, cut + 1, Len(rest))) = Len(rest) - (cut + 1) + 1
        BY <4>1, <4>2, PieceOf
      <4>4. m - b + 1 - (cut + 1) + 1 = m - b + 1 - cut
        BY <1>5
      <4>. QED
        BY <3>4, <4>3, <4>4
    <3>. QED
      BY <3>1, <3>2, <3>3, <3>4, <3>5
  <2>2. m - b + 1 - cut = m - (b + cut) + 1
    BY <2>1
  <2>. QED
    BY <2>1, <2>2 DEF k
<1>7. after = IF tail # << >> /\ tail[1] = Newline THEN Tail(tail) ELSE tail
  BY <1>3 DEF AfterCut
<1>. HIDE DEF tail, k
<1>8. ASSUME tail # << >>, tail[1] = Newline
      PROVE  /\ after \in Seq(L) /\ after = SubSeq(text, next, m) /\ next \in 1..m + 1
             /\ next = b + cut \/ (next = b + cut + 1 /\ text[b + cut] = Newline)
  <2>1. Len(tail) >= 1 /\ k \in 1..m
    BY <1>6, <1>8
  <2>2. 1 \in 0..Len(tail)
    BY <1>6, <2>1
  <2>3. /\ SubSeq(tail, 2, Len(tail)) = SubSeq(text, k + 1, m) /\ SubSeq(tail, 2, Len(tail)) \in Seq(L)
        /\ Len(SubSeq(tail, 2, Len(tail))) = m - k
    <3>1. 1 + 1 = 2 /\ m - k + 1 - 1 = m - k
      BY <1>6
    <3>. QED
      BY <1>6, <1>1, <2>2, <3>1, PiecesOfRest
  <2>4. Tail(tail) = SubSeq(tail, 2, Len(tail))
    BY <1>6, <1>8
  <2>5. next = k + 1 /\ next \in 1..m + 1
    BY <1>4, <1>6, <1>7, <1>8, <2>1, <2>3, <2>4
  <2>6. text[k] = Newline
    <3>1. m \in k - 1..Len(text) /\ k \in 1..Len(text) + 1 /\ 1 \in 1..m - k + 1 /\ k + 1 - 1 = k
      BY <1>1, <1>6, <2>1
    <3>2. SubSeq(text, k, m)[1] = text[k + 1 - 1]
      BY <3>1, PieceOf
    <3>. QED
      BY <1>6, <1>8, <3>1, <3>2
  <2>. QED
    BY <1>7, <1>8, <2>3, <2>4, <2>5, <2>6 DEF k
<1>9. ASSUME ~(tail # << >> /\ tail[1] = Newline)
      PROVE  /\ after \in Seq(L) /\ after = SubSeq(text, next, m) /\ next \in 1..m + 1
             /\ next = b + cut \/ (next = b + cut + 1 /\ text[b + cut] = Newline)
  <2>1. next = k
    BY <1>4, <1>6, <1>7, <1>9
  <2>. QED
    BY <1>6, <1>7, <1>9, <2>1 DEF k
<1>10. /\ after \in Seq(L) /\ after = SubSeq(text, next, m) /\ next \in 1..m + 1
       /\ next = b + cut \/ (next = b + cut + 1 /\ text[b + cut] = Newline)
  BY <1>8, <1>9
<1>11. after = AfterCut(SubSeq(text, b, Len(text)), cut) /\ next = Len(text) - Len(after) + 1
  BY <1>1, <1>2, <1>3, <1>4
<1>12. next \in 1..Len(text) + 1 /\ after = SubSeq(text, next, Len(text)) /\ after \in Seq(L)
       /\ (next = b + cut \/ (next = b + cut + 1 /\ text[b + cut] = Newline))
  BY <1>1, <1>10
<1>. DEFINE A == AfterCut(SubSeq(text, b, Len(text)), cut)
<1>13. after = A
  BY <1>11
<1>. HIDE DEF A
<1>14. next = Len(text) - Len(A) + 1
  BY <1>11, <1>13
<1>15. /\ A \in Seq(L) /\ A = SubSeq(text, Len(text) - Len(A) + 1, Len(text)) /\ Len(text) - Len(A) + 1 \in 1..Len(text) + 1
       /\ (Len(text) - Len(A) + 1 = b + cut \/ (Len(text) - Len(A) + 1 = b + cut + 1 /\ text[b + cut] = Newline))
  BY <1>12, <1>13, <1>14
<1>. QED
  BY <1>15 DEF A

\* A part more: what was cut stays as it is.
LEMMA PartMore ==
  ASSUME NEW L, NEW parts \in Seq(Seq(L)), NEW from \in Seq(Nat),
         NEW n \in Nat, Len(parts) = n, Len(from) = n + 1,
         NEW part \in Seq(L), NEW next \in Nat
  PROVE  /\ Append(parts, part) \in Seq(Seq(L)) /\ Len(Append(parts, part)) = n + 1
         /\ Append(parts, part)[n + 1] = part /\ \A i \in 1..n : Append(parts, part)[i] = parts[i]
         /\ Append(from, next) \in Seq(Nat) /\ Len(Append(from, next)) = n + 2
         /\ Append(from, next)[n + 2] = next /\ \A i \in 1..n + 1 : Append(from, next)[i] = from[i]
  OBVIOUS

\* One more cut: what was cut stays, the new part is as it should be, and the rest
\* begins behind it.
LEMMA CutKeepsWhole ==
  ASSUME CutPart, ChannelsInv
  PROVE  DOMAIN telegramSent' = DOMAIN NoText /\ CutFits(telegramSent') /\ PartsAreWhole'
<1>. DEFINE t == telegramSent
            Letters == {Newline, "x"}
<1>1. PICK n \in Nat, m \in Nat, b \in Nat : n = Len(t.parts) /\ m = Len(t.text) /\ b = t.from[n + 1]
  <2>1. Len(t.parts) \in Nat /\ Len(t.text) \in Nat /\ t.from[Len(t.parts) + 1] \in Nat
    <3>1. t.parts \in Seq(Seq(Letters)) /\ t.text \in Seq(Letters) /\ t.from \in Seq(Nat)
          /\ Len(t.from) = Len(t.parts) + 1
      BY DEF ChannelsInv, CutFits
    <3>. HIDE DEF Letters
    <3>2. Len(t.parts) \in Nat /\ Len(t.text) \in Nat
      BY <3>1, LenProperties
    <3>. QED
      BY <3>1, <3>2, ElementOfSeq
  <2>. HIDE DEF t
  <2>. QED
    BY <2>1
<1>2. PICK cut, rest, part, next :
        /\ cut = IF Len(t.rest) <= MaxLen THEN Len(t.rest) ELSE CutAt(t.rest)
        /\ rest = AfterCut(t.rest, cut) /\ part = SubSeq(t.rest, 1, cut)
        /\ next = m - Len(rest) + 1
  OBVIOUS
<1>3. /\ DOMAIN t = {"text", "rest", "parts", "from", "sent"}
      /\ t.text \in Seq(Letters) /\ t.rest \in Seq(Letters)
      /\ t.parts \in Seq(Seq(Letters)) /\ t.from \in Seq(Nat) /\ Len(t.from) = n + 1
      /\ b \in 1..m + 1 /\ t.rest = SubSeq(t.text, b, m) /\ t.rest # << >>
      /\ t.from[1] = 1
  BY <1>1 DEF ChannelsInv, CutFits, NoText, PartsAreWhole, CutPart
<1>4. t' = [t EXCEPT !.parts = Append(@, part), !.rest = rest, !.from = Append(@, next)]
  BY <1>1, <1>2 DEF CutPart
<1>5. /\ DOMAIN t' = DOMAIN t /\ t'.text = t.text /\ t'.rest = rest
      /\ t'.parts = Append(t.parts, part) /\ t'.from = Append(t.from, next)
  BY <1>3, <1>4
<1>6. MaxLen \in Nat \ {0}
  BY ChannelsAssumption
<1>7. cut \in 1..Len(t.rest) /\ cut <= MaxLen /\ cut \in 0..Len(t.rest) /\ cut \in Nat
  <2>1. Len(t.rest) \in Nat \ {0}
    BY <1>3
  <2>2. ~(Len(t.rest) <= MaxLen) => CutAt(t.rest) \in 1..MaxLen
    <3>. HIDE DEF t
    <3>1. ASSUME ~(Len(t.rest) <= MaxLen)
          PROVE  Len(t.rest) > MaxLen
      BY <1>6, <2>1, <3>1
    <3>. QED
      BY <1>3, <3>1, CutWithin
  <2>. QED
    BY <1>2, <1>6, <2>1, <2>2
<1>8. part = SubSeq(t.text, b, b + cut - 1) /\ part \in Seq(Letters) /\ Len(part) = cut
  <2>. HIDE DEF Letters, t
  <2>1. m = Len(t.text) /\ t.text \in Seq(Letters) /\ b \in 1..m + 1 /\ t.rest = SubSeq(t.text, b, m)
        /\ cut \in 0..Len(t.rest)
    BY <1>1, <1>3, <1>7
  <2>2. /\ SubSeq(t.rest, 1, cut) = SubSeq(t.text, b, b + cut - 1)
        /\ SubSeq(t.rest, 1, cut) \in Seq(Letters) /\ Len(SubSeq(t.rest, 1, cut)) = cut
    BY <2>1, PiecesOfRest
  <2>. QED
    BY <1>2, <2>2
<1>9. /\ rest \in Seq(Letters) /\ next \in 1..m + 1 /\ rest = SubSeq(t.text, next, m)
      /\ next = b + cut \/ (next = b + cut + 1 /\ t.text[b + cut] = Newline)
  <2>. HIDE DEF Letters, t
  <2>1. m = Len(t.text) /\ t.text \in Seq(Letters) /\ b \in 1..Len(t.text) + 1
        /\ t.rest = SubSeq(t.text, b, Len(t.text)) /\ cut \in 0..Len(t.text) - b + 1
    <3>1. Len(t.rest) = Len(t.text) - b + 1
      BY <1>1, <1>3
    <3>. QED
      BY <1>1, <1>3, <1>7, <3>1
  <2>2. rest = AfterCut(SubSeq(t.text, b, Len(t.text)), cut)
    BY <1>2, <2>1
  <2>3. /\ rest \in Seq(Letters) /\ rest = SubSeq(t.text, Len(t.text) - Len(rest) + 1, Len(t.text))
        /\ Len(t.text) - Len(rest) + 1 \in 1..Len(t.text) + 1
        /\ \/ Len(t.text) - Len(rest) + 1 = b + cut
           \/ Len(t.text) - Len(rest) + 1 = b + cut + 1 /\ t.text[b + cut] = Newline
    BY <2>1, <2>2, RestBehindCut
  <2>. QED
    BY <1>2, <2>1, <2>3
<1>10. /\ t'.parts \in Seq(Seq(Letters)) /\ Len(t'.parts) = n + 1
       /\ t'.parts[n + 1] = part /\ \A i \in 1..n : t'.parts[i] = t.parts[i]
       /\ t'.from \in Seq(Nat) /\ Len(t'.from) = n + 2
       /\ t'.from[n + 2] = next /\ \A i \in 1..n + 1 : t'.from[i] = t.from[i]
  <2>1. next \in Nat /\ Len(t.parts) = n
    BY <1>1, <1>9
  <2>2. /\ t.parts \in Seq(Seq(Letters)) /\ t.from \in Seq(Nat) /\ Len(t.from) = n + 1 /\ part \in Seq(Letters)
        /\ t'.parts = Append(t.parts, part) /\ t'.from = Append(t.from, next)
    BY <1>3, <1>5, <1>8
  <2>. HIDE DEF Letters, t
  <2>. QED
    BY <2>1, <2>2, PartMore
<1>11. CutFits(t')
  <2>1. t'.from[Len(t'.from)] \in 1..Len(t'.text) + 1
    BY <1>1, <1>5, <1>9, <1>10
  <2>2. t'.text \in Seq(Letters) /\ t'.rest \in Seq(Letters) /\ Len(t'.from) = Len(t'.parts) + 1
    BY <1>1, <1>3, <1>5, <1>9, <1>10
  <2>. QED
    BY <1>10, <2>1, <2>2 DEF CutFits
<1>12. ASSUME NEW i \in 1..n + 1
       PROVE  LET PartEnd == t'.from[i] + Len(t'.parts[i]) - 1 IN
              /\ Len(t'.parts[i]) \in 1..MaxLen /\ t'.parts[i] = SubSeq(t'.text, t'.from[i], PartEnd)
              /\ t'.from[i + 1] = PartEnd + 1 \/ (t'.from[i + 1] = PartEnd + 2 /\ t'.text[PartEnd + 1] = Newline)
  <2>1. CASE i = n + 1
    <3>. HIDE DEF t
    <3>1. t'.from[i] = b /\ t'.parts[i] = part /\ t'.from[i + 1] = next
      <4>1. i + 1 = n + 2 /\ n + 1 \in 1..n + 1
        BY <1>1, <2>1
      <4>. QED
        BY <1>1, <1>10, <2>1, <4>1
    <3>2. Len(part) \in 1..MaxLen
      BY <1>6, <1>7, <1>8
    <3>3. (b + cut - 1) + 1 = b + cut /\ (b + cut - 1) + 2 = b + cut + 1
      BY <1>1, <1>7
    <3>. QED
      BY <1>5, <1>8, <1>9, <3>1, <3>2, <3>3
  <2>2. CASE i \in 1..n
    <3>1. t'.from[i] = t.from[i] /\ t'.parts[i] = t.parts[i] /\ t'.from[i + 1] = t.from[i + 1]
      <4>1. i \in 1..n + 1 /\ i + 1 \in 1..n + 1
        BY <2>2
      <4>. HIDE DEF t
      <4>. QED
        BY <1>10, <2>2, <4>1
    <3>2. i \in DOMAIN t.parts
      BY <1>1, <1>3, <2>2
    <3>. QED
      BY <1>5, <3>1, <3>2 DEF ChannelsInv, PartsAreWhole
  <2>3. i = n + 1 \/ i \in 1..n
    OBVIOUS
  <2>. QED
    BY <2>1, <2>2, <2>3
<1>13. t'.from[1] = 1 /\ t'.rest = SubSeq(t'.text, t'.from[Len(t'.parts) + 1], Len(t'.text))
  <2>1. Len(t'.parts) + 1 = n + 2 /\ 1 \in 1..n + 1
    BY <1>1, <1>10
  <2>2. t'.from[1] = 1
    BY <1>3, <1>10, <2>1
  <2>3. t'.from[Len(t'.parts) + 1] = next /\ Len(t'.text) = m
    BY <1>1, <1>5, <1>10, <2>1
  <2>. HIDE DEF t
  <2>. QED
    BY <1>5, <1>9, <2>2, <2>3
<1>14. PartsAreWhole'
  <2>1. DOMAIN t'.parts = 1..n + 1
    BY <1>1, <1>10
  <2>. QED
    BY <1>12, <1>13, <2>1 DEF PartsAreWhole
<1>. QED
  BY <1>3, <1>5, <1>11, <1>14 DEF NoText

\* A behaviour of the other channels, or an end of a turn, leaves these alone.
LEMMA RepliesStay ==
  ASSUME RepliesReachChat, RepliesInTime, TextArrives, UNCHANGED blueSent
  PROVE  RepliesReachChat' /\ RepliesInTime' /\ TextArrives'
  BY DEF RepliesReachChat, RepliesInTime, TextArrives

LEMMA CutsStay ==
  ASSUME ChannelsInv, UNCHANGED telegramSent
  PROVE  DOMAIN telegramSent' = DOMAIN NoText /\ CutFits(telegramSent') /\ PartsAreWhole'
  BY DEF ChannelsInv, PartsAreWhole

LEMMA TurnsStay ==
  ASSUME ChannelsInv, UNCHANGED <<clock, conversationMap, conversationToChatGuid>>, blueTurns' \subseteq blueTurns
  PROVE  /\ MapsFit(conversationMap', conversationToChatGuid', clock')
         /\ \A going \in blueTurns' : TurnFits(going, conversationMap', conversationToChatGuid', clock')
  BY DEF ChannelsInv

LEMMA ChannelsStep == ChannelsInv /\ [ChannelsNext]_channelVars => ChannelsInv'
<1>. SUFFICES ASSUME ChannelsInv, [ChannelsNext]_channelVars
              PROVE  ChannelsInv'
  OBVIOUS
<1>. USE DEF blueVars, cliVars
<1>1. ASSUME NEW chat \in Guids, HandleWebhook(chat)
      PROVE  ChannelsInv'
  <2>1. UNCHANGED <<blueSent, telegramSent, cliTurns, processing>>
    BY <1>1 DEF HandleWebhook
  <2>. QED
    BY <1>1, <2>1, MessageFits, RepliesStay, CutsStay DEF ChannelsInv
<1>2. ASSUME EvictStale
      PROVE  ChannelsInv'
  <2>1. UNCHANGED <<blueSent, telegramSent, cliTurns, processing>>
    BY <1>2 DEF EvictStale
  <2>. QED
    BY <1>2, <2>1, EvictionFits, RepliesStay, CutsStay DEF ChannelsInv
<1>3. ASSUME NEW going \in blueTurns, NEW fates \in Fates, NEW accepted \in BOOLEAN,
             BlueReply(going, fates, accepted)
      PROVE  ChannelsInv'
  <2>1. UNCHANGED <<clock, conversationMap, conversationToChatGuid, telegramSent, cliTurns, processing>>
        /\ blueTurns' \subseteq blueTurns
    BY <1>3 DEF BlueReply
  <2>. QED
    BY <1>3, <2>1, ReplyArrives, TurnsStay, CutsStay DEF ChannelsInv
<1>4. ASSUME Tick
      PROVE  ChannelsInv'
  <2>1. UNCHANGED <<conversationMap, conversationToChatGuid, blueTurns, blueSent, telegramSent, cliTurns, processing>>
        /\ clock' = clock + 1
    BY <1>4 DEF Tick
  <2>2. MapsFit(conversationMap', conversationToChatGuid', clock') /\ clock \in Nat
    BY <2>1 DEF ChannelsInv, MapsFit
  <2>3. ASSUME NEW going \in blueTurns
        PROVE  TurnFits(going, conversationMap', conversationToChatGuid', clock')
    <3>1. TurnFits(going, conversationMap, conversationToChatGuid, clock) /\ going.at \in Nat
      BY DEF ChannelsInv, TurnFits
    <3>2. clock' - going.at < Ttl => clock - going.at < Ttl
      <4>1. Ttl \in Nat
        BY ChannelsAssumption
      <4>. QED
        BY <2>1, <2>2, <3>1, <4>1
    <3>3. going.at <= clock'
      BY <2>1, <2>2, <3>1 DEF TurnFits
    <3>. QED
      BY <2>1, <3>1, <3>2, <3>3 DEF TurnFits
  <2>. QED
    BY <2>1, <2>2, <2>3, RepliesStay, CutsStay DEF ChannelsInv
<1>5. ASSUME UNCHANGED <<blueVars>>, telegramSent' = telegramSent, cliTurns' \in {0, 1},
             cliTurns' = 1 => processing'
      PROVE  ChannelsInv'
  BY <1>5, TurnsStay, RepliesStay, CutsStay DEF ChannelsInv
<1>6. ASSUME UNCHANGED <<blueVars, cliVars>>, DOMAIN telegramSent' = DOMAIN NoText, CutFits(telegramSent'),
             PartsAreWhole'
      PROVE  ChannelsInv'
  BY <1>6, TurnsStay, RepliesStay DEF ChannelsInv
<1>7. ASSUME NEW text \in TelegramTexts, TelegramReply(text)
      PROVE  ChannelsInv'
  <2>1. telegramSent' = [NoText EXCEPT !.text = text, !.rest = text]
    BY <1>7 DEF TelegramReply
  <2>2. text \in Seq({Newline, "x"})
    BY DEF TelegramTexts
  <2>3. DOMAIN telegramSent' = DOMAIN NoText /\ telegramSent'.text = text /\ telegramSent'.rest = text
        /\ telegramSent'.parts = << >> /\ telegramSent'.from = <<1>>
    BY <2>1 DEF NoText
  <2>4. CutFits(telegramSent')
    <3>1. << >> \in Seq(Seq({Newline, "x"})) /\ <<1>> \in Seq(Nat) /\ Len(<<1>>) = 1
          /\ Len(<< >>) = 0 /\ <<1>>[1] = 1 /\ 1 \in 1..Len(text) + 1
      BY <2>2
    <3>. QED
      BY <2>2, <2>3, <3>1 DEF CutFits
  <2>5. text = SubSeq(text, 1, Len(text))
    BY <2>2
  <2>6. PartsAreWhole'
    BY <2>3, <2>5 DEF PartsAreWhole
  <2>. QED
    BY <1>6, <1>7, <2>3, <2>4, <2>6 DEF TelegramReply
<1>8. ASSUME CutPart
      PROVE  ChannelsInv'
  BY <1>6, <1>8, CutKeepsWhole DEF CutPart
<1>9. ASSUME SendPart
      PROVE  ChannelsInv'
  <2>1. /\ DOMAIN telegramSent' = DOMAIN telegramSent /\ telegramSent'.text = telegramSent.text
        /\ telegramSent'.rest = telegramSent.rest
        /\ telegramSent'.parts = telegramSent.parts /\ telegramSent'.from = telegramSent.from
    BY <1>9 DEF SendPart, ChannelsInv, NoText
  <2>2. CutFits(telegramSent') /\ PartsAreWhole' /\ DOMAIN telegramSent' = DOMAIN NoText
    BY <2>1 DEF ChannelsInv, CutFits, PartsAreWhole
  <2>. QED
    BY <1>6, <1>9, <2>2 DEF SendPart
<1>10. ASSUME TypeLine
       PROVE  ChannelsInv'
  <2>1. cliTurns' \in {0, 1} /\ (cliTurns' = 1 => processing')
    BY <1>10 DEF TypeLine, ChannelsInv
  <2>. QED
    BY <1>5, <1>10, <2>1 DEF TypeLine
<1>11. ASSUME LineDone
       PROVE  ChannelsInv'
  <2>1. cliTurns' = 0
    BY <1>11 DEF LineDone, ChannelsInv
  <2>2. cliTurns' \in {0, 1} /\ (cliTurns' = 1 => processing')
    BY <2>1
  <2>. QED
    BY <1>5, <1>11, <2>2 DEF LineDone
<1>12. ASSUME Exit
       PROVE  ChannelsInv'
  BY <1>5, <1>12 DEF Exit
<1>13. ASSUME UNCHANGED channelVars
       PROVE  ChannelsInv'
  BY <1>6, <1>13, CutsStay DEF channelVars
<1>. QED
  BY <1>1, <1>2, <1>3, <1>4, <1>7, <1>8, <1>9, <1>10, <1>11, <1>12, <1>13 DEF ChannelsNext

\* The other channels: a reply reaches the chat of its message while that chat has not
\* been silent for too long, with its text, in parts that are whole; the command line
\* has one turn at a time.  For any chats, times, limits, texts and numbers of messages.
THEOREM RepliesAreCorrect == ChannelsSpec => []ChannelsCorrect
<1>1. ChannelsInit => ChannelsInv
  BY ChannelsStart
<1>2. ChannelsInv /\ [ChannelsNext]_channelVars => ChannelsInv'
  BY ChannelsStep
<1>3. ChannelsInv => ChannelsCorrect
  <2>1. ChannelsInv => MapsInverse
    BY FittingMapsInverse DEF ChannelsInv
  <2>2. ChannelsInv => OneLineAtATime
    BY DEF ChannelsInv, OneLineAtATime
  <2>. QED
    BY <2>1, <2>2 DEF ChannelsInv, ChannelsCorrect
<1>. QED
  BY <1>1, <1>2, <1>3, PTL DEF ChannelsSpec

-----------------------------------------------------------------------------
(* What a model is shown                                                   *)

Msgs ==
  [kind : {"human"}, n : Nat] \cup [kind : {"ai"}, n : Nat, calls : Seq(Nat)]
    \cup [kind : {"tool"}, n : Nat, of : Nat, out : Outcomes]
    \cup [kind : {"digest"}, n : Nat, count : Nat, covers : SUBSET Nat]
RepairStates == [pending : Seq(Nat), out : Seq(Msgs)]

LEMMA SmallestExists ==
  ASSUME NEW S \in SUBSET Nat, S # {}
  PROVE  \E i \in S : \A j \in S : i <= j
<1>1. OpToRel(<, Nat) = {ss \in Nat \X Nat : ss[1] < ss[2]}
  BY Zenon DEF OpToRel
<1>2. IsWellFoundedOn({ss \in Nat \X Nat : ss[1] < ss[2]}, Nat)
  BY <1>1, NatLessThanWellFounded, Zenon
<1>3. PICK i \in S : \A j \in S : ~ (<<j, i>> \in {ss \in Nat \X Nat : ss[1] < ss[2]})
  BY <1>2, WFMin
<1>4. ASSUME NEW j \in S PROVE i <= j
  <2>1. i \in Nat /\ j \in Nat /\ <<j, i>> \in Nat \X Nat
    OBVIOUS
  <2>2. ~ (<<j, i>>[1] < <<j, i>>[2])
    BY <1>3, <2>1
  <2> QED BY <2>1, <2>2
<1> QED BY <1>4

\* A set of numbers that begins with 0 and goes on with each next one.
LEMMA CountedUp ==
  ASSUME NEW n \in Nat, NEW S \in SUBSET (0..n), 0 \in S, \A k \in S : k < n => k + 1 \in S
  PROVE  S = 0..n
<1>. SUFFICES ASSUME NEW k \in 0..n, k \notin S PROVE FALSE
  OBVIOUS
<1>1. PICK i \in (0..n) \ S : \A j \in (0..n) \ S : i <= j
  <2>1. (0..n) \ S \in SUBSET Nat /\ (0..n) \ S # {}
    OBVIOUS
  <2>. QED
    BY <2>1, SmallestExists
<1>2. i # 0 /\ i - 1 \in 0..n /\ i - 1 < i
  OBVIOUS
<1>3. i - 1 \in S
  BY <1>1, <1>2
<1>. QED
  BY <1>2, <1>3

\* Ways to go on from one of T with one of M.
Ways(T, M) == [T -> [M -> T]]

\* What is said of each of the first elements by what is said of those before it:
\* there is such a function.
LEMMA GoesOn ==
  ASSUME NEW T, NEW M, NEW s \in Seq(M), NEW F \in Ways(T, M), NEW t \in T
  PROVE  \E f \in [0..Len(s) -> T] : f[0] = t /\ \A k \in 1..Len(s) : f[k] = F[f[k - 1]][s[k]]
<1>. DEFINE Fits(f, n) ==
       /\ f \in [0..n -> T] /\ f[0] = t
       /\ \A k \in 1..n : f[k] = F[f[k - 1]][s[k]]
     S == {n \in 0..Len(s) : \E f : Fits(f, n)}
<1>1. Len(s) \in Nat /\ (\A k \in 1..Len(s) : s[k] \in M) /\ F \in [T -> [M -> T]]
  BY LenProperties, ElementOfSeq DEF Ways
<1>2. 0 \in S
  <2>1. Fits([k \in 0..0 |-> t], 0)
    OBVIOUS
  <2>2. \E f : Fits(f, 0)
    BY <2>1
  <2>3. 0 \in 0..Len(s)
    BY <1>1
  <2>. QED
    BY <2>2, <2>3
<1>3. ASSUME NEW n \in S, n < Len(s) PROVE n + 1 \in S
  <2>1. PICK f : Fits(f, n)
    OBVIOUS
  <2>. DEFINE g == [k \in 0..n + 1 |-> IF k = n + 1 THEN F[f[n]][s[n + 1]] ELSE f[k]]
  <2>2. n \in Nat /\ n + 1 \in 1..Len(s) /\ s[n + 1] \in M /\ f[n] \in T
    BY <1>1, <1>3, <2>1
  <2>3. F[f[n]][s[n + 1]] \in T
    BY <1>1, <2>2
  <2>4. g \in [0..n + 1 -> T] /\ g[0] = t
    BY <2>1, <2>2, <2>3
  <2>5. ASSUME NEW k \in 1..n + 1 PROVE g[k] = F[g[k - 1]][s[k]]
    <3>1. CASE k = n + 1
      <4>1. k - 1 = n /\ n \in 0..n + 1 /\ n # n + 1 /\ k \in 0..n + 1
        BY <2>2, <3>1
      <4>2. g[n] = f[n] /\ g[k] = F[f[n]][s[n + 1]]
        BY <3>1, <4>1
      <4>. QED
        BY <3>1, <4>1, <4>2
    <3>2. CASE k # n + 1
      <4>1. k \in 1..n /\ k - 1 \in 0..n /\ k - 1 # n + 1
        BY <2>2, <3>2
      <4>. QED
        BY <2>1, <2>2, <4>1
    <3>. QED
      BY <3>1, <3>2
  <2>6. Fits(g, n + 1)
    BY <2>4, <2>5
  <2>7. \E h : Fits(h, n + 1)
    BY <2>6
  <2>8. n + 1 \in 0..Len(s)
    BY <1>1, <2>2
  <2>. QED
    BY <2>7, <2>8
<1>4. S = 0..Len(s)
  <2>. HIDE DEF S
  <2>1. S \in SUBSET (0..Len(s))
    BY DEF S
  <2>. QED
    BY <1>1, <1>2, <1>3, <2>1, CountedUp
<1>5. PICK f : Fits(f, Len(s))
  <2>1. Len(s) \in S
    <3>. HIDE DEF S
    <3>. QED
      BY <1>1, <1>4
  <2>. QED
    BY <2>1
<1>. QED
  BY <1>5

\* The messages, one by one.
LEMMA MessagesAre ==
  ASSUME NEW m \in Msgs
  PROVE  /\ m.n \in Nat /\ CallsOf(m) \in Seq(Nat)
         /\ m.kind \in {"human", "ai", "tool", "digest"}
         /\ IsTool(m) => /\ m.of \in Nat /\ m = [kind |-> "tool", n |-> m.n, of |-> m.of, out |-> m.out]
                         /\ m.out \in Outcomes
                         /\ \A c \in Nat : [m EXCEPT !.of = c] = [kind |-> "tool", n |-> m.n, of |-> c, out |-> m.out]
         /\ m.kind = "digest" => m.count \in Nat /\ m.covers \in SUBSET Nat
         /\ m.kind = "ai" => m.calls \in Seq(Nat)
<1>1. CASE m \in [kind : {"human"}, n : Nat]
  BY <1>1 DEF CallsOf, IsTool
<1>2. CASE m \in [kind : {"ai"}, n : Nat, calls : Seq(Nat)]
  BY <1>2 DEF CallsOf, IsTool
<1>3. CASE m \in [kind : {"tool"}, n : Nat, of : Nat, out : Outcomes]
  BY <1>3 DEF CallsOf, IsTool
<1>4. CASE m \in [kind : {"digest"}, n : Nat, count : Nat, covers : SUBSET Nat]
  BY <1>4 DEF CallsOf, IsTool
<1>. QED
  BY <1>1, <1>2, <1>3, <1>4 DEF Msgs

LEMMA MessagesMade ==
  ASSUME NEW n \in Nat
  PROVE  /\ Human(n) \in Msgs /\ ~IsTool(Human(n)) /\ CallsOf(Human(n)) = <<>>
         /\ \A calls \in Seq(Nat) : AI(n, calls) \in Msgs /\ ~IsTool(AI(n, calls)) /\ CallsOf(AI(n, calls)) = calls
         /\ \A of \in Nat, out \in Outcomes : Tool(n, of, out) \in Msgs /\ IsTool(Tool(n, of, out))
         /\ \A count \in Nat, covers \in SUBSET Nat :
              /\ Digest(n, count, covers) \in Msgs /\ ~IsTool(Digest(n, count, covers))
              /\ CallsOf(Digest(n, count, covers)) = <<>>
         /\ Placeholder(n) \in Msgs /\ IsTool(Placeholder(n))
<1>1. "ok" \in Outcomes
  BY DEF Outcomes
<1>. QED
  BY <1>1 DEF Msgs, Human, AI, Tool, Digest, Placeholder, IsTool, CallsOf

LEMMA WithoutOne ==
  ASSUME NEW S, NEW s \in Seq(S), NEW k \in 1..Len(s)
  PROVE  /\ RemoveAt(s, k) \in Seq(S) /\ Len(RemoveAt(s, k)) = Len(s) - 1
         /\ ToSet(s) = ToSet(RemoveAt(s, k)) \cup {s[k]}
         /\ k = 1 => \A i \in 1..Len(s) - 1 : RemoveAt(s, k)[i] = s[i + 1]
<1>. DEFINE front == SubSeq(s, 1, k - 1)
            back == SubSeq(s, k + 1, Len(s))
            r == front \o back
<1>1. Len(s) \in Nat /\ DOMAIN s = 1..Len(s) /\ \A i \in 1..Len(s) : s[i] \in S
  BY LenProperties, ElementOfSeq
<1>2. front \in Seq(S) /\ Len(front) = k - 1 /\ \A i \in 1..k - 1 : front[i] = s[i]
  <2>1. 1 \in Int /\ k - 1 \in Int /\ \A i \in 1..k - 1 : s[i] \in S
    BY <1>1
  <2>2. front \in Seq(S) /\ Len(front) = (IF 1 <= k - 1 THEN k - 1 - 1 + 1 ELSE 0)
        /\ \A i \in 1..k - 1 - 1 + 1 : front[i] = s[1 + i - 1]
    BY <2>1, SubSeqProperties
  <2>3. k - 1 - 1 + 1 = k - 1 /\ (IF 1 <= k - 1 THEN k - 1 - 1 + 1 ELSE 0) = k - 1
        /\ \A i \in 1..k - 1 : 1 + i - 1 = i
    BY SMTT(40), <1>1
  <2>. HIDE DEF front
  <2>. QED
    BY <2>2, <2>3
<1>3. back \in Seq(S) /\ Len(back) = Len(s) - k /\ \A i \in 1..Len(s) - k : back[i] = s[k + i]
  <2>1. k + 1 \in Int /\ Len(s) \in Int /\ \A i \in k + 1..Len(s) : s[i] \in S
    BY <1>1
  <2>2. back \in Seq(S) /\ Len(back) = (IF k + 1 <= Len(s) THEN Len(s) - (k + 1) + 1 ELSE 0)
        /\ \A i \in 1..Len(s) - (k + 1) + 1 : back[i] = s[k + 1 + i - 1]
    BY <2>1, SubSeqProperties
  <2>. HIDE DEF back
  <2>3. Len(s) - (k + 1) + 1 = Len(s) - k
    BY <1>1
  <2>4. (IF k + 1 <= Len(s) THEN Len(s) - k ELSE 0) = Len(s) - k
    <3>1. CASE k = Len(s)
      BY <1>1, <3>1
    <3>2. CASE k # Len(s)
      <4>1. Len(s) \in Nat
        BY <1>1
      <4>2. k + 1 <= Len(s)
        BY <3>2, <4>1
      <4>. QED
        BY <4>2
    <3>. QED
      BY <3>1, <3>2
  <2>5. \A i \in 1..Len(s) - k : k + 1 + i - 1 = k + i
    BY <1>1
  <2>. QED
    BY <2>2, <2>3, <2>4, <2>5
<1>4. RemoveAt(s, k) = r
  BY DEF RemoveAt
<1>. HIDE DEF front, back
<1>5. /\ r \in Seq(S) /\ Len(r) = Len(s) - 1
      /\ \A i \in 1..Len(s) - 1 : r[i] = IF i < k THEN s[i] ELSE s[i + 1]
  <2>1. /\ r \in Seq(S) /\ Len(r) = Len(front) + Len(back)
        /\ \A i \in 1..Len(front) + Len(back) : r[i] = IF i <= Len(front) THEN front[i] ELSE back[i - Len(front)]
    BY <1>2, <1>3, ConcatProperties
  <2>. HIDE DEF r
  <2>2. Len(front) + Len(back) = Len(s) - 1
    BY <1>1, <1>2, <1>3
  <2>3. ASSUME NEW i \in 1..Len(s) - 1 PROVE r[i] = IF i < k THEN s[i] ELSE s[i + 1]
    <3>1. r[i] = IF i <= k - 1 THEN front[i] ELSE back[i - (k - 1)]
      BY <1>2, <2>1, <2>2
    <3>2. CASE i < k
      BY <1>1, <1>2, <3>1, <3>2
    <3>3. CASE ~(i < k)
      <4>1. i - (k - 1) \in 1..Len(s) - k /\ k + (i - (k - 1)) = i + 1 /\ ~(i <= k - 1)
        BY <1>1, <3>3
      <4>. QED
        BY <1>3, <3>1, <3>3, <4>1
    <3>. QED
      BY <3>2, <3>3
  <2>. QED
    BY <2>1, <2>2, <2>3
<1>. HIDE DEF r
<1>6. DOMAIN r = 1..Len(s) - 1
  BY <1>5, LenProperties
<1>7. ToSet(s) = ToSet(r) \cup {s[k]}
  <2>1. ASSUME NEW i \in 1..Len(s) PROVE s[i] \in ToSet(r) \cup {s[k]}
    <3>1. CASE i < k
      <4>1. i \in 1..Len(s) - 1 /\ r[i] = s[i]
        BY <1>1, <1>5, <3>1
      <4>. QED
        BY <1>6, <4>1 DEF ToSet
    <3>2. CASE i > k
      <4>1. i - 1 \in 1..Len(s) - 1 /\ ~(i - 1 < k) /\ i - 1 + 1 = i
        BY <1>1, <3>2
      <4>2. r[i - 1] = s[i]
        BY <1>5, <4>1
      <4>. QED
        BY <1>6, <4>1, <4>2 DEF ToSet
    <3>. QED
      BY <1>1, <3>1, <3>2
  <2>2. ASSUME NEW i \in 1..Len(s) - 1 PROVE r[i] \in ToSet(s)
    <3>1. i \in 1..Len(s) /\ i + 1 \in 1..Len(s)
      BY <1>1
    <3>. QED
      BY <1>1, <1>5, <3>1 DEF ToSet
  <2>3. s[k] \in ToSet(s)
    BY <1>1 DEF ToSet
  <2>. QED
    BY <1>1, <1>6, <2>1, <2>2, <2>3 DEF ToSet
<1>8. k = 1 => \A i \in 1..Len(s) - 1 : r[i] = s[i + 1]
  BY <1>5
<1>. QED
  BY <1>4, <1>5, <1>7, <1>8

\* Where a result is put: among what is pending, at its own call if that is pending.
LEMMA PlaceIs ==
  ASSUME NEW pending \in Seq(Nat), pending # <<>>, NEW call
  PROVE  /\ Place(pending, call) \in 1..Len(pending)
         /\ pending[1] = call => Place(pending, call) = 1
<1>1. Len(pending) \in Nat /\ 1 \in 1..Len(pending)
  BY EmptySeq
<1>2. CASE Contains(pending, call)
  <2>. DEFINE Its == {k \in 1..Len(pending) : pending[k] = call}
  <2>1. Its \in SUBSET Nat /\ Its # {}
    BY <1>2 DEF Contains
  <2>2. PICK k \in Its : \A j \in Its : k <= j
    <3>. HIDE DEF Its
    <3>. QED
      BY <2>1, SmallestExists
  <2>3. k \in 1..Len(pending) /\ pending[k] = call /\ \A j \in 1..(k - 1) : pending[j] # call
    BY <1>1, <2>2
  <2>4. Place(pending, call) = CHOOSE i \in 1..Len(pending) : pending[i] = call /\ \A j \in 1..(i - 1) : pending[j] # call
    BY <1>2 DEF Place
  <2>. DEFINE p == CHOOSE i \in 1..Len(pending) : pending[i] = call /\ \A j \in 1..(i - 1) : pending[j] # call
  <2>5. p \in 1..Len(pending) /\ pending[p] = call /\ \A j \in 1..(p - 1) : pending[j] # call
    BY <2>3
  <2>. HIDE DEF p
  <2>6. pending[1] = call => p = 1
    <3>. SUFFICES ASSUME pending[1] = call, p # 1 PROVE FALSE
      OBVIOUS
    <3>1. 1 \in 1..(p - 1)
      BY <2>5
    <3>. QED
      BY <2>5, <3>1
  <2>. QED
    BY <2>4, <2>5, <2>6 DEF p
<1>3. CASE ~Contains(pending, call)
  BY <1>1, <1>3 DEF Place
<1>. QED
  BY <1>2, <1>3

\* What is pending, answered with placeholders.
LEMMA FlushIs ==
  ASSUME NEW s \in RepairStates
  PROVE  /\ Flush(s) \in Seq(Msgs) /\ Len(Flush(s)) = Len(s.out) + Len(s.pending)
         /\ \A i \in 1..Len(s.out) : Flush(s)[i] = s.out[i]
         /\ \A i \in 1..Len(s.pending) : Flush(s)[Len(s.out) + i] = Placeholder(s.pending[i])
<1>. DEFINE holders == [i \in 1..Len(s.pending) |-> Placeholder(s.pending[i])]
<1>1. s.pending \in Seq(Nat) /\ s.out \in Seq(Msgs)
  BY DEF RepairStates
<1>2. Len(s.pending) \in Nat /\ Len(s.out) \in Nat /\ \A i \in 1..Len(s.pending) : s.pending[i] \in Nat
  BY <1>1, LenProperties, ElementOfSeq
<1>3. \A i \in 1..Len(s.pending) : Placeholder(s.pending[i]) \in Msgs
  BY <1>2, MessagesMade
<1>4. holders \in Seq(Msgs) /\ Len(holders) = Len(s.pending)
  BY <1>2, <1>3
<1>5. \A i \in 1..Len(s.pending) : holders[i] = Placeholder(s.pending[i])
  OBVIOUS
<1>6. Flush(s) = s.out \o holders
  BY DEF Flush
<1>. HIDE DEF holders
<1>7. /\ s.out \o holders \in Seq(Msgs) /\ Len(s.out \o holders) = Len(s.out) + Len(holders)
      /\ \A i \in 1..Len(s.out) + Len(holders) :
           (s.out \o holders)[i] = IF i <= Len(s.out) THEN s.out[i] ELSE holders[i - Len(s.out)]
  BY <1>1, <1>4, ConcatProperties
<1>8. ASSUME NEW i \in 1..Len(s.pending)
      PROVE  /\ Len(s.out) + i - Len(s.out) = i /\ ~(Len(s.out) + i <= Len(s.out))
             /\ Len(s.out) + i \in 1..Len(s.out) + Len(s.pending)
  <2>1. PICK a \in Nat, b \in Nat : a = Len(s.out) /\ b = Len(s.pending)
    BY <1>2
  <2>2. i \in 1..b
    BY <2>1
  <2>3. a + i - a = i /\ ~(a + i <= a) /\ a + i \in 1..a + b
    BY <2>2
  <2>. QED
    BY <2>1, <2>3
<1>. QED
  BY <1>2, <1>4, <1>5, <1>6, <1>7, <1>8

\* Each step of the repair stays within its states.
LEMMA RepairIs ==
  ASSUME NEW s \in RepairStates, NEW m \in Msgs
  PROVE  Repair(s, m) \in RepairStates
<1>1. s.pending \in Seq(Nat) /\ s.out \in Seq(Msgs) /\ Flush(s) \in Seq(Msgs)
  BY FlushIs DEF RepairStates
<1>2. CASE ~IsTool(m)
  <2>1. CallsOf(m) \in Seq(Nat) /\ Append(Flush(s), m) \in Seq(Msgs)
    BY <1>1, MessagesAre, AppendProperties
  <2>2. Repair(s, m) = [pending |-> CallsOf(m), out |-> Append(Flush(s), m)]
    BY <1>2 DEF Repair
  <2>. QED
    BY <2>1, <2>2 DEF RepairStates
<1>3. CASE IsTool(m) /\ s.pending = <<>>
  BY <1>3 DEF Repair
<1>4. CASE IsTool(m) /\ s.pending # <<>>
  <2>. DEFINE k == Place(s.pending, m.of)
              a == [m EXCEPT !.of = s.pending[k]]
  <2>1. k \in 1..Len(s.pending)
    BY <1>1, <1>4, PlaceIs
  <2>2. s.pending[k] \in Nat /\ RemoveAt(s.pending, k) \in Seq(Nat)
    BY <1>1, <2>1, ElementOfSeq, WithoutOne
  <2>3. Repair(s, m) = [pending |-> RemoveAt(s.pending, k), out |-> Append(s.out, a)]
    BY <1>4 DEF Repair
  <2>. HIDE DEF k
  <2>4. a \in Msgs
    <3>1. m.n \in Nat /\ m.out \in Outcomes /\ a = Tool(m.n, s.pending[k], m.out)
      BY <1>4, <2>2, MessagesAre DEF Tool
    <3>. QED
      BY <2>2, <3>1, MessagesMade
  <2>. HIDE DEF a
  <2>5. Append(s.out, a) \in Seq(Msgs)
    BY <1>1, <2>4, AppendProperties
  <2>. QED
    BY <2>2, <2>3, <2>5 DEF RepairStates
<1>. QED
  BY <1>2, <1>3, <1>4

NothingRepaired == [pending |-> <<>>, out |-> <<>>]

\* The repair of the messages, step by step.
LEMMA RepairedIs ==
  ASSUME NEW messages \in Seq(Msgs)
  PROVE  /\ Repaired(messages) \in [0..Len(messages) -> RepairStates]
         /\ Repaired(messages)[0] = NothingRepaired
         /\ \A k \in 1..Len(messages) : Repaired(messages)[k] = Repair(Repaired(messages)[k - 1], messages[k])
<1>. DEFINE F == [s \in RepairStates |-> [m \in Msgs |-> Repair(s, m)]]
<1>1. F \in Ways(RepairStates, Msgs)
  BY RepairIs DEF Ways
<1>2. NothingRepaired \in RepairStates
  BY EmptySeq DEF NothingRepaired, RepairStates
<1>3. PICK f \in [0..Len(messages) -> RepairStates] :
        f[0] = NothingRepaired /\ \A k \in 1..Len(messages) : f[k] = F[f[k - 1]][messages[k]]
  <2>. HIDE DEF F
  <2>. QED
    BY <1>1, <1>2, GoesOn
<1>4. Len(messages) \in Nat /\ \A k \in 1..Len(messages) : messages[k] \in Msgs
  BY LenProperties, ElementOfSeq
<1>5. f = [k \in 0..Len(messages) |-> IF k = 0 THEN NothingRepaired ELSE Repair(f[k - 1], messages[k])]
  <2>1. ASSUME NEW k \in 0..Len(messages), k # 0 PROVE F[f[k - 1]][messages[k]] = Repair(f[k - 1], messages[k])
    <3>1. k - 1 \in 0..Len(messages) /\ k \in 1..Len(messages)
      BY <1>4, <2>1
    <3>2. f[k - 1] \in RepairStates /\ messages[k] \in Msgs
      BY <1>3, <1>4, <3>1
    <3>. QED
      BY <3>2
  <2>. HIDE DEF F
  <2>. QED
    BY <1>3, <2>1
<1>. HIDE DEF F
<1>6. Repaired(messages)
        = [k \in 0..Len(messages) |-> IF k = 0 THEN NothingRepaired ELSE Repair(Repaired(messages)[k - 1], messages[k])]
  BY <1>5 DEF Repaired, NothingRepaired
<1>7. /\ DOMAIN Repaired(messages) = 0..Len(messages) /\ Repaired(messages)[0] = NothingRepaired
      /\ \A k \in 1..Len(messages) : Repaired(messages)[k] = Repair(Repaired(messages)[k - 1], messages[k])
  <2>1. PICK g : g = Repaired(messages)
    OBVIOUS
  <2>2. g = [k \in 0..Len(messages) |-> IF k = 0 THEN NothingRepaired ELSE Repair(g[k - 1], messages[k])]
    BY <1>6, <2>1
  <2>3. DOMAIN g = 0..Len(messages) /\ g[0] = NothingRepaired
        /\ \A k \in 1..Len(messages) : g[k] = Repair(g[k - 1], messages[k])
    BY <1>4, <2>2
  <2>. QED
    BY <2>1, <2>3
<1>8. {k \in 0..Len(messages) : Repaired(messages)[k] \in RepairStates} = 0..Len(messages)
  <2>. DEFINE S == {k \in 0..Len(messages) : Repaired(messages)[k] \in RepairStates}
  <2>1. 0 \in S
    BY <1>2, <1>4, <1>7
  <2>2. ASSUME NEW k \in S, k < Len(messages) PROVE k + 1 \in S
    <3>1. k + 1 \in 1..Len(messages) /\ k + 1 - 1 = k /\ k + 1 \in 0..Len(messages)
      BY <1>4, <2>2
    <3>2. Repaired(messages)[k + 1] = Repair(Repaired(messages)[k], messages[k + 1])
      BY <1>7, <3>1
    <3>. QED
      BY <1>4, <3>1, <3>2, RepairIs
  <2>3. S \in SUBSET (0..Len(messages))
    OBVIOUS
  <2>. HIDE DEF S
  <2>4. S = 0..Len(messages)
    BY <1>4, <2>1, <2>2, <2>3, CountedUp
  <2>. QED
    BY <2>4 DEF S
<1>9. \A k \in 0..Len(messages) : Repaired(messages)[k] \in RepairStates
  BY <1>8
<1>. QED
  BY <1>6, <1>7, <1>9

\* What a provider insists on.
WellFormed(p) ==
  (p # <<>> => ~IsTool(p[1])) /\ \A i \in 1..Len(p) : IsTool(p[i]) \/ Answered(p, i)

\* The last message that is no result, at b, has results behind it, and the other
\* of its calls are pending; the messages before it are answered.
Unanswered(out, pending, b) ==
  /\ ~IsTool(out[b])
  /\ \A j \in b + 1..Len(out) : IsTool(out[j])
  /\ Len(out) - b + Len(pending) = Len(CallsOf(out[b]))
  /\ {out[j].of : j \in b + 1..Len(out)} \cup ToSet(pending) = ToSet(CallsOf(out[b]))
  /\ \A i \in 1..b - 1 : IsTool(out[i]) \/ Answered(out, i)
InOrder(s) ==
  \/ s.out = <<>> /\ s.pending = <<>>
  \/ s.out # <<>> /\ ~IsTool(s.out[1]) /\ \E b \in 1..Len(s.out) : Unanswered(s.out, s.pending, b)

\* Results end before the next message that is none.
LEMMA AnsweredBefore ==
  ASSUME NEW p \in Seq(Msgs), NEW b \in 1..Len(p), NEW i \in 1..b - 1, ~IsTool(p[b]), Answered(p, i)
  PROVE  i + Len(CallsOf(p[i])) + 1 <= b
<1>1. p[i] \in Msgs /\ Len(p) \in Nat
  BY LenProperties, ElementOfSeq
<1>2. Len(CallsOf(p[i])) \in Nat
  BY <1>1, MessagesAre, LenProperties
<1>3. \A j \in i + 1..i + Len(CallsOf(p[i])) + 1 - 1 : IsTool(p[j])
  BY DEF Answered
<1>. QED
  BY <1>1, <1>2, <1>3

\* What follows the results of a message, but results, does not matter to it.
LEMMA AnsweredStays ==
  ASSUME NEW p \in Seq(Msgs), NEW q \in Seq(Msgs), Len(p) <= Len(q), \A j \in 1..Len(p) : q[j] = p[j],
         NEW i \in 1..Len(p), Answered(p, i),
         i + Len(CallsOf(p[i])) + 1 <= Len(p) \/ (Len(p) < Len(q) => ~IsTool(q[Len(p) + 1]))
  PROVE  Answered(q, i)
<1>. DEFINE next == i + Len(CallsOf(p[i])) + 1
<1>1. p[i] \in Msgs /\ Len(p) \in Nat /\ Len(q) \in Nat
  BY LenProperties, ElementOfSeq
<1>2. Len(CallsOf(p[i])) \in Nat
  BY <1>1, MessagesAre, LenProperties
<1>3. /\ next <= Len(p) + 1 /\ \A j \in i + 1..next - 1 : IsTool(p[j])
      /\ {p[j].of : j \in i + 1..next - 1} = ToSet(CallsOf(p[i]))
      /\ next <= Len(p) => ~IsTool(p[next])
  BY DEF Answered
<1>4. next \in Nat /\ i < next /\ (next <= Len(p) \/ (Len(p) < Len(q) => ~IsTool(q[Len(p) + 1])))
  BY <1>1, <1>2
<1>. HIDE DEF next
<1>5. q[i] = p[i] /\ \A j \in i + 1..next - 1 : j \in 1..Len(p) /\ q[j] = p[j]
  BY <1>1, <1>3, <1>4
<1>6. {q[j].of : j \in i + 1..next - 1} = ToSet(CallsOf(p[i]))
  BY <1>3, <1>5
<1>7. next <= Len(q) => ~IsTool(q[next])
  <2>1. CASE next <= Len(p)
    BY <1>1, <1>3, <1>4, <2>1
  <2>2. CASE next = Len(p) + 1
    <3>1. ~(next <= Len(p)) /\ (next <= Len(q) => Len(p) < Len(q))
      BY <1>1, <2>2
    <3>. QED
      BY <1>4, <2>2, <3>1
  <2>. QED
    BY <1>1, <1>3, <1>4, <2>1, <2>2
<1>8. /\ next <= Len(q) + 1 /\ \A j \in i + 1..next - 1 : IsTool(q[j])
      /\ next = i + Len(CallsOf(q[i])) + 1 /\ {q[j].of : j \in i + 1..next - 1} = ToSet(CallsOf(q[i]))
  BY <1>1, <1>3, <1>4, <1>5, <1>6 DEF next
<1>. QED
  BY <1>7, <1>8 DEF Answered

\* With placeholders for what is pending, every call has its result.
LEMMA FlushedIsWellFormed ==
  ASSUME NEW s \in RepairStates, InOrder(s)
  PROVE  WellFormed(Flush(s))
<1>. DEFINE p == Flush(s)
<1>1. s.pending \in Seq(Nat) /\ s.out \in Seq(Msgs)
  BY DEF RepairStates
<1>a. PICK n \in Nat, m \in Nat : n = Len(s.out) /\ m = Len(s.pending)
  BY <1>1, LenProperties
<1>b. n = Len(s.out) /\ m = Len(s.pending)
  BY <1>a
<1>2. /\ p \in Seq(Msgs) /\ Len(p) = n + m
      /\ \A i \in 1..n : p[i] = s.out[i]
      /\ \A i \in 1..m : p[n + i] = Placeholder(s.pending[i])
  BY <1>b, FlushIs
<1>. HIDE DEF p
<1>3. DOMAIN s.pending = 1..m /\ \A i \in 1..m : s.pending[i] \in Nat
  BY <1>1, <1>b, LenProperties, ElementOfSeq
<1>4. ASSUME NEW j \in n + 1..Len(p)
      PROVE  j - n \in 1..m /\ p[j] = Placeholder(s.pending[j - n])
             /\ IsTool(p[j]) /\ p[j].of = s.pending[j - n]
  <2>1. j - n \in 1..m /\ n + (j - n) = j
    BY <1>2, <1>3
  <2>2. p[j] = Placeholder(s.pending[j - n])
    BY <1>2, <2>1
  <2>. QED
    BY <2>1, <2>2 DEF Placeholder, IsTool
<1>5. CASE s.out = <<>> /\ s.pending = <<>>
  <2>1. Len(p) = 0
    BY <1>b, <1>2, <1>5
  <2>2. p = <<>>
    BY <1>2, <2>1, EmptySeq
  <2>. QED
    BY <2>1, <2>2 DEF WellFormed, p
<1>6. CASE s.out # <<>> /\ ~IsTool(s.out[1]) /\ \E b \in 1..n : Unanswered(s.out, s.pending, b)
  <2>1. PICK b \in 1..n : Unanswered(s.out, s.pending, b)
    BY <1>b, <1>6
  <2>2. /\ ~IsTool(s.out[b]) /\ \A j \in b + 1..n : IsTool(s.out[j])
        /\ n - b + m = Len(CallsOf(s.out[b]))
        /\ {s.out[j].of : j \in b + 1..n} \cup ToSet(s.pending) = ToSet(CallsOf(s.out[b]))
        /\ \A i \in 1..b - 1 : IsTool(s.out[i]) \/ Answered(s.out, i)
    BY <1>b, <2>1 DEF Unanswered
  <2>3. p[b] = s.out[b] /\ Len(p) = b + Len(CallsOf(p[b])) /\ p[1] = s.out[1] /\ Len(CallsOf(p[b])) \in Nat
    <3>1. 1 \in 1..n
      BY <2>1
    <3>2. p[b] = s.out[b] /\ p[1] = s.out[1]
      BY <1>2, <2>1, <3>1
    <3>3. CallsOf(s.out[b]) \in Seq(Nat)
      BY <1>1, <1>b, <2>1, ElementOfSeq, MessagesAre
    <3>4. Len(CallsOf(s.out[b])) \in Nat
      BY <3>3, LenProperties
    <3>5. n + m = b + Len(CallsOf(s.out[b]))
      BY <1>3, <2>1, <2>2, <3>4
    <3>. QED
      BY <1>2, <3>2, <3>4, <3>5
  <2>4. ASSUME NEW j \in b + 1..Len(p) PROVE IsTool(p[j])
    <3>1. CASE j <= n
      <4>1. j \in b + 1..n /\ j \in 1..n
        BY <1>3, <2>1, <3>1
      <4>. QED
        BY <1>2, <2>2, <4>1
    <3>2. CASE ~(j <= n)
      <4>1. j \in n + 1..Len(p)
        BY <1>3, <2>1, <3>2
      <4>. QED
        BY <1>4, <4>1
    <3>. QED
      BY <3>1, <3>2
  <2>5. {p[j].of : j \in b + 1..Len(p)} = ToSet(CallsOf(p[b]))
    <3>1. ASSUME NEW j \in b + 1..Len(p) PROVE p[j].of \in {s.out[i].of : i \in b + 1..n} \cup ToSet(s.pending)
      <4>1. CASE j <= n
        <5>1. j \in b + 1..n /\ j \in 1..n
          BY <1>3, <2>1, <4>1
        <5>. QED
          BY <1>2, <5>1
      <4>2. CASE ~(j <= n)
        <5>1. j \in n + 1..Len(p)
          BY <1>3, <2>1, <4>2
        <5>2. p[j].of = s.pending[j - n] /\ j - n \in DOMAIN s.pending
          BY <1>3, <1>4, <5>1
        <5>. QED
          BY <5>2 DEF ToSet
      <4>. QED
        BY <4>1, <4>2
    <3>2. ASSUME NEW i \in b + 1..n PROVE s.out[i].of \in {p[j].of : j \in b + 1..Len(p)}
      <4>1. i \in 1..n /\ i \in b + 1..Len(p)
        BY <1>2, <1>3, <2>1
      <4>. QED
        BY <1>2, <4>1
    <3>3. ASSUME NEW i \in 1..m PROVE s.pending[i] \in {p[j].of : j \in b + 1..Len(p)}
      <4>1. n + i \in b + 1..Len(p) /\ n + i \in n + 1..Len(p) /\ n + i - n = i
        BY <1>2, <1>3, <2>1
      <4>. QED
        BY <1>4, <4>1
    <3>4. ToSet(s.pending) \subseteq {p[j].of : j \in b + 1..Len(p)}
      BY <1>3, <3>3 DEF ToSet
    <3>. QED
      BY <2>2, <2>3, <3>1, <3>2, <3>4
  <2>6. Answered(p, b)
    <3>1. b + Len(CallsOf(p[b])) + 1 = Len(p) + 1 /\ b + Len(CallsOf(p[b])) + 1 - 1 = Len(p) /\ Len(p) \in Nat
      BY <2>1, <2>3
    <3>. QED
      BY <2>4, <2>5, <3>1 DEF Answered
  <2>7. ASSUME NEW i \in 1..b - 1, ~IsTool(p[i]) PROVE Answered(p, i)
    <3>1. i \in 1..n /\ p[i] = s.out[i]
      BY <1>2, <1>3, <2>1
    <3>2. Answered(s.out, i)
      BY <2>2, <2>7, <3>1
    <3>3. i + Len(CallsOf(s.out[i])) + 1 <= b
      BY <1>1, <2>1, <2>2, <3>2, <1>b, AnsweredBefore
    <3>4. i + Len(CallsOf(s.out[i])) + 1 <= n
      <4>1. CallsOf(s.out[i]) \in Seq(Nat)
        BY <1>1, <1>b, <3>1, ElementOfSeq, MessagesAre
      <4>2. Len(CallsOf(s.out[i])) \in Nat
        BY <4>1, LenProperties
      <4>. QED
        BY <1>3, <2>1, <3>3, <4>2
    <3>5. n <= Len(p)
      BY <1>2, <1>3
    <3>. QED
      BY <1>1, <1>2, <3>1, <3>2, <3>4, <3>5, <1>b, AnsweredStays
  <2>8. \A i \in 1..Len(p) : i \in 1..b - 1 \/ i = b \/ i \in b + 1..Len(p)
    BY <2>1, <2>3
  <2>9. \A i \in 1..Len(p) : IsTool(p[i]) \/ Answered(p, i)
    BY <2>4, <2>6, <2>7, <2>8
  <2>. QED
    BY <1>6, <2>3, <2>9 DEF WellFormed, p
<1>. QED
  BY <1>b, <1>5, <1>6 DEF InOrder

\* One message more keeps the order.
LEMMA RepairKeepsOrder ==
  ASSUME NEW s \in RepairStates, InOrder(s), NEW m \in Msgs
  PROVE  InOrder(Repair(s, m))
<1>1. s.pending \in Seq(Nat) /\ s.out \in Seq(Msgs)
  BY DEF RepairStates
<1>2. CASE ~IsTool(m)
  <2>. DEFINE p == Flush(s)
              q == Append(p, m)
  <2>1. Repair(s, m) = [pending |-> CallsOf(m), out |-> q]
    BY <1>2 DEF Repair
  <2>2. p \in Seq(Msgs) /\ WellFormed(p)
    BY FlushIs, FlushedIsWellFormed
  <2>. HIDE DEF p
  <2>3. PICK n \in Nat : n = Len(p)
    BY <2>2, LenProperties
  <2>4. /\ q \in Seq(Msgs) /\ q # <<>> /\ Len(q) = n + 1
        /\ \A i \in 1..n : q[i] = p[i]
        /\ q[n + 1] = m
    BY <2>2, <2>3, AppendProperties
  <2>. HIDE DEF q
  <2>5. ~IsTool(q[1])
    <3>1. CASE n = 0
      BY <1>2, <2>4, <3>1
    <3>2. CASE n # 0
      <4>1. 1 \in 1..n /\ p # <<>>
        BY <2>3, <3>2, EmptySeq
      <4>. QED
        BY <2>2, <2>4, <4>1 DEF WellFormed
    <3>. QED
      BY <3>1, <3>2
  <2>6. Unanswered(q, CallsOf(m), n + 1)
    <3>1. ASSUME NEW i \in 1..n PROVE IsTool(q[i]) \/ Answered(q, i)
      <4>1. IsTool(p[i]) \/ Answered(p, i)
        BY <2>2, <2>3 DEF WellFormed
      <4>2. Len(p) <= Len(q) /\ \A j \in 1..Len(p) : q[j] = p[j]
        BY <2>3, <2>4
      <4>3. i \in 1..Len(p) /\ ~IsTool(q[Len(p) + 1])
        BY <1>2, <2>3, <2>4
      <4>4. Answered(p, i) => Answered(q, i)
        BY <2>2, <2>4, <4>2, <4>3, AnsweredStays
      <4>. QED
        BY <2>4, <4>1, <4>4
    <3>2. ~IsTool(q[n + 1]) /\ (n + 1) + 1..Len(q) = {} /\ (n + 1) - 1 = n
      BY <1>2, <2>4
    <3>3. CallsOf(m) \in Seq(Nat)
      BY MessagesAre
    <3>4. Len(q) - (n + 1) + Len(CallsOf(m)) = Len(CallsOf(q[n + 1]))
      <4>1. PICK k \in Nat : k = Len(CallsOf(m))
        BY <3>3, LenProperties
      <4>2. n + 1 - (n + 1) + k = k
        OBVIOUS
      <4>. QED
        BY <2>4, <4>1, <4>2
    <3>5. {q[j].of : j \in (n + 1) + 1..Len(q)} \cup ToSet(CallsOf(m)) = ToSet(CallsOf(q[n + 1]))
      BY <2>4, <3>2
    <3>. QED
      BY <3>1, <3>2, <3>4, <3>5 DEF Unanswered
  <2>7. n + 1 \in 1..Len(q)
    BY <2>4
  <2>8. InOrder([pending |-> CallsOf(m), out |-> q])
    BY <2>4, <2>5, <2>6, <2>7 DEF InOrder
  <2>. QED
    BY <2>1, <2>8
<1>3. CASE IsTool(m) /\ s.pending = <<>>
  BY <1>3 DEF Repair
<1>4. CASE IsTool(m) /\ s.pending # <<>>
  <2>. DEFINE k == Place(s.pending, m.of)
              a == [m EXCEPT !.of = s.pending[k]]
              q == Append(s.out, a)
              r == RemoveAt(s.pending, k)
  <2>1. k \in 1..Len(s.pending)
    BY <1>1, <1>4, PlaceIs
  <2>3. Repair(s, m) = [pending |-> r, out |-> q]
    BY <1>4 DEF Repair
  <2>. HIDE DEF k
  <2>2. s.pending[k] \in Nat /\ r \in Seq(Nat) /\ Len(r) = Len(s.pending) - 1 /\ ToSet(s.pending) = ToSet(r) \cup {s.pending[k]}
    <3>1. s.pending[k] \in Nat
      BY <1>1, <2>1, ElementOfSeq
    <3>2. r \in Seq(Nat) /\ Len(r) = Len(s.pending) - 1
      BY <1>1, <2>1, WithoutOne
    <3>3. ToSet(s.pending) = ToSet(RemoveAt(s.pending, k)) \cup {s.pending[k]}
      BY <1>1, <2>1, WithoutOne
    <3>. QED
      BY <3>1, <3>2, <3>3
  <2>. HIDE DEF r
  <2>4. a \in Msgs /\ IsTool(a) /\ a.of = s.pending[k]
    <3>1. m.n \in Nat /\ m.out \in Outcomes /\ a = Tool(m.n, s.pending[k], m.out)
      BY <1>4, <2>2, MessagesAre DEF Tool
    <3>2. Tool(m.n, s.pending[k], m.out) \in Msgs /\ IsTool(Tool(m.n, s.pending[k], m.out))
      BY <2>2, <3>1, MessagesMade
    <3>3. Tool(m.n, s.pending[k], m.out).of = s.pending[k]
      BY DEF Tool
    <3>. QED
      BY <3>1, <3>2, <3>3
  <2>. HIDE DEF a
  <2>5. PICK n \in Nat, l \in Nat : n = Len(s.out) /\ l = Len(s.pending)
    BY <1>1, LenProperties
  <2>6. /\ q \in Seq(Msgs) /\ q # <<>> /\ Len(q) = n + 1
        /\ \A i \in 1..n : q[i] = s.out[i]
        /\ q[n + 1] = a
    BY <1>1, <2>4, <2>5, AppendProperties
  <2>. HIDE DEF q
  <2>7. s.out # <<>> /\ ~IsTool(s.out[1]) /\ \E b \in 1..Len(s.out) : Unanswered(s.out, s.pending, b)
    BY <1>4 DEF InOrder
  <2>8. PICK b \in 1..n : Unanswered(s.out, s.pending, b)
    BY <2>5, <2>7
  <2>9. /\ ~IsTool(s.out[b]) /\ \A j \in b + 1..n : IsTool(s.out[j])
        /\ n - b + l = Len(CallsOf(s.out[b]))
        /\ {s.out[j].of : j \in b + 1..n} \cup ToSet(s.pending) = ToSet(CallsOf(s.out[b]))
        /\ \A i \in 1..b - 1 : IsTool(s.out[i]) \/ Answered(s.out, i)
    BY <2>5, <2>8 DEF Unanswered
  <2>10. q[b] = s.out[b] /\ q[1] = s.out[1]
    BY <2>6, <2>8
  <2>11. \A j \in b + 1..n + 1 : IsTool(q[j])
    <3>1. \A j \in b + 1..n + 1 : j = n + 1 \/ (j \in b + 1..n /\ j \in 1..n)
      BY <2>8
    <3>. QED
      BY <2>4, <2>6, <2>9, <3>1
  <2>12. n + 1 - b + Len(r) = Len(CallsOf(q[b]))
    <3>1. Len(r) = l - 1
      BY <2>2, <2>5
    <3>2. n + 1 - b + (l - 1) = n - b + l
      BY <2>8
    <3>. QED
      BY <2>9, <2>10, <3>1, <3>2
  <2>13. {q[j].of : j \in b + 1..n + 1} \cup ToSet(r) = ToSet(CallsOf(q[b]))
    <3>1. \A j \in b + 1..n + 1 : j = n + 1 \/ (j \in b + 1..n /\ j \in 1..n)
      BY <2>8
    <3>2. n + 1 \in b + 1..n + 1 /\ \A j \in b + 1..n : j \in b + 1..n + 1 /\ j \in 1..n
      BY <2>8
    <3>3. {q[j].of : j \in b + 1..n + 1} = {s.out[j].of : j \in b + 1..n} \cup {s.pending[k]}
      BY <2>4, <2>6, <3>1, <3>2
    <3>. QED
      BY <2>2, <2>9, <2>10, <3>3
  <2>14. ASSUME NEW i \in 1..b - 1 PROVE IsTool(q[i]) \/ Answered(q, i)
    <3>1. i \in 1..n /\ q[i] = s.out[i]
      BY <2>6, <2>8
    <3>2. CASE Answered(s.out, i)
      <4>1. i + Len(CallsOf(s.out[i])) + 1 <= b
        BY <1>1, <2>5, <2>8, <2>9, <3>2, AnsweredBefore
      <4>2. CallsOf(s.out[i]) \in Seq(Nat)
        BY <1>1, <2>5, <3>1, ElementOfSeq, MessagesAre
      <4>3. PICK c \in Nat : c = Len(CallsOf(s.out[i]))
        BY <4>2, LenProperties
      <4>4. i + Len(CallsOf(s.out[i])) + 1 <= Len(s.out)
        BY <2>5, <2>8, <4>1, <4>3
      <4>5. Len(s.out) <= Len(q) /\ \A j \in 1..Len(s.out) : q[j] = s.out[j]
        BY <2>5, <2>6
      <4>6. i \in 1..Len(s.out)
        BY <2>5, <3>1
      <4>. QED
        BY <1>1, <2>6, <3>2, <4>4, <4>5, <4>6, AnsweredStays
    <3>. QED
      BY <2>9, <3>1, <3>2
  <2>15. Unanswered(q, r, b)
    BY <2>6, <2>9, <2>10, <2>11, <2>12, <2>13, <2>14 DEF Unanswered
  <2>16. b \in 1..Len(q)
    BY <2>6, <2>8
  <2>17. InOrder([pending |-> r, out |-> q])
    BY <2>6, <2>7, <2>10, <2>15, <2>16 DEF InOrder
  <2>. QED
    BY <2>3, <2>17
<1>. QED
  BY <1>2, <1>3, <1>4

\* Whatever the messages: what the repair makes of them is well formed.
LEMMA SanitizedIsWellFormed ==
  ASSUME NEW messages \in Seq(Msgs)
  PROVE  /\ sanitizeToolMessageSequence(messages) \in Seq(Msgs)
         /\ WellFormed(sanitizeToolMessageSequence(messages))
<1>. DEFINE R == Repaired(messages)
            S == {k \in 0..Len(messages) : InOrder(R[k])}
<1>1. /\ R \in [0..Len(messages) -> RepairStates] /\ R[0] = NothingRepaired
      /\ \A k \in 1..Len(messages) : R[k] = Repair(R[k - 1], messages[k])
  BY RepairedIs
<1>2. Len(messages) \in Nat /\ \A k \in 1..Len(messages) : messages[k] \in Msgs
  BY LenProperties, ElementOfSeq
<1>. HIDE DEF R
<1>3. S \in SUBSET (0..Len(messages))
  OBVIOUS
<1>4. 0 \in S
  <2>1. InOrder(NothingRepaired)
    BY DEF InOrder, NothingRepaired
  <2>. QED
    BY <1>1, <1>2, <2>1
<1>5. ASSUME NEW k \in S, k < Len(messages) PROVE k + 1 \in S
  <2>1. k \in 0..Len(messages) /\ InOrder(R[k]) /\ k + 1 \in 1..Len(messages) /\ k + 1 - 1 = k /\ k + 1 \in 0..Len(messages)
    BY <1>2, <1>5
  <2>2. R[k] \in RepairStates /\ R[k + 1] = Repair(R[k], messages[k + 1]) /\ messages[k + 1] \in Msgs
    BY <1>1, <1>2, <2>1
  <2>3. InOrder(R[k + 1])
    BY <2>1, <2>2, RepairKeepsOrder
  <2>. QED
    BY <2>1, <2>3
<1>6. Len(messages) \in S
  <2>. HIDE DEF S
  <2>. QED
    BY <1>2, <1>3, <1>4, <1>5, CountedUp
<1>7. R[Len(messages)] \in RepairStates
  BY <1>1, <1>2
<1>. QED
  BY <1>6, <1>7, FlushIs, FlushedIsWellFormed DEF sanitizeToolMessageSequence, R

\* A result comes after those of the calls before its own, right after the message
\* of that call.
Linked(h) ==
  \A i \in 1..Len(h) : IsTool(h[i]) =>
    \E j \in 1..i - 1 : /\ h[j].kind = "ai" /\ i - j <= Len(h[j].calls) /\ h[i].of = h[j].calls[i - j]
                        /\ \A k \in j + 1..i : IsTool(h[k])

\* What the repair of linked messages has come to after k of them: the calls that
\* are pending; every message is kept, and every result with its call.
Pends(messages, k, pending) ==
  IF k = 0 THEN pending = <<>>
  ELSE \E j \in 1..k :
         /\ ~IsTool(messages[j]) /\ \A i \in j + 1..k : IsTool(messages[i])
         /\ Len(pending) = Len(CallsOf(messages[j])) - (k - j)
         /\ \A i \in 1..Len(pending) : pending[i] = CallsOf(messages[j])[k - j + i]
Keeps(messages, k, out) ==
  /\ \A i \in 1..k : \E q \in 1..Len(out) : out[q].n = messages[i].n
  /\ \A q \in 1..Len(out) : IsTool(out[q]) =>
       \/ out[q].n = 0
       \/ \E i \in 1..k : IsTool(messages[i]) /\ messages[i].n = out[q].n /\ messages[i].of = out[q].of

LEMMA LinkedAt ==
  ASSUME NEW h, Linked(h), NEW k \in 1..Len(h), IsTool(h[k])
  PROVE  \E j \in 1..k - 1 : /\ h[j].kind = "ai" /\ k - j <= Len(h[j].calls) /\ h[k].of = h[j].calls[k - j]
                             /\ \A l \in j + 1..k : IsTool(h[l])
BY DEF Linked

LEMMA FlushKeeps ==
  ASSUME NEW s \in RepairStates, NEW messages, NEW k, Keeps(messages, k, s.out)
  PROVE  Keeps(messages, k, Flush(s))
<1>. DEFINE p == Flush(s)
<1>1. s.pending \in Seq(Nat) /\ s.out \in Seq(Msgs)
  BY DEF RepairStates
<1>2. PICK n \in Nat, m \in Nat : n = Len(s.out) /\ m = Len(s.pending)
  BY <1>1, LenProperties
<1>3. /\ Len(p) = n + m /\ \A i \in 1..n : p[i] = s.out[i]
      /\ \A i \in 1..m : p[n + i] = Placeholder(s.pending[i])
  BY <1>2, FlushIs
<1>. HIDE DEF p
<1>4. \A i \in 1..k : \E q \in 1..Len(p) : p[q].n = messages[i].n
  <2>1. ASSUME NEW i \in 1..k PROVE \E q \in 1..Len(p) : p[q].n = messages[i].n
    <3>1. PICK q \in 1..n : s.out[q].n = messages[i].n
      BY <1>2 DEF Keeps
    <3>2. q \in 1..Len(p) /\ p[q] = s.out[q]
      BY <1>3
    <3>. QED
      BY <3>1, <3>2
  <2>. QED
    BY <2>1
<1>5. ASSUME NEW q \in 1..Len(p), IsTool(p[q])
      PROVE  \/ p[q].n = 0
             \/ \E i \in 1..k : IsTool(messages[i]) /\ messages[i].n = p[q].n /\ messages[i].of = p[q].of
  <2>1. CASE q <= n
    <3>1. q \in 1..n /\ p[q] = s.out[q]
      BY <1>3, <2>1
    <3>. QED
      BY SMTT(40), <1>2, <1>5, <3>1 DEF Keeps
  <2>2. CASE ~(q <= n)
    <3>1. q - n \in 1..m /\ n + (q - n) = q
      BY <1>3, <2>2
    <3>2. p[q] = Placeholder(s.pending[q - n])
      BY <1>3, <3>1
    <3>. QED
      BY <3>2 DEF Placeholder
  <2>. QED
    BY <2>1, <2>2
<1>. QED
  BY <1>4, <1>5 DEF Keeps, p

\* A message that is no result.
LEMMA RepairKeepsMessage ==
  ASSUME NEW s \in RepairStates, NEW messages \in Seq(Msgs), NEW k \in 1..Len(messages),
         Keeps(messages, k - 1, s.out), ~IsTool(messages[k])
  PROVE  /\ Pends(messages, k, Repair(s, messages[k]).pending)
         /\ Keeps(messages, k, Repair(s, messages[k]).out)
<1>. DEFINE m == messages[k]
            p == Flush(s)
            q == Append(p, m)
<1>1. m \in Msgs /\ Len(messages) \in Nat
  BY ElementOfSeq, LenProperties
<1>2. Repair(s, m).pending = CallsOf(m) /\ Repair(s, m).out = q
  BY DEF Repair
<1>3. p \in Seq(Msgs) /\ Keeps(messages, k - 1, p)
  BY FlushIs, FlushKeeps
<1>. HIDE DEF p
<1>4. PICK n \in Nat : n = Len(p)
  BY <1>3, LenProperties
<1>5. Len(q) = n + 1 /\ q[n + 1] = m /\ \A i \in 1..n : q[i] = p[i]
  BY <1>1, <1>3, <1>4, AppendProperties
<1>. HIDE DEF q
<1>6. Pends(messages, k, CallsOf(m))
  <2>1. CallsOf(m) \in Seq(Nat)
    BY <1>1, MessagesAre
  <2>2. PICK c \in Nat : c = Len(CallsOf(m))
    BY <2>1, LenProperties
  <2>3. k # 0 /\ k \in 1..k /\ k + 1..k = {} /\ c = c - (k - k) /\ \A i \in 1..c : k - k + i = i
    BY <1>1, <2>2
  <2>4. Len(CallsOf(m)) = Len(CallsOf(m)) - (k - k) /\ \A i \in 1..Len(CallsOf(m)) : CallsOf(m)[i] = CallsOf(m)[k - k + i]
    BY <2>2, <2>3
  <2>. QED
    BY <2>3, <2>4 DEF Pends
<1>7. \A i \in 1..k : \E j \in 1..Len(q) : q[j].n = messages[i].n
  <2>1. ASSUME NEW i \in 1..k PROVE \E j \in 1..Len(q) : q[j].n = messages[i].n
    <3>1. CASE i = k
      <4>1. n + 1 \in 1..Len(q)
        BY <1>5
      <4>. QED
        BY <1>5, <3>1, <4>1
    <3>2. CASE i # k
      <4>1. i \in 1..k - 1
        BY <1>1, <3>2
      <4>2. PICK j \in 1..n : p[j].n = messages[i].n
        BY <1>3, <1>4, <4>1 DEF Keeps
      <4>3. j \in 1..Len(q) /\ q[j] = p[j]
        BY <1>5
      <4>. QED
        BY <4>2, <4>3
    <3>. QED
      BY <3>1, <3>2
  <2>. QED
    BY <2>1
<1>8. ASSUME NEW j \in 1..Len(q), IsTool(q[j])
      PROVE  \/ q[j].n = 0
             \/ \E i \in 1..k : IsTool(messages[i]) /\ messages[i].n = q[j].n /\ messages[i].of = q[j].of
  <2>1. j \in 1..n /\ q[j] = p[j]
    BY <1>5, <1>8
  <2>2. \/ p[j].n = 0
        \/ \E i \in 1..k - 1 : IsTool(messages[i]) /\ messages[i].n = p[j].n /\ messages[i].of = p[j].of
    BY <1>3, <1>4, <1>8, <2>1 DEF Keeps
  <2>3. \A i \in 1..k - 1 : i \in 1..k
    BY <1>1
  <2>. QED
    BY <2>1, <2>2, <2>3
<1>9. Keeps(messages, k, q)
  BY <1>7, <1>8 DEF Keeps
<1>. QED
  BY <1>2, <1>6, <1>9

\* A result that is linked goes where it belongs: it is the one of the first call pending.
LEMMA RepairKeepsResult ==
  ASSUME NEW s \in RepairStates, NEW messages \in Seq(Msgs), Linked(messages), NEW k \in 1..Len(messages),
         Pends(messages, k - 1, s.pending), Keeps(messages, k - 1, s.out), IsTool(messages[k])
  PROVE  /\ Pends(messages, k, Repair(s, messages[k]).pending)
         /\ Keeps(messages, k, Repair(s, messages[k]).out)
<1>1. /\ s.pending \in Seq(Nat) /\ s.out \in Seq(Msgs) /\ Len(messages) \in Nat
      /\ \A i \in 1..Len(messages) : messages[i] \in Msgs
  BY LenProperties, ElementOfSeq DEF RepairStates
<1>2. PICK j \in 1..k - 1 : /\ messages[j].kind = "ai" /\ k - j <= Len(messages[j].calls)
                            /\ messages[k].of = messages[j].calls[k - j]
                            /\ \A i \in j + 1..k : IsTool(messages[i])
  BY DEF Linked
<1>3. PICK e \in 1..k - 1 :
         /\ ~IsTool(messages[e]) /\ \A i \in e + 1..k - 1 : IsTool(messages[i])
         /\ Len(s.pending) = Len(CallsOf(messages[e])) - (k - 1 - e)
         /\ \A i \in 1..Len(s.pending) : s.pending[i] = CallsOf(messages[e])[k - 1 - e + i]
  <2>1. k - 1 # 0
    BY <1>2
  <2>. QED
    BY <2>1 DEF Pends
<1>4. e = j /\ ~IsTool(messages[j]) /\ CallsOf(messages[j]) = messages[j].calls
  <2>1. ~IsTool(messages[j]) /\ CallsOf(messages[j]) = messages[j].calls
    BY <1>2 DEF IsTool, CallsOf
  <2>2. ~(e < j)
    <3>1. e < j => j \in e + 1..k - 1
      BY <1>2, <1>3
    <3>. QED
      BY <1>3, <2>1, <3>1
  <2>3. ~(j < e)
    <3>1. j < e => e \in j + 1..k
      BY <1>2, <1>3
    <3>. QED
      BY <1>2, <1>3, <3>1
  <2>. QED
    BY <1>2, <1>3, <2>1, <2>2, <2>3
<1>. DEFINE calls == messages[j].calls
            m == messages[k]
            q == Append(s.out, m)
            r == RemoveAt(s.pending, 1)
<1>5. calls \in Seq(Nat) /\ m \in Msgs /\ j \in 1..Len(messages)
  BY <1>1, <1>2, MessagesAre
<1>. HIDE DEF calls
<1>6. PICK l \in Nat, c \in Nat : l = Len(s.pending) /\ c = Len(calls)
  BY <1>1, <1>5, LenProperties
<1>7. l = c - (k - 1 - j) /\ k - j <= c /\ m.of = calls[k - j] /\ \A i \in 1..l : s.pending[i] = calls[k - 1 - j + i]
  BY <1>2, <1>3, <1>4, <1>6 DEF calls
<1>8. 1 \in 1..l /\ k - 1 - j + 1 = k - j
  <2>1. k \in Nat /\ j \in Nat
    BY <1>1
  <2>2. l = c - (k - 1 - j) /\ k - j <= c
    BY <1>7
  <2>. QED
    BY <2>1, <2>2
<1>9. s.pending # <<>> /\ s.pending[1] = m.of
  <2>1. s.pending[1] = calls[k - 1 - j + 1]
    BY <1>7, <1>8
  <2>2. s.pending # <<>>
    BY <1>6, <1>8
  <2>. QED
    BY <1>7, <1>8, <2>1, <2>2
<1>10. Repair(s, m).pending = r /\ Repair(s, m).out = q
  <2>1. Place(s.pending, m.of) = 1
    BY <1>1, <1>9, PlaceIs
  <2>2. [m EXCEPT !.of = s.pending[1]] = m
    <3>1. m = [kind |-> "tool", n |-> m.n, of |-> m.of, out |-> m.out] /\ m.of \in Nat
      BY <1>5, MessagesAre
    <3>2. [m EXCEPT !.of = m.of] = [kind |-> "tool", n |-> m.n, of |-> m.of, out |-> m.out]
      BY <1>5, <3>1, MessagesAre
    <3>. QED
      BY <1>9, <3>1, <3>2
  <2>3. Repair(s, m) = [pending |-> RemoveAt(s.pending, Place(s.pending, m.of)),
                        out |-> Append(s.out, [m EXCEPT !.of = s.pending[Place(s.pending, m.of)]])]
    BY <1>9 DEF Repair
  <2>4. Repair(s, m) = [pending |-> r, out |-> q]
    BY <2>1, <2>2, <2>3
  <2>. HIDE DEF r, q
  <2>. QED
    BY <2>4
<1>11. Len(r) = l - 1 /\ \A i \in 1..l - 1 : r[i] = s.pending[i + 1]
  BY <1>1, <1>6, <1>8, WithoutOne
<1>. HIDE DEF r
<1>12. Pends(messages, k, r)
  <2>1. l - 1 = c - (k - j) /\ k # 0 /\ j \in 1..k
    BY <1>1, <1>2, <1>7
  <2>2. ASSUME NEW i \in 1..l - 1 PROVE r[i] = calls[k - j + i]
    <3>1. i + 1 \in 1..l /\ k - 1 - j + (i + 1) = k - j + i
      BY <1>1, <1>2
    <3>. QED
      BY <1>7, <1>11, <3>1
  <2>3. Len(r) = Len(CallsOf(messages[j])) - (k - j) /\ \A i \in 1..Len(r) : r[i] = CallsOf(messages[j])[k - j + i]
    BY <1>4, <1>6, <1>11, <2>1, <2>2 DEF calls
  <2>. QED
    BY <1>2, <1>4, <2>1, <2>3 DEF Pends
<1>13. PICK n \in Nat : n = Len(s.out)
  BY <1>1, LenProperties
<1>14. Len(q) = n + 1 /\ q[n + 1] = m /\ \A i \in 1..n : q[i] = s.out[i]
  BY <1>1, <1>5, <1>13, AppendProperties
<1>. HIDE DEF q
<1>15. \A i \in 1..k : \E p \in 1..Len(q) : q[p].n = messages[i].n
  <2>1. ASSUME NEW i \in 1..k PROVE \E p \in 1..Len(q) : q[p].n = messages[i].n
    <3>1. CASE i = k
      <4>1. n + 1 \in 1..Len(q)
        BY <1>14
      <4>. QED
        BY <1>14, <3>1, <4>1
    <3>2. CASE i # k
      <4>1. i \in 1..k - 1
        BY <1>1, <3>2
      <4>2. PICK p \in 1..n : s.out[p].n = messages[i].n
        BY <1>13, <4>1 DEF Keeps
      <4>3. p \in 1..Len(q) /\ q[p] = s.out[p]
        BY <1>14
      <4>. QED
        BY <4>2, <4>3
    <3>. QED
      BY <3>1, <3>2
  <2>. QED
    BY <2>1
<1>16. ASSUME NEW p \in 1..Len(q), IsTool(q[p])
       PROVE  \/ q[p].n = 0
              \/ \E i \in 1..k : IsTool(messages[i]) /\ messages[i].n = q[p].n /\ messages[i].of = q[p].of
  <2>1. CASE p = n + 1
    <3>1. k \in 1..k
      BY <1>1
    <3>. QED
      BY <1>14, <2>1, <3>1
  <2>2. CASE p # n + 1
    <3>1. p \in 1..n /\ q[p] = s.out[p]
      BY <1>14, <2>2
    <3>2. \/ s.out[p].n = 0
          \/ \E i \in 1..k - 1 : IsTool(messages[i]) /\ messages[i].n = s.out[p].n /\ messages[i].of = s.out[p].of
      BY <1>13, <1>16, <3>1 DEF Keeps
    <3>3. \A i \in 1..k - 1 : i \in 1..k
      BY <1>1
    <3>. QED
      BY <3>1, <3>2, <3>3
  <2>. QED
    BY <2>1, <2>2
<1>17. Keeps(messages, k, q)
  BY <1>15, <1>16 DEF Keeps
<1>. QED
  BY <1>10, <1>12, <1>17

\* The repair of linked messages leaves none out and gives no result to another call.
LEMMA SanitizedKeeps ==
  ASSUME NEW messages \in Seq(Msgs), Linked(messages)
  PROVE  Keeps(messages, Len(messages), sanitizeToolMessageSequence(messages))
<1>. DEFINE R == Repaired(messages)
            S == {k \in 0..Len(messages) : Pends(messages, k, R[k].pending) /\ Keeps(messages, k, R[k].out)}
<1>1. /\ R \in [0..Len(messages) -> RepairStates] /\ R[0] = NothingRepaired
      /\ \A k \in 1..Len(messages) : R[k] = Repair(R[k - 1], messages[k])
  BY RepairedIs
<1>2. Len(messages) \in Nat
  BY LenProperties
<1>. HIDE DEF R
<1>3. S \in SUBSET (0..Len(messages))
  OBVIOUS
<1>4. 0 \in S
  <2>1. Pends(messages, 0, <<>>) /\ Keeps(messages, 0, <<>>)
    BY DEF Pends, Keeps
  <2>2. R[0].pending = <<>> /\ R[0].out = <<>>
    BY <1>1 DEF NothingRepaired
  <2>. QED
    BY <1>2, <2>1, <2>2
<1>5. ASSUME NEW k \in S, k < Len(messages) PROVE k + 1 \in S
  <2>1. /\ k \in 0..Len(messages) /\ Pends(messages, k, R[k].pending) /\ Keeps(messages, k, R[k].out)
        /\ k + 1 \in 1..Len(messages) /\ k + 1 - 1 = k /\ k + 1 \in 0..Len(messages)
    BY <1>2, <1>5
  <2>2. R[k] \in RepairStates /\ R[k + 1] = Repair(R[k], messages[k + 1])
    BY <1>1, <2>1
  <2>3. Pends(messages, k + 1, R[k + 1].pending) /\ Keeps(messages, k + 1, R[k + 1].out)
    BY <2>1, <2>2, RepairKeepsMessage, RepairKeepsResult
  <2>. QED
    BY <2>1, <2>3
<1>6. Len(messages) \in S
  <2>. HIDE DEF S
  <2>. QED
    BY <1>2, <1>3, <1>4, <1>5, CountedUp
<1>7. R[Len(messages)] \in RepairStates /\ Keeps(messages, Len(messages), R[Len(messages)].out)
  BY <1>1, <1>2, <1>6
<1>. QED
  BY <1>7, FlushKeeps DEF sanitizeToolMessageSequence, R

-----------------------------------------------------------------------------
(* The messages without digests, and the newest digest                     *)

LEMMA LargestPlace ==
  ASSUME NEW n \in Nat, NEW S \in SUBSET (1..n), S # {}
  PROVE  \E i \in S : \A j \in S : j <= i
<1>. DEFINE T == {k \in 0..n : n - k \in S}
<1>1. T \in SUBSET Nat /\ T # {}
  <2>1. PICK i \in S : TRUE
    OBVIOUS
  <2>2. n - i \in 0..n /\ n - (n - i) = i
    OBVIOUS
  <2>3. n - i \in T
    BY <2>1, <2>2
  <2>4. T \in SUBSET Nat
    OBVIOUS
  <2>. QED
    BY <2>3, <2>4
<1>2. PICK k \in T : \A l \in T : k <= l
  <2>. HIDE DEF T
  <2>. QED
    BY <1>1, SmallestExists
<1>3. ASSUME NEW j \in S PROVE j <= n - k
  <2>1. n - j \in 0..n /\ n - (n - j) = j
    OBVIOUS
  <2>2. n - j \in T
    BY <2>1
  <2>3. k <= n - j
    BY <1>2, <2>2
  <2>. QED
    BY <2>3
<1>4. n - k \in S
  OBVIOUS
<1>. QED
  BY <1>3, <1>4

\* One message more or less.
StripOne(rest, m) == IF m.kind = "digest" THEN rest ELSE Append(rest, m)

LEMMA StrippedIs ==
  ASSUME NEW messages \in Seq(Msgs)
  PROVE  /\ \A k \in 0..Len(messages) : Stripped(messages)[k] \in Seq(Msgs)
         /\ Stripped(messages)[0] = <<>>
         /\ \A k \in 1..Len(messages) : Stripped(messages)[k] = StripOne(Stripped(messages)[k - 1], messages[k])
<1>. DEFINE Lists == Seq(Msgs)
            F == [s \in Lists |-> [m \in Msgs |-> StripOne(s, m)]]
<1>0. /\ \A s \in Lists, m \in Msgs : StripOne(s, m) \in Lists
      /\ <<>> \in Lists
  BY AppendProperties, EmptySeq DEF StripOne
<1>. HIDE DEF Lists
<1>1. F \in Ways(Lists, Msgs)
  BY <1>0 DEF Ways
<1>2. <<>> \in Lists
  BY <1>0
<1>3. PICK f \in [0..Len(messages) -> Lists] :
        f[0] = <<>> /\ \A k \in 1..Len(messages) : f[k] = F[f[k - 1]][messages[k]]
  <2>. HIDE DEF F
  <2>. QED
    BY <1>1, <1>2, GoesOn
<1>4. Len(messages) \in Nat /\ \A k \in 1..Len(messages) : messages[k] \in Msgs
  BY LenProperties, ElementOfSeq
<1>5. f = [k \in 0..Len(messages) |-> IF k = 0 THEN <<>>
             ELSE IF messages[k].kind = "digest" THEN f[k - 1] ELSE Append(f[k - 1], messages[k])]
  <2>1. ASSUME NEW k \in 1..Len(messages)
        PROVE  F[f[k - 1]][messages[k]] = IF messages[k].kind = "digest" THEN f[k - 1] ELSE Append(f[k - 1], messages[k])
    <3>1. k - 1 \in 0..Len(messages)
      BY <1>4
    <3>2. f[k - 1] \in Lists /\ messages[k] \in Msgs
      BY <1>3, <1>4, <3>1
    <3>3. F[f[k - 1]][messages[k]] = StripOne(f[k - 1], messages[k])
      BY <3>2
    <3>. QED
      BY <3>3 DEF StripOne
  <2>2. \A k \in 0..Len(messages) : k # 0 => k \in 1..Len(messages)
    BY SMTT(40), <1>4
  <2>. HIDE DEF F
  <2>. QED
    BY <1>3, <2>1, <2>2
<1>. HIDE DEF F
<1>6. Stripped(messages)
        = [k \in 0..Len(messages) |-> IF k = 0 THEN <<>>
             ELSE IF messages[k].kind = "digest" THEN Stripped(messages)[k - 1]
             ELSE Append(Stripped(messages)[k - 1], messages[k])]
  BY <1>5 DEF Stripped
<1>7. Stripped(messages)[0] = <<>>
      /\ \A k \in 1..Len(messages) : Stripped(messages)[k] = StripOne(Stripped(messages)[k - 1], messages[k])
  <2>1. PICK g : g = Stripped(messages)
    OBVIOUS
  <2>2. g = [k \in 0..Len(messages) |-> IF k = 0 THEN <<>>
             ELSE IF messages[k].kind = "digest" THEN g[k - 1] ELSE Append(g[k - 1], messages[k])]
    BY <1>6, <2>1
  <2>3. g[0] = <<>>
    BY <1>4, <2>2
  <2>4. ASSUME NEW k \in 1..Len(messages) PROVE g[k] = StripOne(g[k - 1], messages[k])
    <3>1. k \in 0..Len(messages) /\ k # 0
      BY <1>4
    <3>. QED
      BY <2>2, <3>1 DEF StripOne
  <2>. QED
    BY <2>1, <2>3, <2>4
<1>8. {k \in 0..Len(messages) : Stripped(messages)[k] \in Lists} = 0..Len(messages)
  <2>. DEFINE S == {k \in 0..Len(messages) : Stripped(messages)[k] \in Lists}
  <2>1. 0 \in S
    BY <1>2, <1>4, <1>7
  <2>2. ASSUME NEW k \in S, k < Len(messages) PROVE k + 1 \in S
    <3>1. k + 1 \in 1..Len(messages) /\ k + 1 - 1 = k /\ k + 1 \in 0..Len(messages)
      BY <1>4, <2>2
    <3>2. Stripped(messages)[k + 1] = StripOne(Stripped(messages)[k], messages[k + 1])
      BY <1>7, <3>1
    <3>. QED
      BY <1>0, <1>4, <3>1, <3>2
  <2>3. S \in SUBSET (0..Len(messages))
    OBVIOUS
  <2>. HIDE DEF S
  <2>4. S = 0..Len(messages)
    BY <1>4, <2>1, <2>2, <2>3, CountedUp
  <2>. QED
    BY <2>4 DEF S
<1>. QED
  BY <1>7, <1>8 DEF Lists

LEMMA StripOfAppend ==
  ASSUME NEW h \in Seq(Msgs), NEW m \in Msgs
  PROVE  /\ stripCompressionStateMessages(h) \in Seq(Msgs)
         /\ stripCompressionStateMessages(Append(h, m)) = StripOne(stripCompressionStateMessages(h), m)
<1>. DEFINE g == Append(h, m)
<1>1. PICK n \in Nat : n = Len(h)
  BY LenProperties
<1>2. g \in Seq(Msgs) /\ Len(g) = n + 1 /\ g[n + 1] = m /\ \A i \in 1..n : g[i] = h[i]
  BY <1>1, AppendProperties
<1>. HIDE DEF g
<1>3. /\ Stripped(h)[0] = <<>> /\ \A k \in 0..n : Stripped(h)[k] \in Seq(Msgs)
      /\ \A k \in 1..n : Stripped(h)[k] = StripOne(Stripped(h)[k - 1], h[k])
  BY <1>1, StrippedIs
<1>4. /\ Stripped(g)[0] = <<>>
      /\ \A k \in 1..n + 1 : Stripped(g)[k] = StripOne(Stripped(g)[k - 1], g[k])
  BY <1>2, StrippedIs
<1>. DEFINE S == {k \in 0..n : Stripped(g)[k] = Stripped(h)[k]}
<1>5. S = 0..n
  <2>1. S \in SUBSET (0..n) /\ 0 \in S
    BY <1>3, <1>4
  <2>2. ASSUME NEW k \in S, k < n PROVE k + 1 \in S
    <3>1. k + 1 \in 1..n /\ k + 1 \in 1..n + 1 /\ k + 1 - 1 = k /\ k + 1 \in 0..n
      BY <2>2
    <3>2. Stripped(g)[k + 1] = StripOne(Stripped(g)[k], g[k + 1]) /\ Stripped(h)[k + 1] = StripOne(Stripped(h)[k], h[k + 1])
      BY <1>3, <1>4, <3>1
    <3>. QED
      BY <1>2, <3>1, <3>2
  <2>. HIDE DEF S
  <2>. QED
    BY <2>1, <2>2, CountedUp
<1>6. Stripped(g)[n] = Stripped(h)[n]
  BY <1>5
<1>7. n + 1 \in 1..n + 1 /\ n + 1 - 1 = n
  OBVIOUS
<1>8. Stripped(g)[n + 1] = StripOne(Stripped(h)[n], m)
  BY <1>2, <1>4, <1>6, <1>7
<1>. QED
  BY <1>1, <1>2, <1>3, <1>8 DEF stripCompressionStateMessages, g

LEMMA LatestOfAppend ==
  ASSUME NEW h \in Seq(Msgs), NEW m \in Msgs
  PROVE  getLatestCompressionState(Append(h, m)) = IF m.kind = "digest" THEN m ELSE getLatestCompressionState(h)
<1>. DEFINE g == Append(h, m)
            old == {i \in 1..Len(h) : h[i].kind = "digest"}
            new == {i \in 1..Len(g) : g[i].kind = "digest"}
<1>1. PICK n \in Nat : n = Len(h)
  BY LenProperties
<1>2. g \in Seq(Msgs) /\ Len(g) = n + 1 /\ g[n + 1] = m /\ \A i \in 1..n : g[i] = h[i]
  BY <1>1, AppendProperties
<1>3. /\ getLatestCompressionState(g)
           = IF new = {} THEN Digest(0, 0, {}) ELSE g[CHOOSE i \in new : \A j \in new : j <= i]
      /\ getLatestCompressionState(h)
           = IF old = {} THEN Digest(0, 0, {}) ELSE h[CHOOSE i \in old : \A j \in old : j <= i]
  BY DEF getLatestCompressionState
<1>. HIDE DEF g
<1>4. CASE m.kind = "digest"
  <2>1. n + 1 \in new /\ \A j \in new : j <= n + 1
    BY <1>2, <1>4
  <2>. HIDE DEF new
  <2>2. PICK c : c = CHOOSE i \in new : \A j \in new : j <= i
    OBVIOUS
  <2>3. c \in new /\ \A j \in new : j <= c
    BY <2>1, <2>2
  <2>4. c = n + 1
    <3>1. c <= n + 1 /\ n + 1 <= c /\ c \in 1..n + 1
      BY <1>2, <2>1, <2>3 DEF new
    <3>. QED
      BY <3>1
  <2>. QED
    BY <1>2, <1>3, <1>4, <2>1, <2>2, <2>4 DEF g
<1>5. CASE m.kind # "digest"
  <2>1. new = old
    <3>1. \A i \in 1..n + 1 : i = n + 1 \/ i \in 1..n
      OBVIOUS
    <3>2. \A i \in 1..n : i \in 1..n + 1
      OBVIOUS
    <3>. QED
      BY <1>1, <1>2, <1>5, <3>1, <3>2
  <2>2. old \in SUBSET (1..n)
    BY <1>1
  <2>. HIDE DEF old, new
  <2>3. CASE old = {}
    BY <1>3, <1>5, <2>1, <2>3 DEF g
  <2>4. CASE old # {}
    <3>1. \E i \in old : \A j \in old : j <= i
      BY <2>2, <2>4, LargestPlace
    <3>2. PICK c : c = CHOOSE i \in old : \A j \in old : j <= i
      OBVIOUS
    <3>3. c \in old
      BY <3>1, <3>2
    <3>4. g[c] = h[c]
      BY <1>2, <2>2, <3>3
    <3>. QED
      BY <1>3, <1>5, <2>1, <2>4, <3>2, <3>4 DEF g
  <2>. QED
    BY <2>3, <2>4
<1>. QED
  BY <1>4, <1>5

-----------------------------------------------------------------------------
(* Histories                                                               *)

\* all are the messages of h without digests.
Places(h, all) ==
  /\ \A k \in 1..Len(all) : all[k].n \in 1..Len(h) /\ h[all[k].n] = all[k]
  /\ \A i \in 1..Len(h) : h[i].kind = "digest" \/ \E k \in 1..Len(all) : all[k] = h[i]

\* Digest d stands for the first ones of all; the rest does not begin with a result.
Covered(d, all) ==
  /\ d.count \in 0..Len(all) /\ d.covers = {all[k].n : k \in 1..d.count}
  /\ d.count < Len(all) => ~IsTool(all[d.count + 1])

Good(h) ==
  /\ h \in Seq(Msgs) /\ \A i \in 1..Len(h) : h[i].n = i
  /\ Linked(h) /\ Linked(stripCompressionStateMessages(h))
  /\ Places(h, stripCompressionStateMessages(h))
  /\ Covered(getLatestCompressionState(h), stripCompressionStateMessages(h))

\* The messages end with one of these calls and k results behind it.
Awaits(h, calls, k) ==
  /\ k < Len(h) /\ h[Len(h) - k].kind = "ai" /\ h[Len(h) - k].calls = calls
  /\ \A i \in Len(h) - k + 1..Len(h) : IsTool(h[i])

LEMMA LinkedOfAppend ==
  ASSUME NEW h \in Seq(Msgs), Linked(h), NEW m \in Msgs,
         IsTool(m) => \E calls \in Seq(Nat), k \in Nat : Awaits(h, calls, k) /\ k < Len(calls) /\ m.of = calls[k + 1]
  PROVE  Linked(Append(h, m))
<1>. DEFINE g == Append(h, m)
<1>1. PICK n \in Nat : n = Len(h)
  BY LenProperties
<1>2. g \in Seq(Msgs) /\ Len(g) = n + 1 /\ g[n + 1] = m /\ \A i \in 1..n : g[i] = h[i]
  BY <1>1, AppendProperties
<1>. HIDE DEF g
<1>3. ASSUME NEW i \in 1..n, IsTool(g[i])
      PROVE  \E j \in 1..i - 1 : /\ g[j].kind = "ai" /\ i - j <= Len(g[j].calls) /\ g[i].of = g[j].calls[i - j]
                                 /\ \A l \in j + 1..i : IsTool(g[l])
  <2>1. PICK j \in 1..i - 1 : /\ h[j].kind = "ai" /\ i - j <= Len(h[j].calls) /\ h[i].of = h[j].calls[i - j]
                              /\ \A l \in j + 1..i : IsTool(h[l])
    BY <1>1, <1>2, <1>3 DEF Linked
  <2>2. g[j] = h[j] /\ g[i] = h[i] /\ \A l \in j + 1..i : g[l] = h[l]
    BY SMTT(40), <1>2
  <2>. QED
    BY <2>1, <2>2
<1>4. ASSUME IsTool(m)
      PROVE  \E j \in 1..n : /\ g[j].kind = "ai" /\ n + 1 - j <= Len(g[j].calls) /\ m.of = g[j].calls[n + 1 - j]
                             /\ \A l \in j + 1..n + 1 : IsTool(g[l])
  <2>1. PICK calls \in Seq(Nat), k \in Nat : Awaits(h, calls, k) /\ k < Len(calls) /\ m.of = calls[k + 1]
    BY <1>4
  <2>2. /\ k < n /\ h[n - k].kind = "ai" /\ h[n - k].calls = calls
        /\ \A i \in n - k + 1..n : IsTool(h[i])
    BY <1>1, <2>1 DEF Awaits
  <2>3. n - k \in 1..n /\ n + 1 - (n - k) = k + 1 /\ g[n - k] = h[n - k]
    BY <1>2, <2>2
  <2>4. k + 1 <= Len(calls)
    <3>1. PICK c \in Nat : c = Len(calls)
      <4>1. h[n - k] \in Msgs
        BY <1>1, <2>3, ElementOfSeq
      <4>2. calls \in Seq(Nat)
        BY <2>2, <4>1, MessagesAre
      <4>. QED
        BY <4>2, LenProperties
    <3>. QED
      BY <2>1, <3>1
  <2>5. ASSUME NEW l \in n - k + 1..n + 1 PROVE IsTool(g[l])
    <3>1. l = n + 1 \/ (l \in n - k + 1..n /\ l \in 1..n)
      BY SMTT(40), <2>3
    <3>. QED
      BY <1>2, <1>4, <2>2, <3>1
  <2>. QED
    BY <2>1, <2>2, <2>3, <2>4, <2>5
<1>5. ASSUME NEW i \in 1..Len(g), IsTool(g[i])
      PROVE  \E j \in 1..i - 1 : /\ g[j].kind = "ai" /\ i - j <= Len(g[j].calls) /\ g[i].of = g[j].calls[i - j]
                                 /\ \A l \in j + 1..i : IsTool(g[l])
  <2>1. CASE i = n + 1
    <3>1. n + 1 - 1 = n
      OBVIOUS
    <3>. QED
      BY <1>2, <1>4, <1>5, <2>1, <3>1
  <2>2. CASE i # n + 1
    <3>1. i \in 1..n
      BY <1>2, <2>2
    <3>. QED
      BY <1>3, <1>5, <3>1
  <2>. QED
    BY <2>1, <2>2
<1>. QED
  BY <1>5 DEF Linked, g

LEMMA WaitsOfAppend ==
  ASSUME NEW h \in Seq(Msgs), NEW m \in Msgs
  PROVE  /\ m.kind = "ai" => Awaits(Append(h, m), m.calls, 0)
         /\ \A calls \in Seq(Nat), k \in Nat : Awaits(h, calls, k) /\ IsTool(m) => Awaits(Append(h, m), calls, k + 1)
<1>. DEFINE g == Append(h, m)
<1>1. PICK n \in Nat : n = Len(h)
  BY LenProperties
<1>2. g \in Seq(Msgs) /\ Len(g) = n + 1 /\ g[n + 1] = m /\ \A i \in 1..n : g[i] = h[i]
  BY <1>1, AppendProperties
<1>. HIDE DEF g
<1>3. m.kind = "ai" => Awaits(g, m.calls, 0)
  <2>1. n + 1 - 0 = n + 1 /\ 0 < n + 1 /\ n + 1 + 1..n + 1 = {}
    OBVIOUS
  <2>. QED
    BY <1>2, <2>1 DEF Awaits
<1>4. ASSUME NEW calls \in Seq(Nat), NEW k \in Nat, Awaits(h, calls, k), IsTool(m) PROVE Awaits(g, calls, k + 1)
  <2>1. /\ k < n /\ h[n - k].kind = "ai" /\ h[n - k].calls = calls
        /\ \A i \in n - k + 1..n : IsTool(h[i])
    BY <1>1, <1>4 DEF Awaits
  <2>2. n + 1 - (k + 1) = n - k /\ n - k \in 1..n /\ k + 1 < n + 1
    BY <2>1
  <2>3. ASSUME NEW l \in n - k + 1..n + 1 PROVE IsTool(g[l])
    <3>1. l = n + 1 \/ (l \in n - k + 1..n /\ l \in 1..n)
      BY <2>2
    <3>. QED
      BY <1>2, <1>4, <2>1, <3>1
  <2>. QED
    BY <1>2, <2>1, <2>2, <2>3 DEF Awaits
<1>. QED
  BY <1>3, <1>4 DEF g

\* A message more that is no digest keeps all in its place.
LEMMA PlacesOfAppend ==
  ASSUME NEW h \in Seq(Msgs), NEW all \in Seq(Msgs), Places(h, all), NEW m \in Msgs, m.n = Len(h) + 1
  PROVE  Places(Append(h, m), StripOne(all, m))
<1>. DEFINE g == Append(h, m)
            rest == StripOne(all, m)
<1>1. PICK n \in Nat, a \in Nat : n = Len(h) /\ a = Len(all)
  BY LenProperties
<1>2. g \in Seq(Msgs) /\ Len(g) = n + 1 /\ g[n + 1] = m /\ \A i \in 1..n : g[i] = h[i]
  BY <1>1, AppendProperties
<1>3. CASE m.kind = "digest"
  <2>1. rest = all
    BY <1>3 DEF StripOne
  <2>. HIDE DEF g, rest
  <2>2. \A k \in 1..a : all[k].n \in 1..n + 1 /\ g[all[k].n] = all[k]
    <3>1. ASSUME NEW k \in 1..a PROVE all[k].n \in 1..n + 1 /\ g[all[k].n] = all[k]
      <4>1. all[k].n \in 1..n /\ h[all[k].n] = all[k]
        BY <1>1 DEF Places
      <4>. QED
        BY <1>2, <4>1
    <3>. QED
      BY <3>1
  <2>3. \A i \in 1..n + 1 : g[i].kind = "digest" \/ \E k \in 1..a : all[k] = g[i]
    <3>1. \A i \in 1..n + 1 : i = n + 1 \/ i \in 1..n
      OBVIOUS
    <3>. QED
      BY <1>1, <1>2, <1>3, <3>1 DEF Places
  <2>. QED
    BY <1>1, <1>2, <2>1, <2>2, <2>3 DEF Places, g, rest
<1>4. CASE m.kind # "digest"
  <2>1. rest = Append(all, m)
    BY <1>4 DEF StripOne
  <2>2. Len(rest) = a + 1 /\ rest[a + 1] = m /\ \A k \in 1..a : rest[k] = all[k]
    BY <1>1, <2>1, AppendProperties
  <2>. HIDE DEF g, rest
  <2>3. ASSUME NEW k \in 1..a + 1 PROVE rest[k].n \in 1..n + 1 /\ g[rest[k].n] = rest[k]
    <3>1. CASE k = a + 1
      BY <1>1, <1>2, <2>2, <3>1
    <3>2. CASE k # a + 1
      <4>1. k \in 1..a /\ rest[k] = all[k]
        BY <2>2, <3>2
      <4>2. all[k].n \in 1..n /\ h[all[k].n] = all[k]
        BY <1>1, <4>1 DEF Places
      <4>. QED
        BY <1>2, <4>1, <4>2
    <3>. QED
      BY <3>1, <3>2
  <2>4. ASSUME NEW i \in 1..n + 1 PROVE g[i].kind = "digest" \/ \E k \in 1..a + 1 : rest[k] = g[i]
    <3>1. CASE i = n + 1
      <4>1. a + 1 \in 1..a + 1
        OBVIOUS
      <4>. QED
        BY <1>2, <2>2, <3>1, <4>1
    <3>2. CASE i # n + 1
      <4>1. i \in 1..n /\ g[i] = h[i]
        BY <1>2, <3>2
      <4>2. h[i].kind = "digest" \/ \E k \in 1..a : all[k] = h[i]
        BY <1>1, <4>1 DEF Places
      <4>3. \A k \in 1..a : k \in 1..a + 1 /\ rest[k] = all[k]
        BY <2>2
      <4>. QED
        BY <4>1, <4>2, <4>3
    <3>. QED
      BY <3>1, <3>2
  <2>. QED
    BY <1>2, <2>2, <2>3, <2>4 DEF Places, g, rest
<1>. QED
  BY <1>3, <1>4

LEMMA CoveredOfAppend ==
  ASSUME NEW all \in Seq(Msgs), NEW d, Covered(d, all), NEW m \in Msgs, IsTool(m) => d.count < Len(all)
  PROVE  Covered(d, Append(all, m))
<1>. DEFINE q == Append(all, m)
<1>1. PICK a \in Nat : a = Len(all)
  BY LenProperties
<1>2. Len(q) = a + 1 /\ q[a + 1] = m /\ \A k \in 1..a : q[k] = all[k]
  BY <1>1, AppendProperties
<1>. HIDE DEF q
<1>3. d.count \in 0..a /\ d.covers = {all[k].n : k \in 1..d.count} /\ (d.count < a => ~IsTool(all[d.count + 1]))
  BY <1>1 DEF Covered
<1>4. {q[k].n : k \in 1..d.count} = {all[k].n : k \in 1..d.count}
  <2>1. \A k \in 1..d.count : k \in 1..a
    BY <1>3
  <2>. QED
    BY <1>2, <2>1
<1>5. ~IsTool(q[d.count + 1])
  <2>1. CASE d.count < a
    <3>1. d.count + 1 \in 1..a
      BY <1>3, <2>1
    <3>. QED
      BY <1>2, <1>3, <2>1, <3>1
  <2>2. CASE ~(d.count < a)
    <3>1. d.count = a
      BY <1>3, <2>2
    <3>. QED
      BY <1>1, <1>2, <2>2, <3>1
  <2>. QED
    BY <2>1, <2>2
<1>6. d.count \in 0..a + 1
  BY <1>3
<1>. QED
  BY <1>2, <1>3, <1>4, <1>5, <1>6 DEF Covered, q

LEMMA NumbersOfAppend ==
  ASSUME NEW h \in Seq(Msgs), \A i \in 1..Len(h) : h[i].n = i, NEW m \in Msgs, m.n = Len(h) + 1
  PROVE  Append(h, m) \in Seq(Msgs) /\ \A i \in 1..Len(Append(h, m)) : Append(h, m)[i].n = i
<1>. DEFINE g == Append(h, m)
<1>1. PICK n \in Nat : n = Len(h)
  BY LenProperties
<1>2. g \in Seq(Msgs) /\ Len(g) = n + 1 /\ g[n + 1] = m /\ \A i \in 1..n : g[i] = h[i]
  BY <1>1, AppendProperties
<1>. HIDE DEF g
<1>3. ASSUME NEW i \in 1..n + 1 PROVE g[i].n = i
  <2>1. i = n + 1 \/ i \in 1..n
    OBVIOUS
  <2>. QED
    BY <1>1, <1>2, <2>1
<1>. QED
  BY <1>2, <1>3 DEF g

\* A message of the user or of a model, with or without calls.
LEMMA GoodWithMessage ==
  ASSUME NEW h, Good(h), NEW m \in Msgs, m.n = Len(h) + 1, ~IsTool(m), m.kind # "digest"
  PROVE  Good(Append(h, m))
<1>. DEFINE all == stripCompressionStateMessages(h)
            d == getLatestCompressionState(h)
<1>1. /\ h \in Seq(Msgs) /\ \A i \in 1..Len(h) : h[i].n = i
      /\ Linked(h) /\ Linked(all) /\ Places(h, all) /\ Covered(d, all)
  BY DEF Good
<1>2. /\ all \in Seq(Msgs) /\ stripCompressionStateMessages(Append(h, m)) = StripOne(all, m)
      /\ getLatestCompressionState(Append(h, m)) = d
  BY <1>1, StripOfAppend, LatestOfAppend
<1>. HIDE DEF all, d
<1>3. Linked(Append(h, m)) /\ Linked(Append(all, m))
  BY <1>1, <1>2, LinkedOfAppend
<1>4. Covered(d, Append(all, m))
  BY <1>1, <1>2, CoveredOfAppend
<1>5. Places(Append(h, m), StripOne(all, m))
  BY <1>1, <1>2, PlacesOfAppend
<1>6. StripOne(all, m) = Append(all, m)
  BY DEF StripOne
<1>7. Append(h, m) \in Seq(Msgs) /\ \A i \in 1..Len(Append(h, m)) : Append(h, m)[i].n = i
  BY <1>1, NumbersOfAppend
<1>. QED
  BY <1>2, <1>3, <1>4, <1>5, <1>6, <1>7 DEF Good

\* The messages wait for results, with or without the digests, and none of those is
\* what a digest stands for.
WaitsFor(h, calls, k) ==
  /\ Awaits(h, calls, k) /\ Awaits(stripCompressionStateMessages(h), calls, k)
  /\ getLatestCompressionState(h).count < Len(stripCompressionStateMessages(h))

LEMMA WaitsForResults ==
  ASSUME NEW h, Good(h), NEW m \in Msgs, m.kind = "ai"
  PROVE  WaitsFor(Append(h, m), m.calls, 0)
<1>. DEFINE all == stripCompressionStateMessages(h)
            d == getLatestCompressionState(h)
<1>1. h \in Seq(Msgs) /\ Covered(d, all)
  BY DEF Good
<1>2. /\ all \in Seq(Msgs) /\ stripCompressionStateMessages(Append(h, m)) = Append(all, m)
      /\ getLatestCompressionState(Append(h, m)) = d
  BY <1>1, StripOfAppend, LatestOfAppend DEF StripOne
<1>. HIDE DEF all, d
<1>3. Awaits(Append(h, m), m.calls, 0) /\ Awaits(Append(all, m), m.calls, 0)
  BY <1>1, <1>2, WaitsOfAppend
<1>4. d.count < Len(Append(all, m))
  <2>1. PICK a \in Nat : a = Len(all)
    BY <1>2, LenProperties
  <2>2. Len(Append(all, m)) = a + 1 /\ d.count \in 0..a
    BY <1>1, <1>2, <2>1, AppendProperties DEF Covered
  <2>. QED
    BY <2>2
<1>. QED
  BY <1>2, <1>3, <1>4 DEF WaitsFor

\* The result of the next of the calls.
LEMMA GoodWithResult ==
  ASSUME NEW h, Good(h), NEW calls \in Seq(Nat), NEW k \in Nat, WaitsFor(h, calls, k), k < Len(calls),
         NEW m \in Msgs, m.n = Len(h) + 1, IsTool(m), m.of = calls[k + 1]
  PROVE  Good(Append(h, m)) /\ WaitsFor(Append(h, m), calls, k + 1)
<1>. DEFINE all == stripCompressionStateMessages(h)
            d == getLatestCompressionState(h)
<1>1. /\ h \in Seq(Msgs) /\ \A i \in 1..Len(h) : h[i].n = i
      /\ Linked(h) /\ Linked(all) /\ Places(h, all) /\ Covered(d, all)
  BY DEF Good
<1>2. Awaits(h, calls, k) /\ Awaits(all, calls, k) /\ d.count < Len(all)
  BY DEF WaitsFor
<1>3. /\ all \in Seq(Msgs) /\ stripCompressionStateMessages(Append(h, m)) = StripOne(all, m)
      /\ getLatestCompressionState(Append(h, m)) = d
  <2>1. m.kind # "digest"
    BY DEF IsTool
  <2>. QED
    BY <1>1, <2>1, StripOfAppend, LatestOfAppend
<1>. HIDE DEF all, d
<1>4. Linked(Append(h, m)) /\ Linked(Append(all, m))
  BY <1>1, <1>2, <1>3, LinkedOfAppend
<1>5. Covered(d, Append(all, m))
  BY <1>1, <1>2, <1>3, CoveredOfAppend
<1>6. Places(Append(h, m), StripOne(all, m))
  BY <1>1, <1>3, PlacesOfAppend
<1>7. StripOne(all, m) = Append(all, m)
  BY DEF StripOne, IsTool
<1>8. Append(h, m) \in Seq(Msgs) /\ \A i \in 1..Len(Append(h, m)) : Append(h, m)[i].n = i
  BY <1>1, NumbersOfAppend
<1>9. Awaits(Append(h, m), calls, k + 1) /\ Awaits(Append(all, m), calls, k + 1)
  BY <1>1, <1>2, <1>3, WaitsOfAppend
<1>10. d.count < Len(Append(all, m))
  <2>1. PICK a \in Nat : a = Len(all)
    BY <1>3, LenProperties
  <2>2. Len(Append(all, m)) = a + 1 /\ d.count \in 0..a
    BY <1>1, <1>3, <2>1, AppendProperties DEF Covered
  <2>. QED
    BY <2>2
<1>. QED
  BY <1>3, <1>4, <1>5, <1>6, <1>7, <1>8, <1>9, <1>10 DEF Good, WaitsFor

\* A digest of some of the first messages.
LEMMA GoodWithDigest ==
  ASSUME NEW h, Good(h), NEW m \in Msgs, m.n = Len(h) + 1, m.kind = "digest",
         Covered(m, stripCompressionStateMessages(h))
  PROVE  Good(Append(h, m))
<1>. DEFINE all == stripCompressionStateMessages(h)
<1>1. /\ h \in Seq(Msgs) /\ \A i \in 1..Len(h) : h[i].n = i
      /\ Linked(h) /\ Linked(all) /\ Places(h, all)
  BY DEF Good
<1>2. /\ all \in Seq(Msgs) /\ stripCompressionStateMessages(Append(h, m)) = StripOne(all, m)
      /\ getLatestCompressionState(Append(h, m)) = m
  BY <1>1, StripOfAppend, LatestOfAppend
<1>3. Covered(m, all)
  OBVIOUS
<1>. HIDE DEF all
<1>4. Linked(Append(h, m))
  BY <1>1, LinkedOfAppend DEF IsTool
<1>5. Places(Append(h, m), StripOne(all, m))
  BY <1>1, <1>2, PlacesOfAppend
<1>6. StripOne(all, m) = all
  BY DEF StripOne
<1>7. Append(h, m) \in Seq(Msgs) /\ \A i \in 1..Len(Append(h, m)) : Append(h, m)[i].n = i
  BY <1>1, NumbersOfAppend
<1>. QED
  BY <1>1, <1>2, <1>3, <1>4, <1>5, <1>6, <1>7 DEF Good

LEMMA ConcatIs ==
  ASSUME NEW h \in Seq(Msgs), NEW rs \in Seq(Msgs)
  PROVE  /\ h \o rs \in Seq(Msgs) /\ Len(h \o rs) = Len(h) + Len(rs)
         /\ \A i \in 1..Len(h) : (h \o rs)[i] = h[i]
         /\ \A i \in 1..Len(rs) : (h \o rs)[Len(h) + i] = rs[i]
<1>1. PICK n \in Nat, l \in Nat : n = Len(h) /\ l = Len(rs)
  BY LenProperties
<1>2. /\ h \o rs \in Seq(Msgs) /\ Len(h \o rs) = n + l
      /\ \A i \in 1..n + l : (h \o rs)[i] = IF i <= n THEN h[i] ELSE rs[i - n]
  <2>1. /\ h \o rs \in Seq(Msgs) /\ Len(h \o rs) = Len(h) + Len(rs)
        /\ \A i \in 1..Len(h) + Len(rs) : (h \o rs)[i] = IF i <= Len(h) THEN h[i] ELSE rs[i - Len(h)]
    BY ConcatProperties
  <2>. QED
    BY <1>1, <2>1
<1>3. ASSUME NEW i \in 1..n PROVE (h \o rs)[i] = h[i]
  <2>1. i \in 1..n + l /\ i <= n
    OBVIOUS
  <2>. QED
    BY <1>2, <2>1
<1>4. ASSUME NEW i \in 1..l PROVE (h \o rs)[n + i] = rs[i]
  <2>1. n + i \in 1..n + l /\ ~(n + i <= n) /\ n + i - n = i
    OBVIOUS
  <2>. QED
    BY <1>2, <2>1
<1>. QED
  BY <1>1, <1>2, <1>3, <1>4

LEMMA LastTwo ==
  ASSUME NEW n \in Nat, NEW i \in 1..n + 2
  PROVE  i \in 1..n \/ i = n + 1 \/ i = n + 2
  OBVIOUS

\* The results of all the calls that wait.
LEMMA GoodWithResults ==
  ASSUME NEW h, Good(h), NEW calls \in Seq(Nat), Len(calls) \in 1..2, WaitsFor(h, calls, 0),
         NEW rs \in Seq(Msgs), Len(rs) = Len(calls),
         \A i \in 1..Len(rs) : IsTool(rs[i]) /\ rs[i].n = Len(h) + i /\ rs[i].of = calls[i]
  PROVE  Good(h \o rs)
<1>1. h \in Seq(Msgs)
  BY DEF Good
<1>2. PICK n \in Nat, l \in 1..2 : n = Len(h) /\ l = Len(rs)
  BY <1>1, LenProperties
<1>3. /\ h \o rs \in Seq(Msgs) /\ Len(h \o rs) = n + l
      /\ \A i \in 1..n : (h \o rs)[i] = h[i]
      /\ \A i \in 1..l : (h \o rs)[n + i] = rs[i]
  <2>1. /\ h \o rs \in Seq(Msgs) /\ Len(h \o rs) = Len(h) + Len(rs)
        /\ \A i \in 1..Len(h) : (h \o rs)[i] = h[i]
        /\ \A i \in 1..Len(rs) : (h \o rs)[Len(h) + i] = rs[i]
    BY <1>1, ConcatIs
  <2>. QED
    BY <1>2, <2>1
<1>4. rs[1] \in Msgs /\ IsTool(rs[1]) /\ rs[1].n = n + 1 /\ rs[1].of = calls[0 + 1] /\ 0 < Len(calls)
  <2>1. 1 \in 1..Len(rs)
    BY <1>2
  <2>. QED
    BY <1>2, <2>1, ElementOfSeq
<1>. DEFINE g == Append(h, rs[1])
<1>5. Good(g) /\ WaitsFor(g, calls, 0 + 1)
  BY <1>2, <1>4, GoodWithResult
<1>6. g \in Seq(Msgs) /\ Len(g) = n + 1 /\ g[n + 1] = rs[1] /\ \A i \in 1..n : g[i] = h[i]
  BY <1>1, <1>2, <1>4, AppendProperties
<1>. HIDE DEF g
<1>7. CASE l = 1
  <2>1. ASSUME NEW i \in 1..n + 1 PROVE (h \o rs)[i] = g[i]
    <3>1. i \in 1..n \/ i = n + 1
      OBVIOUS
    <3>2. (h \o rs)[n + 1] = rs[1]
      BY <1>3, <1>7
    <3>. QED
      BY <1>3, <1>6, <3>1, <3>2
  <2>2. h \o rs = g
    BY <1>3, <1>6, <1>7, <2>1, SeqEqual
  <2>. QED
    BY <1>5, <2>2
<1>8. CASE l = 2
  <2>1. rs[2] \in Msgs /\ IsTool(rs[2]) /\ rs[2].n = n + 2 /\ rs[2].of = calls[1 + 1] /\ 1 < Len(calls)
    <3>1. 2 \in 1..Len(rs) /\ 1 + 1 = 2 /\ 1 < Len(calls)
      BY <1>2, <1>8
    <3>2. IsTool(rs[2]) /\ rs[2].n = Len(h) + 2 /\ rs[2].of = calls[2]
      BY <3>1
    <3>3. rs[2] \in Msgs
      BY <3>1, ElementOfSeq
    <3>. QED
      BY <1>2, <3>1, <3>2, <3>3
  <2>. DEFINE f == Append(g, rs[2])
  <2>2. Good(f)
    <3>1. rs[2].n = Len(g) + 1 /\ 0 + 1 = 1
      BY <1>6, <2>1
    <3>. QED
      BY <1>5, <2>1, <3>1, GoodWithResult
  <2>3. f \in Seq(Msgs) /\ Len(f) = n + 2 /\ f[n + 2] = rs[2] /\ \A i \in 1..n + 1 : f[i] = g[i]
    <3>1. n + 1 + 1 = n + 2
      OBVIOUS
    <3>. QED
      BY <1>6, <2>1, <3>1, AppendProperties
  <2>. HIDE DEF f
  <2>4. ASSUME NEW i \in 1..n + 2 PROVE (h \o rs)[i] = f[i]
    <3>1. i \in 1..n \/ i = n + 1 \/ i = n + 2
      BY LastTwo
    <3>2. (h \o rs)[n + 1] = rs[1] /\ (h \o rs)[n + 2] = rs[2]
      BY <1>3, <1>8
    <3>3. n + 1 \in 1..n + 1 /\ \A k \in 1..n : k \in 1..n + 1
      OBVIOUS
    <3>. QED
      BY <1>3, <1>6, <2>3, <3>1, <3>2, <3>3
  <2>5. h \o rs = f
    BY <1>3, <1>8, <2>3, <2>4, SeqEqual
  <2>. QED
    BY <2>2, <2>5
<1>. QED
  BY <1>7, <1>8

-----------------------------------------------------------------------------
(* What is visible                                                         *)

LEMMA VisibleIs ==
  ASSUME NEW h, Good(h)
  PROVE  LET all == stripCompressionStateMessages(h)
             d == getLatestCompressionState(h)
             v == getVisibleConversationMessages(h)
         IN /\ all \in Seq(Msgs) /\ v \in Seq(Msgs) /\ d.count \in Nat /\ Len(all) = d.count + Len(v)
            /\ \A i \in 1..Len(v) : v[i] = all[d.count + i]
            /\ Linked(v)
<1>. DEFINE all == stripCompressionStateMessages(h)
            d == getLatestCompressionState(h)
            v == getVisibleConversationMessages(h)
<1>1. h \in Seq(Msgs) /\ Linked(all) /\ Covered(d, all)
  BY DEF Good
<1>2. all \in Seq(Msgs)
  BY <1>1, MessagesMade, StripOfAppend
<1>3. v = SubSeq(all, d.count + 1, Len(all))
  BY DEF getVisibleConversationMessages
<1>. HIDE DEF all, d, v
<1>4. PICK a \in Nat : a = Len(all)
  BY <1>2, LenProperties
<1>5. PICK c \in 0..a : c = d.count
  BY <1>1, <1>4 DEF Covered
<1>6. c < a => ~IsTool(all[c + 1])
  BY <1>1, <1>4, <1>5 DEF Covered
<1>7. v \in Seq(Msgs) /\ Len(v) = a - c /\ \A i \in 1..a - c : v[i] = all[c + i]
  <2>1. \A i \in c + 1..a : all[i] \in Msgs
    <3>1. \A i \in c + 1..a : i \in 1..a
      OBVIOUS
    <3>. QED
      BY <1>2, <1>4, <3>1, ElementOfSeq
  <2>2. c + 1 \in Int /\ a \in Int /\ v = SubSeq(all, c + 1, a)
    BY <1>3, <1>4, <1>5
  <2>3. /\ v \in Seq(Msgs) /\ Len(v) = (IF c + 1 <= a THEN a - (c + 1) + 1 ELSE 0)
        /\ \A i \in 1..a - (c + 1) + 1 : v[i] = all[c + 1 + i - 1]
    BY <2>1, <2>2, SubSeqProperties
  <2>4. a - (c + 1) + 1 = a - c /\ (IF c + 1 <= a THEN a - (c + 1) + 1 ELSE 0) = a - c
        /\ \A i \in 1..a - c : c + 1 + i - 1 = c + i
    OBVIOUS
  <2>. QED
    BY <2>3, <2>4
<1>8. ASSUME NEW i \in 1..a - c, IsTool(v[i])
      PROVE  \E j \in 1..i - 1 : /\ v[j].kind = "ai" /\ i - j <= Len(v[j].calls) /\ v[i].of = v[j].calls[i - j]
                                 /\ \A k \in j + 1..i : IsTool(v[k])
  <2>1. c + i \in 1..a /\ v[i] = all[c + i] /\ c < a
    BY <1>7
  <2>2. PICK e \in 1..c + i - 1 : /\ all[e].kind = "ai" /\ c + i - e <= Len(all[e].calls)
                                  /\ all[c + i].of = all[e].calls[c + i - e]
                                  /\ \A k \in e + 1..c + i : IsTool(all[k])
    <3>1. c + i \in 1..Len(all) /\ IsTool(all[c + i])
      BY <1>4, <1>8, <2>1
    <3>. QED
      BY <1>1, <3>1, LinkedAt
  <2>3. e > c
    <3>1. e <= c => c + 1 \in e + 1..c + i
      OBVIOUS
    <3>. QED
      BY <1>6, <2>1, <2>2, <3>1
  <2>4. PICK j \in 1..i - 1 : e = c + j
    <3>1. e - c \in 1..i - 1 /\ e = c + (e - c)
      BY <2>3
    <3>. QED
      BY <3>1
  <2>5. c + i - e = i - j /\ j \in 1..a - c /\ v[j] = all[e]
    BY <1>7, <2>4
  <2>6. ASSUME NEW k \in j + 1..i PROVE IsTool(v[k])
    <3>1. c + k \in e + 1..c + i /\ k \in 1..a - c
      BY <2>4
    <3>. QED
      BY <1>7, <2>2, <3>1
  <2>. QED
    BY <2>1, <2>2, <2>5, <2>6
<1>9. Linked(v)
  BY <1>7, <1>8 DEF Linked
<1>10. a = c + (a - c)
  OBVIOUS
<1>11. /\ all \in Seq(Msgs) /\ v \in Seq(Msgs) /\ d.count \in Nat /\ Len(all) = d.count + Len(v)
       /\ \A i \in 1..Len(v) : v[i] = all[d.count + i]
       /\ Linked(v)
  BY <1>2, <1>4, <1>5, <1>7, <1>9, <1>10
<1>. QED
  BY <1>11 DEF all, d, v

\* Where the messages are cut, if anywhere: what follows is no result.
LEMMA CutIs ==
  ASSUME NEW v \in Seq(Msgs), Cut(v) > 0
  PROVE  Cut(v) \in 1..Len(v) /\ (Cut(v) < Len(v) => ~IsTool(v[Cut(v) + 1]))
<1>. DEFINE safe == {c \in 1..(Len(v) - Preserve) : SafeCut(v, c)}
<1>1. PICK n \in Nat : n = Len(v)
  BY LenProperties
<1>2. safe \in SUBSET (1..n)
  BY <1>1, AgentGraphAssumption
<1>3. Cut(v) = IF safe = {} THEN 0 ELSE CHOOSE c \in safe : \A d \in safe : d <= c
  BY DEF Cut
<1>4. \A c \in safe : SafeCut(v, c)
  OBVIOUS
<1>. HIDE DEF safe
<1>5. safe # {}
  BY <1>3
<1>6. \E c \in safe : \A d \in safe : d <= c
  BY <1>2, <1>5, LargestPlace
<1>7. Cut(v) \in safe
  BY <1>3, <1>5, <1>6
<1>8. SafeCut(v, Cut(v))
  BY <1>4, <1>7
<1>. QED
  BY <1>1, <1>2, <1>7, <1>8 DEF SafeCut

\* A digest of what is visible up to a cut.
LEMMA GoodWithCut ==
  ASSUME Good(history), NEW cut, cut = Cut(getVisibleConversationMessages(history)), cut > 0
  PROVE  LET m == NextDigest(getLatestCompressionState(history),
                             SubSeq(getVisibleConversationMessages(history), 1, cut))
         IN m \in Msgs /\ Good(Append(history, m))
<1>. DEFINE all == stripCompressionStateMessages(history)
            d == getLatestCompressionState(history)
            v == getVisibleConversationMessages(history)
            part == SubSeq(v, 1, cut)
            m == NextDigest(d, part)
<1>1. /\ all \in Seq(Msgs) /\ v \in Seq(Msgs) /\ d.count \in Nat /\ Len(all) = d.count + Len(v)
      /\ \A i \in 1..Len(v) : v[i] = all[d.count + i]
  BY VisibleIs
<1>2. history \in Seq(Msgs) /\ Covered(d, all)
  BY DEF Good
<1>3. cut \in 1..Len(v) /\ (cut < Len(v) => ~IsTool(v[cut + 1]))
  BY <1>1, CutIs
<1>4. m = Digest(Len(history) + 1, d.count + Len(part), d.covers \cup {part[i].n : i \in 1..Len(part)})
  BY DEF NextDigest
<1>. HIDE DEF all, d, v, m
<1>5. PICK n \in Nat, c \in Nat, a \in Nat : n = Len(v) /\ c = d.count /\ a = Len(all)
  BY <1>1, LenProperties
<1>6. Len(part) = cut /\ \A i \in 1..cut : part[i] = v[i]
  <2>1. \A i \in 1..cut : v[i] \in Msgs
    <3>1. \A i \in 1..cut : i \in 1..n
      BY <1>3, <1>5
    <3>. QED
      BY <1>1, <1>5, <3>1, ElementOfSeq
  <2>2. 1 \in Int /\ cut \in Int
    BY <1>3, <1>5
  <2>3. /\ Len(part) = (IF 1 <= cut THEN cut - 1 + 1 ELSE 0)
        /\ \A i \in 1..cut - 1 + 1 : part[i] = v[1 + i - 1]
    BY <2>1, <2>2, SubSeqProperties
  <2>4. cut - 1 + 1 = cut /\ 1 <= cut /\ \A i \in 1..cut : 1 + i - 1 = i
    BY <1>3, <1>5
  <2>. HIDE DEF part
  <2>. QED
    BY <2>3, <2>4
<1>. HIDE DEF part
<1>7. d.covers = {all[k].n : k \in 1..c}
  BY <1>2, <1>5 DEF Covered
<1>8. a = c + n /\ cut \in 1..n /\ \A i \in 1..n : v[i] = all[c + i]
  BY <1>1, <1>3, <1>5
<1>9. d.covers \cup {part[i].n : i \in 1..cut} = {all[k].n : k \in 1..c + cut}
  <2>1. ASSUME NEW k \in 1..c + cut PROVE all[k].n \in d.covers \cup {part[i].n : i \in 1..cut}
    <3>1. CASE k <= c
      <4>1. k \in 1..c
        BY <1>8, <3>1
      <4>. QED
        BY <1>7, <4>1
    <3>2. CASE ~(k <= c)
      <4>1. k - c \in 1..cut /\ k - c \in 1..n /\ c + (k - c) = k
        BY <1>8, <3>2
      <4>2. part[k - c] = all[k]
        BY <1>6, <1>8, <4>1
      <4>. QED
        BY <4>1, <4>2
    <3>. QED
      BY <3>1, <3>2
  <2>2. ASSUME NEW k \in 1..c PROVE all[k].n \in {all[l].n : l \in 1..c + cut}
    <3>1. k \in 1..c + cut
      BY <1>8
    <3>. QED
      BY <3>1
  <2>3. ASSUME NEW i \in 1..cut PROVE part[i].n \in {all[l].n : l \in 1..c + cut}
    <3>1. c + i \in 1..c + cut /\ i \in 1..n
      BY <1>8
    <3>2. part[i] = all[c + i]
      BY <1>6, <1>8, <3>1
    <3>. QED
      BY <3>1, <3>2
  <2>. QED
    BY <1>7, <2>1, <2>2, <2>3
<1>10. m.kind = "digest" /\ m.n = Len(history) + 1 /\ m.count = c + cut /\ m.covers = {all[k].n : k \in 1..c + cut}
  BY <1>4, <1>5, <1>6, <1>9 DEF Digest
<1>11. Covered(m, all)
  <2>1. c + cut \in 0..a
    BY <1>8
  <2>2. c + cut < a => ~IsTool(all[c + cut + 1])
    <3>1. SUFFICES ASSUME c + cut < a PROVE ~IsTool(all[c + cut + 1])
      OBVIOUS
    <3>2. cut < n /\ cut + 1 \in 1..n /\ c + (cut + 1) = c + cut + 1
      BY <1>8, <3>1
    <3>3. v[cut + 1] = all[c + cut + 1]
      BY <1>8, <3>2
    <3>. QED
      BY <1>3, <1>5, <3>2, <3>3
  <2>. QED
    BY <1>5, <1>10, <2>1, <2>2 DEF Covered
<1>12. m \in Msgs
  <2>1. PICK l \in Nat : l = Len(history)
    BY <1>2, LenProperties
  <2>2. {all[k].n : k \in 1..c + cut} \in SUBSET Nat
    <3>1. \A k \in 1..c + cut : k \in 1..a
      BY <1>8
    <3>2. \A k \in 1..a : all[k] \in Msgs
      BY <1>1, <1>5, ElementOfSeq
    <3>3. \A k \in 1..c + cut : all[k].n \in Nat
      BY <3>1, <3>2, MessagesAre
    <3>. QED
      BY <3>3
  <2>3. l + 1 \in Nat /\ c + cut \in Nat
    BY <1>8
  <2>4. m = Digest(l + 1, c + cut, {all[k].n : k \in 1..c + cut})
    BY <1>4, <1>5, <1>6, <1>9, <2>1
  <2>. QED
    BY <2>2, <2>3, <2>4, MessagesMade
<1>13. Good(Append(history, m))
  BY <1>10, <1>11, <1>12, GoodWithDigest DEF all
<1>. QED
  BY <1>12, <1>13 DEF m, part, v, d

-----------------------------------------------------------------------------
(* Prompts                                                                 *)

\* Of a good history the properties of the prompt hold, whoever is asked.
LEMMA PromptOfGood ==
  ASSUME Good(history)
  PROVE  PromptIsWellFormed /\ ResultsKeepTheirCalls /\ NothingIsForgotten
<1>. DEFINE all == stripCompressionStateMessages(history)
            d == getLatestCompressionState(history)
            v == getVisibleConversationMessages(history)
            h == IF node = "agent" THEN v ELSE history
            p == sanitizeToolMessageSequence(h)
<1>1. /\ history \in Seq(Msgs) /\ \A i \in 1..Len(history) : history[i].n = i
      /\ Linked(history) /\ Places(history, all) /\ Covered(d, all)
  BY DEF Good
<1>2. /\ all \in Seq(Msgs) /\ v \in Seq(Msgs) /\ d.count \in Nat /\ Len(all) = d.count + Len(v)
      /\ \A i \in 1..Len(v) : v[i] = all[d.count + i]
      /\ Linked(v)
  BY VisibleIs
<1>3. Prompt = p
  BY DEF Prompt
<1>. HIDE DEF all, v, p
<1>4. h \in Seq(Msgs) /\ Linked(h)
  BY <1>1, <1>2
<1>5. p \in Seq(Msgs) /\ WellFormed(p) /\ Keeps(h, Len(h), p)
  <2>. HIDE DEF h
  <2>. QED
    BY <1>4, SanitizedIsWellFormed, SanitizedKeeps DEF p
<1>6. PICK n \in Nat, c \in Nat, a \in Nat, l \in Nat :
        n = Len(v) /\ c = d.count /\ a = Len(all) /\ l = Len(history)
  BY <1>1, <1>2, LenProperties
<1>. HIDE DEF d
<1>7. ASSUME NEW i \in 1..Len(h) PROVE h[i].n \in 1..l /\ history[h[i].n] = h[i]
  <2>1. CASE node = "agent"
    <3>1. i \in 1..n /\ h[i] = v[i]
      BY <1>6, <2>1
    <3>2. c + i \in 1..a /\ v[i] = all[c + i]
      BY <1>2, <1>6, <3>1
    <3>3. all[c + i].n \in 1..l /\ history[all[c + i].n] = all[c + i]
      BY <1>1, <1>6, <3>2 DEF Places
    <3>. QED
      BY <3>1, <3>2, <3>3
  <2>2. CASE node # "agent"
    BY <1>1, <1>6, <2>2
  <2>. QED
    BY <2>1, <2>2
<1>8. ASSUME NEW i \in 1..l, history[i].kind # "digest"
      PROVE  (\E j \in 1..Len(h) : h[j].n = i) \/ (node = "agent" /\ i \in d.covers)
  <2>1. CASE node = "agent"
    <3>1. PICK k \in 1..a : all[k] = history[i]
      BY <1>1, <1>6, <1>8 DEF Places
    <3>2. all[k].n = i
      BY <1>1, <1>6, <3>1
    <3>3. CASE k <= c
      <4>1. k \in 1..c
        BY <3>3
      <4>2. d.covers = {all[j].n : j \in 1..c}
        BY <1>1, <1>6 DEF Covered
      <4>. QED
        BY <2>1, <3>2, <4>1, <4>2
    <3>4. CASE ~(k <= c)
      <4>1. k - c \in 1..n /\ c + (k - c) = k
        BY <1>2, <1>6, <3>4
      <4>2. v[k - c] = all[k]
        BY <1>2, <1>6, <4>1
      <4>3. k - c \in 1..Len(h) /\ h[k - c] = v[k - c]
        BY <1>6, <2>1, <4>1
      <4>. QED
        BY <3>2, <4>2, <4>3
    <3>. QED
      BY <3>3, <3>4
  <2>2. CASE node # "agent"
    <3>1. h = history /\ i \in 1..Len(h) /\ h[i].n = i
      BY <1>1, <1>6, <2>2
    <3>. QED
      BY <3>1
  <2>. QED
    BY <2>1, <2>2
<1>. HIDE DEF h
<1>9. PromptIsWellFormed
  BY <1>3, <1>5 DEF PromptIsWellFormed, WellFormed
<1>10. ResultsKeepTheirCalls
  <2>. SUFFICES ASSUME NEW i \in 1..Len(p), IsTool(p[i]), p[i].n > 0 PROVE p[i].of = history[p[i].n].of
    BY <1>3 DEF ResultsKeepTheirCalls
  <2>1. PICK j \in 1..Len(h) : h[j].n = p[i].n /\ h[j].of = p[i].of
    <3>1. p[i].n # 0
      BY <1>5, ElementOfSeq, MessagesAre
    <3>. QED
      BY <1>5, <3>1 DEF Keeps
  <2>. QED
    BY <1>7, <2>1
<1>11. NothingIsForgotten
  <2>. SUFFICES ASSUME NEW i \in 1..l, history[i].kind # "digest", ~(node = "agent" /\ i \in d.covers)
       PROVE  \E q \in 1..Len(p) : p[q].n = i
    BY <1>3, <1>6 DEF NothingIsForgotten, d
  <2>1. PICK j \in 1..Len(h) : h[j].n = i
    BY <1>8
  <2>. QED
    BY <1>5, <2>1 DEF Keeps
<1>. QED
  BY <1>9, <1>10, <1>11

-----------------------------------------------------------------------------
(* The graph                                                               *)

Extends(g, h) == Len(h) <= Len(g) /\ \A i \in 1..Len(h) : g[i] = h[i]

\* The last message asks for one or two results.
CallsWait(h) ==
  /\ Len(h) > 0 /\ Last(h).kind = "ai" /\ Last(h).calls \in Seq(Nat) /\ Len(Last(h).calls) \in 1..2
  /\ WaitsFor(h, Last(h).calls, 0)

\* The rounds that failed in a row ended here, and no three of them in one window.
FailedAt(h, places) ==
  /\ places \in SUBSET (1..Len(h))
  /\ \A i \in places : Failed(h[i])
  /\ ~\E i, j, k \in places : i < j /\ j < k /\ k - i < Window

GraphInv ==
  /\ node \in Nodes
  /\ Good(history) /\ Good(saved) /\ saved = SubSeq(history, 1, Len(saved)) /\ Len(saved) <= Len(history)
  /\ node \in {"tools", "orchestrator_tools"} => CallsWait(history)
  /\ node \in {"compress", "agent", "tools"} => FailedAt(history, fails)

LEMMA GoodFromNothing == Good(<<>>)
<1>1. <<>> \in Seq(Msgs) /\ Len(<<>>) = 0 /\ 1..Len(<<>>) = {}
  BY EmptySeq
<1>2. stripCompressionStateMessages(<<>>) = <<>>
  BY <1>1, StrippedIs DEF stripCompressionStateMessages
<1>3. getLatestCompressionState(<<>>) = Digest(0, 0, {})
  BY <1>1 DEF getLatestCompressionState
<1>4. Linked(<<>>) /\ Places(<<>>, <<>>)
  BY <1>1 DEF Linked, Places
<1>5. Covered(Digest(0, 0, {}), <<>>)
  <2>1. Digest(0, 0, {}).count = 0 /\ Digest(0, 0, {}).covers = {}
    BY DEF Digest
  <2>. QED
    BY <1>1, <2>1 DEF Covered
<1>. QED
  BY <1>1, <1>2, <1>3, <1>4, <1>5 DEF Good

LEMMA ExtendedBy ==
  ASSUME NEW h \in Seq(Msgs), NEW m \in Msgs, NEW rs \in Seq(Msgs)
  PROVE  Extends(Append(h, m), h) /\ Extends(h \o rs, h) /\ Extends(h, h)
<1>1. PICK n \in Nat, l \in Nat : n = Len(h) /\ l = Len(rs)
  BY LenProperties
<1>2. Len(Append(h, m)) = n + 1 /\ \A i \in 1..n : Append(h, m)[i] = h[i]
  BY <1>1, AppendProperties
<1>3. Len(h \o rs) = n + l /\ \A i \in 1..n : (h \o rs)[i] = h[i]
  <2>1. Len(h \o rs) = Len(h) + Len(rs) /\ \A i \in 1..Len(h) : (h \o rs)[i] = h[i]
    BY ConcatIs
  <2>. QED
    BY <1>1, <2>1
<1>. QED
  BY <1>1, <1>2, <1>3 DEF Extends

LEMMA PrefixOfExtended ==
  ASSUME NEW h \in Seq(Msgs), NEW g \in Seq(Msgs), Extends(g, h), NEW k \in Nat, k <= Len(h)
  PROVE  SubSeq(g, 1, k) = SubSeq(h, 1, k)
<1>1. PICK n \in Nat, l \in Nat : n = Len(h) /\ l = Len(g)
  BY LenProperties
<1>2. \A i \in 1..k : h[i] \in Msgs /\ g[i] \in Msgs /\ g[i] = h[i]
  <2>1. \A i \in 1..k : i \in 1..n /\ i \in 1..l
    BY <1>1 DEF Extends
  <2>. QED
    BY <1>1, <2>1, ElementOfSeq DEF Extends
<1>3. 1 \in Int /\ k \in Int
  OBVIOUS
<1>4. /\ SubSeq(h, 1, k) \in Seq(Msgs) /\ Len(SubSeq(h, 1, k)) = (IF 1 <= k THEN k - 1 + 1 ELSE 0)
      /\ \A i \in 1..k - 1 + 1 : SubSeq(h, 1, k)[i] = h[1 + i - 1]
  BY <1>2, <1>3, SubSeqProperties
<1>5. /\ SubSeq(g, 1, k) \in Seq(Msgs) /\ Len(SubSeq(g, 1, k)) = (IF 1 <= k THEN k - 1 + 1 ELSE 0)
      /\ \A i \in 1..k - 1 + 1 : SubSeq(g, 1, k)[i] = g[1 + i - 1]
  BY <1>2, <1>3, SubSeqProperties
<1>. DEFINE x == SubSeq(h, 1, k)
            y == SubSeq(g, 1, k)
<1>6. k - 1 + 1 = k /\ (IF 1 <= k THEN k - 1 + 1 ELSE 0) = k /\ \A i \in 1..k : 1 + i - 1 = i
  OBVIOUS
<1>7. /\ x \in Seq(Msgs) /\ y \in Seq(Msgs) /\ Len(x) = k /\ Len(y) = k
      /\ \A i \in 1..k : x[i] = h[i] /\ y[i] = g[i]
  BY <1>4, <1>5, <1>6
<1>. HIDE DEF x, y
<1>8. x = y
  BY <1>2, <1>7, SeqEqual
<1>. QED
  BY <1>8 DEF x, y

\* A step to a good history keeps the checkpoint good, and a part of it.
LEMMA StepIs ==
  ASSUME GraphInv, NEW next \in Nodes, NEW g, Step(next, g), Good(g), Extends(g, history)
  PROVE  /\ node' = next /\ history' = g
         /\ Good(history') /\ Good(saved') /\ saved' = SubSeq(history', 1, Len(saved')) /\ Len(saved') <= Len(history')
<1>1. history \in Seq(Msgs) /\ g \in Seq(Msgs) /\ saved \in Seq(Msgs)
  BY DEF GraphInv, Good
<1>2. node' = next /\ history' = g /\ (saved' = saved \/ saved' = g)
  BY DEF Step
<1>3. CASE saved' = g
  <2>1. SubSeq(g, 1, Len(g)) = g /\ Len(g) \in Nat
    BY <1>1, SubSeqFull, LenProperties
  <2>. QED
    BY <1>2, <1>3, <2>1
<1>4. CASE saved' = saved
  <2>1. Len(saved) \in Nat /\ Len(history) \in Nat /\ Len(g) \in Nat /\ Len(saved) <= Len(history) /\ Len(history) <= Len(g)
    BY <1>1, LenProperties DEF GraphInv, Extends
  <2>2. SubSeq(g, 1, Len(saved)) = SubSeq(history, 1, Len(saved))
    BY <1>1, <2>1, PrefixOfExtended
  <2>3. Good(saved) /\ saved = SubSeq(history, 1, Len(saved))
    BY DEF GraphInv
  <2>. QED
    BY <1>2, <1>4, <2>1, <2>2, <2>3
<1>. QED
  BY <1>2, <1>3, <1>4

\* A reply is good, and its calls wait.
LEMMA ReplyIs ==
  ASSUME NEW h, Good(h), NEW calls \in Seq(Nat), Len(calls) \in 0..2
  PROVE  LET m == AI(Len(h) + 1, calls)
             g == Append(h, m)
         IN /\ Good(g) /\ Extends(g, h) /\ Len(g) = Len(h) + 1 /\ m \in Msgs
            /\ WaitsFor(g, calls, 0)
            /\ Len(calls) # 0 => CallsWait(g)
<1>. DEFINE m == AI(Len(h) + 1, calls)
            g == Append(h, m)
<1>1. PICK n \in Nat : n = Len(h) /\ h \in Seq(Msgs)
  BY LenProperties DEF Good
<1>2. m \in Msgs /\ ~IsTool(m) /\ m.kind = "ai" /\ m.n = n + 1 /\ m.calls = calls
  <2>1. n + 1 \in Nat
    OBVIOUS
  <2>2. AI(n + 1, calls) \in Msgs /\ ~IsTool(AI(n + 1, calls))
    BY <2>1, MessagesMade
  <2>3. m = AI(n + 1, calls) /\ AI(n + 1, calls).kind = "ai" /\ AI(n + 1, calls).n = n + 1 /\ AI(n + 1, calls).calls = calls
    BY <1>1 DEF AI
  <2>. QED
    BY <2>2, <2>3
<1>. HIDE DEF m
<1>3. Good(g)
  BY <1>1, <1>2, GoodWithMessage
<1>4. g \in Seq(Msgs) /\ Len(g) = n + 1 /\ g[n + 1] = m /\ \A i \in 1..n : g[i] = h[i]
  BY <1>1, <1>2, AppendProperties
<1>5. WaitsFor(g, calls, 0)
  BY <1>2, WaitsForResults
<1>. HIDE DEF g
<1>6. Last(g) = m
  BY <1>4 DEF Last
<1>7. Len(calls) # 0 => CallsWait(g)
  BY <1>2, <1>4, <1>5, <1>6 DEF CallsWait
<1>8. Extends(g, h)
  BY <1>1, <1>4 DEF Extends
<1>9. Good(g) /\ Extends(g, h) /\ Len(g) = Len(h) + 1 /\ m \in Msgs /\ WaitsFor(g, calls, 0) /\ (Len(calls) # 0 => CallsWait(g))
  BY <1>1, <1>2, <1>3, <1>4, <1>5, <1>7, <1>8
<1>. QED
  BY <1>9 DEF g, m

LEMMA ReplyWith ==
  ASSUME Good(history), NEW k \in 0..2
  PROVE  /\ Reply(k).calls \in Seq(Nat) /\ Len(Reply(k).calls) = k /\ Reply(k).kind = "ai" /\ Reply(k) \in Msgs
         /\ Good(Append(history, Reply(k))) /\ Extends(Append(history, Reply(k)), history)
         /\ Len(Append(history, Reply(k))) = Len(history) + 1
         /\ WaitsFor(Append(history, Reply(k)), Reply(k).calls, 0)
         /\ k # 0 => CallsWait(Append(history, Reply(k)))
<1>. DEFINE calls == [i \in 1..k |-> 2 * Len(history) + i]
<1>1. PICK n \in Nat : n = Len(history)
  BY LenProperties DEF Good
<1>2. calls \in Seq(Nat) /\ Len(calls) = k
  <2>1. \A i \in 1..k : 2 * n + i \in Nat
    OBVIOUS
  <2>2. calls = [i \in 1..k |-> 2 * n + i]
    BY <1>1
  <2>. HIDE DEF calls
  <2>. QED
    BY <2>1, <2>2
<1>3. Reply(k) = AI(Len(history) + 1, calls)
  BY DEF Reply
<1>. HIDE DEF calls
<1>4. Reply(k).calls = calls /\ Reply(k).kind = "ai"
  BY <1>3 DEF AI
<1>. QED
  BY <1>2, <1>3, <1>4, ReplyIs

\* The results of all calls of the last message.
LEMMA ResultsAre ==
  ASSUME GraphInv, CallsWait(history), NEW outcome \in [1..Len(Last(history).calls) -> Outcomes]
  PROVE  LET g == history \o Results(Last(history).calls, outcome)
         IN /\ Good(g) /\ Extends(g, history) /\ Len(g) - Len(history) \in 1..2
            /\ IsTool(Last(g)) /\ Last(g) = g[Len(g)]
<1>. DEFINE calls == Last(history).calls
            rs == Results(calls, outcome)
            g == history \o rs
<1>1. PICK n \in Nat : n = Len(history) /\ history \in Seq(Msgs)
  BY LenProperties DEF Good, GraphInv
<1>2. calls \in Seq(Nat) /\ Len(calls) \in 1..2 /\ WaitsFor(history, calls, 0) /\ outcome \in [1..Len(calls) -> Outcomes]
  BY DEF CallsWait
<1>. HIDE DEF calls
<1>3. rs = [i \in 1..Len(calls) |-> Tool(n + i, calls[i], outcome[i])]
  BY <1>1 DEF Results
<1>. HIDE DEF rs
<1>4. ASSUME NEW i \in 1..Len(calls)
      PROVE  rs[i] \in Msgs /\ IsTool(rs[i]) /\ rs[i].n = n + i /\ rs[i].of = calls[i]
  <2>1. calls[i] \in Nat /\ outcome[i] \in Outcomes /\ n + i \in Nat
    BY <1>1, <1>2, ElementOfSeq
  <2>2. rs[i] = Tool(n + i, calls[i], outcome[i])
    BY <1>3
  <2>3. Tool(n + i, calls[i], outcome[i]).n = n + i /\ Tool(n + i, calls[i], outcome[i]).of = calls[i]
    BY DEF Tool
  <2>. QED
    BY <2>1, <2>2, <2>3, MessagesMade
<1>5. rs \in Seq(Msgs) /\ Len(rs) = Len(calls)
  <2>1. \A i \in 1..Len(calls) : Tool(n + i, calls[i], outcome[i]) \in Msgs
    BY <1>3, <1>4
  <2>. QED
    BY <1>2, <1>3, <2>1
<1>6. Good(g)
  <2>1. \A i \in 1..Len(rs) : IsTool(rs[i]) /\ rs[i].n = Len(history) + i /\ rs[i].of = calls[i]
    BY <1>1, <1>4, <1>5
  <2>. QED
    BY <1>2, <1>5, <2>1, GoodWithResults DEF GraphInv
<1>7. PICK l \in 1..2 : l = Len(rs)
  BY <1>2, <1>5
<1>8. Len(g) = n + l /\ g[n + l] = rs[l]
  <2>1. Len(g) = Len(history) + Len(rs) /\ \A i \in 1..Len(rs) : g[Len(history) + i] = rs[i]
    BY <1>1, <1>5, ConcatIs
  <2>2. l \in 1..Len(rs)
    BY <1>7
  <2>. QED
    BY <1>1, <1>7, <2>1, <2>2
<1>9. Extends(g, history)
  BY <1>1, <1>5, ExtendedBy, MessagesMade
<1>. HIDE DEF g
<1>10. IsTool(Last(g)) /\ Last(g) = g[Len(g)]
  BY <1>4, <1>5, <1>7, <1>8 DEF Last
<1>11. Len(g) - Len(history) \in 1..2
  BY <1>1, <1>7, <1>8
<1>12. Good(g) /\ Extends(g, history) /\ Len(g) - Len(history) \in 1..2 /\ IsTool(Last(g)) /\ Last(g) = g[Len(g)]
  BY <1>6, <1>9, <1>10, <1>11
<1>. QED
  BY <1>12 DEF g, rs, calls

\* Longer histories: what failed is still there.
LEMMA FailedBefore ==
  ASSUME NEW h \in Seq(Msgs), NEW g \in Seq(Msgs), Extends(g, h), NEW places, FailedAt(h, places)
  PROVE  FailedAt(g, places)
<1>1. PICK n \in Nat, l \in Nat : n = Len(h) /\ l = Len(g)
  BY LenProperties
<1>2. n <= l /\ \A i \in 1..n : g[i] = h[i] /\ i \in 1..l
  BY <1>1 DEF Extends
<1>3. places \in SUBSET (1..n) /\ \A i \in places : Failed(h[i])
  BY <1>1 DEF FailedAt
<1>4. places \in SUBSET (1..l) /\ \A i \in places : Failed(g[i])
  BY <1>2, <1>3
<1>. QED
  BY <1>1, <1>4 DEF FailedAt

\* A step of which only the last part of the invariant is left to show.
LEMMA NodeKeeps ==
  ASSUME GraphInv, NEW next \in Nodes, NEW g, Step(next, g), Good(g), Extends(g, history),
         next \in {"tools", "orchestrator_tools"} => CallsWait(g),
         next \in {"compress", "agent", "tools"} => FailedAt(g, fails')
  PROVE  GraphInv'
<1>1. /\ node' = next /\ history' = g
      /\ Good(history') /\ Good(saved') /\ saved' = SubSeq(history', 1, Len(saved')) /\ Len(saved') <= Len(history')
  BY StepIs
<1>. QED
  BY <1>1 DEF GraphInv

LEMMA NoFailures ==
  ASSUME NEW h
  PROVE  FailedAt(h, {})
BY DEF FailedAt

LEMMA TurnKeeps ==
  ASSUME GraphInv, TurnBegins
  PROVE  GraphInv'
<1>. DEFINE m == Human(Len(saved) + 1)
            g == Append(saved, m)
<1>1. Good(saved) /\ saved \in Seq(Msgs)
  BY DEF GraphInv, Good
<1>2. Len(saved) + 1 \in Nat
  BY <1>1, LenProperties
<1>3. m \in Msgs /\ ~IsTool(m) /\ m.n = Len(saved) + 1 /\ m.kind # "digest"
  BY <1>2, MessagesMade DEF Human
<1>. HIDE DEF m
<1>4. Good(g)
  BY <1>1, <1>3, GoodWithMessage
<1>5. SubSeq(g, 1, Len(g)) = g /\ Len(g) \in Nat
  BY <1>4, SubSeqFull, LenProperties DEF Good
<1>6. history' = g /\ saved' = g /\ fails' = {} /\ node' \in {"compress", "orchestrator"}
  BY DEF TurnBegins, m
<1>. HIDE DEF g
<1>7. FailedAt(g, {})
  BY NoFailures
<1>8. "compress" \in Nodes /\ "orchestrator" \in Nodes
  BY DEF Nodes, AgentNodes
<1>. QED
  BY <1>4, <1>5, <1>6, <1>7, <1>8 DEF GraphInv

LEMMA CompressKeeps ==
  ASSUME GraphInv, MaybeCompress
  PROVE  GraphInv'
<1>. DEFINE v == getVisibleConversationMessages(history)
            cut == Cut(v)
            m == NextDigest(getLatestCompressionState(history), SubSeq(v, 1, cut))
<1>1. /\ Good(history) /\ history \in Seq(Msgs) /\ Len(history) \in Nat
      /\ FailedAt(history, fails) /\ fails' = fails
  BY LenProperties DEF GraphInv, Good, MaybeCompress
<1>2. "agent" \in Nodes
  BY DEF Nodes, AgentNodes
<1>3. CASE Step("agent", history)
  <2>1. Extends(history, history)
    BY <1>1 DEF Extends
  <2>. QED
    BY <1>1, <1>2, <1>3, <2>1, NodeKeeps
<1>4. CASE cut > 0 /\ Step("agent", Append(history, m))
  <2>1. m \in Msgs /\ Good(Append(history, m))
    BY <1>1, <1>4, GoodWithCut
  <2>. HIDE DEF m
  <2>2. Append(history, m) \in Seq(Msgs) /\ Len(Append(history, m)) = Len(history) + 1 /\ Extends(Append(history, m), history)
    BY <1>1, <2>1, AppendProperties DEF Extends
  <2>3. FailedAt(Append(history, m), fails)
    BY <1>1, <2>2, FailedBefore
  <2>. QED
    BY <1>1, <1>2, <1>4, <2>1, <2>2, <2>3, NodeKeeps
<1>. QED
  BY <1>3, <1>4 DEF MaybeCompress

LEMMA EndIs == End \in {"rest", "orchestrator"} /\ End \in Nodes
BY DEF End, Nodes, AgentNodes

LEMMA AgentKeeps ==
  ASSUME GraphInv, CallAgent
  PROVE  GraphInv'
<1>1. PICK k \in 0..2 : Step(IF k = 0 THEN End ELSE "tools", Append(history, Reply(k)))
  BY DEF CallAgent
<1>. DEFINE g == Append(history, Reply(k))
            next == IF k = 0 THEN End ELSE "tools"
<1>2. /\ Good(history) /\ history \in Seq(Msgs) /\ FailedAt(history, fails) /\ fails' = fails
  BY DEF GraphInv, Good, CallAgent
<1>3. Good(g) /\ Extends(g, history) /\ Len(g) = Len(history) + 1 /\ (k # 0 => CallsWait(g))
  BY <1>2, ReplyWith
<1>4. next \in Nodes /\ (next = "tools" => k # 0) /\ next \notin {"orchestrator_tools", "compress", "agent"}
  BY EndIs DEF Nodes, AgentNodes
<1>5. Step(next, g)
  BY <1>1
<1>. HIDE DEF g, next
<1>6. FailedAt(g, fails)
  BY <1>2, <1>3, FailedBefore DEF Good
<1>. QED
  BY <1>2, <1>3, <1>4, <1>5, <1>6, NodeKeeps

LEMMA FailureStopKeeps ==
  ASSUME GraphInv, ToolFailureStop
  PROVE  GraphInv'
<1>1. Step(End, Append(history, Reply(0)))
  BY DEF ToolFailureStop
<1>2. Good(history)
  BY DEF GraphInv
<1>3. Good(Append(history, Reply(0))) /\ Extends(Append(history, Reply(0)), history)
  BY <1>2, ReplyWith
<1>. QED
  BY <1>1, <1>2, <1>3, EndIs, NodeKeeps

LEMMA OrchestrateKeeps ==
  ASSUME GraphInv, Orchestrate
  PROVE  GraphInv'
<1>1. PICK k \in 0..2 : Step(IF k > 0 /\ graph = "multi" THEN "orchestrator_tools" ELSE "rest",
                             Append(history, Reply(k)))
  BY DEF Orchestrate
<1>. DEFINE g == Append(history, Reply(k))
            next == IF k > 0 /\ graph = "multi" THEN "orchestrator_tools" ELSE "rest"
<1>2. Good(history)
  BY DEF GraphInv
<1>3. Good(g) /\ Extends(g, history) /\ (k # 0 => CallsWait(g))
  BY <1>2, ReplyWith
<1>4. next \in Nodes /\ (next = "orchestrator_tools" => k # 0) /\ next \notin {"tools", "compress", "agent"}
  BY DEF Nodes, AgentNodes
<1>5. Step(next, g)
  BY <1>1
<1>. HIDE DEF g, next
<1>. QED
  BY <1>2, <1>3, <1>4, <1>5, NodeKeeps

LEMMA OrchestratorToolsKeeps ==
  ASSUME GraphInv, OrchestratorTools
  PROVE  GraphInv'
<1>1. PICK outcome \in [1..Len(Last(history).calls) -> Outcomes] :
        Step("orchestrator", history \o Results(Last(history).calls, outcome))
  BY DEF OrchestratorTools
<1>. DEFINE g == history \o Results(Last(history).calls, outcome)
<1>2. CallsWait(history)
  BY DEF GraphInv, OrchestratorTools
<1>3. Good(g) /\ Extends(g, history)
  BY <1>2, ResultsAre
<1>4. Step("orchestrator", g) /\ "orchestrator" \in Nodes
  BY <1>1 DEF Nodes, AgentNodes
<1>. HIDE DEF g
<1>. QED
  BY <1>2, <1>3, <1>4, NodeKeeps

\* What the agents' tools have come to is counted, or stops them.
LEMMA RunToolsKeeps ==
  ASSUME GraphInv, RunTools
  PROVE  GraphInv'
<1>1. PICK outcome \in [1..Len(Last(history).calls) -> Outcomes] :
        LET after == history \o Results(Last(history).calls, outcome)
        IN /\ fails' = IF Failed(Last(after)) THEN fails \cup {Len(after)} ELSE {}
           /\ Step(IF hasRepeatedRecentToolFailure(after) THEN "tool_failure_stop" ELSE "compress",
                   after)
  BY DEF RunTools
<1>. DEFINE g == history \o Results(Last(history).calls, outcome)
            next == IF hasRepeatedRecentToolFailure(g) THEN "tool_failure_stop" ELSE "compress"
<1>2. CallsWait(history) /\ FailedAt(history, fails) /\ Good(history)
  BY DEF GraphInv, RunTools
<1>3. Good(g) /\ Extends(g, history) /\ Len(g) - Len(history) \in 1..2 /\ Last(g) = g[Len(g)]
  BY <1>2, ResultsAre
<1>4. Step(next, g) /\ fails' = IF Failed(Last(g)) THEN fails \cup {Len(g)} ELSE {}
  BY <1>1
<1>5. next \in Nodes /\ next \in {"tool_failure_stop", "compress"}
  BY DEF Nodes, AgentNodes
<1>6. next = "compress" => ~hasRepeatedRecentToolFailure(g)
  OBVIOUS
<1>. HIDE DEF g, next
<1>7. PICK n \in Nat, l \in Nat : n = Len(history) /\ l = Len(g)
  BY <1>2, <1>3, LenProperties DEF Good
<1>8. n < l /\ \A i \in 1..n : g[i] = history[i]
  BY <1>3, <1>7 DEF Extends
<1>9. ASSUME next = "compress" PROVE FailedAt(g, fails')
  <2>1. CASE ~Failed(g[l])
    BY <1>3, <1>4, <1>7, <2>1, NoFailures
  <2>2. CASE Failed(g[l])
    <3>1. fails' = fails \cup {l}
      BY <1>3, <1>4, <1>7, <2>2
    <3>2. /\ fails \in SUBSET (1..n) /\ \A i \in fails : Failed(history[i])
          /\ ~\E i, j, k \in fails : i < j /\ j < k /\ k - i < Window
      BY <1>2, <1>7 DEF FailedAt
    <3>3. fails' \in SUBSET (1..l) /\ \A i \in fails' : Failed(g[i])
      <4>1. 1..n \in SUBSET (1..l) /\ l \in 1..l
        BY <1>8
      <4>2. \A i \in fails : g[i] = history[i]
        BY <1>8, <3>2
      <4>3. \A i \in fails : Failed(g[i])
        BY <3>2, <4>2
      <4>. QED
        BY <2>2, <3>1, <3>2, <4>1, <4>3
    <3>4. ASSUME NEW i \in fails', NEW j \in fails', NEW k \in fails', i < j, j < k, k - i < Window
          PROVE  FALSE
      <4>1. i \in fails /\ j \in fails
        BY <1>8, <3>1, <3>2, <3>3, <3>4
      <4>2. k = l
        BY <3>1, <3>2, <3>4, <4>1
      <4>3. i \in 1..l - 1 /\ j \in 1..l - 1 /\ i # j
        BY <1>8, <3>2, <3>4, <4>1
      <4>4. i > l - Window /\ j > l - Window
        BY <3>4, <4>2, <4>3, AgentGraphAssumption
      <4>5. Failed(g[i]) /\ Failed(g[j])
        BY <3>3
      <4>6. hasRepeatedRecentToolFailure(g)
        BY <1>7, <2>2, <4>3, <4>4, <4>5 DEF hasRepeatedRecentToolFailure
      <4>. QED
        BY <1>6, <1>9, <4>6
    <3>. QED
      BY <1>7, <3>3, <3>4 DEF FailedAt
  <2>. QED
    BY <2>1, <2>2
<1>. QED
  BY <1>2, <1>3, <1>4, <1>5, <1>9, NodeKeeps

\* A delegation: the reply and the answers to all of its calls.
LEMMA HandOffKeeps ==
  ASSUME GraphInv, HandOff
  PROVE  GraphInv'
<1>1. PICK k \in 1..2, out \in Outcomes :
        Step("compress", history \o <<Reply(k)>> \o
               [i \in 1..k |-> Tool(Len(history) + 1 + i, Reply(k).calls[i], out)])
  <2>1. PICK k \in 1..2, out \in {"ok", "error A"} :
          Step("compress", history \o <<Reply(k)>> \o
                 [i \in 1..k |-> Tool(Len(history) + 1 + i, Reply(k).calls[i], out)])
    BY DEF HandOff
  <2>2. out \in Outcomes
    BY DEF Outcomes
  <2>. QED
    BY <2>1, <2>2
<1>. DEFINE h == Append(history, Reply(k))
            calls == Reply(k).calls
            rs == [i \in 1..k |-> Tool(Len(history) + 1 + i, calls[i], out)]
<1>2. Good(history) /\ fails' = {} /\ k \in 0..2 /\ k # 0
  <2>1. Good(history) /\ fails' = {}
    BY DEF GraphInv, HandOff
  <2>2. k \in 0..2 /\ k # 0
    OBVIOUS
  <2>. QED
    BY <2>1, <2>2
<1>3. /\ calls \in Seq(Nat) /\ Len(calls) = k /\ Reply(k) \in Msgs
      /\ Good(h) /\ Extends(h, history) /\ Len(h) = Len(history) + 1 /\ WaitsFor(h, calls, 0)
  BY <1>2, ReplyWith
<1>4. PICK n \in Nat : n = Len(history) /\ history \in Seq(Msgs) /\ h \in Seq(Msgs)
  BY <1>2, <1>3, LenProperties DEF Good
<1>5. history \o <<Reply(k)>> = h
  BY <1>3, <1>4, AppendIsConcat
<1>. HIDE DEF calls
<1>6. \A i \in 1..k : Tool(n + 1 + i, calls[i], out) \in Msgs /\ IsTool(Tool(n + 1 + i, calls[i], out))
  <2>. TAKE i \in 1..k
  <2>1. calls[i] \in Nat
    BY <1>3, ElementOfSeq
  <2>2. n + 1 + i \in Nat
    BY <1>4
  <2>. QED
    BY <1>2, <2>1, <2>2, MessagesMade
<1>7. rs = [i \in 1..k |-> Tool(n + 1 + i, calls[i], out)]
  BY <1>4
<1>8. Step("compress", h \o rs)
  BY <1>1, <1>5 DEF calls
<1>. HIDE DEF rs, h
<1>9. rs \in Seq(Msgs) /\ Len(rs) = k
  <2>1. k \in Nat
    BY <1>2
  <2>2. [i \in 1..k |-> Tool(n + 1 + i, calls[i], out)] \in [1..k -> Msgs]
    BY <1>6
  <2>3. rs \in [1..k -> Msgs]
    BY <1>7, <2>2
  <2>. QED
    BY <2>1, <2>3
<1>10. \A i \in 1..k : IsTool(rs[i]) /\ rs[i].n = Len(h) + i /\ rs[i].of = calls[i]
  BY <1>3, <1>4, <1>6, <1>7 DEF Tool
<1>11. Good(h \o rs)
  BY <1>3, <1>9, <1>10, GoodWithResults
<1>12. Extends(h \o rs, history)
  <2>1. Extends(h \o rs, h)
    BY <1>3, <1>4, <1>9, ExtendedBy
  <2>2. h \o rs \in Seq(Msgs)
    BY <1>11 DEF Good
  <2>3. PICK a \in Nat, b \in Nat : a = Len(h) /\ b = Len(h \o rs)
    BY <1>4, <2>2, LenProperties
  <2>4. a = n + 1 /\ a <= b
    BY <1>3, <1>4, <2>1, <2>3 DEF Extends
  <2>5. \A i \in 1..n : i \in 1..n + 1
    OBVIOUS
  <2>6. \A i \in 1..n + 1 : (h \o rs)[i] = h[i]
    BY <2>1, <2>3, <2>4 DEF Extends
  <2>7. \A i \in 1..n : h[i] = history[i]
    BY <1>3, <1>4 DEF Extends
  <2>8. \A i \in 1..n : (h \o rs)[i] = history[i]
    BY <2>5, <2>6, <2>7
  <2>9. n <= b
    BY <2>4
  <2>. QED
    BY <1>4, <2>3, <2>8, <2>9 DEF Extends
<1>13. "compress" \in Nodes /\ FailedAt(h \o rs, {})
  BY NoFailures DEF Nodes, AgentNodes
<1>. QED
  BY <1>2, <1>8, <1>11, <1>12, <1>13, NodeKeeps

\* In plain text: the text, a call made of it, and its answer.
LEMMA TextHandOffKeeps ==
  ASSUME GraphInv, TextHandOff
  PROVE  GraphInv'
<1>. DEFINE words == Append(history, Reply(0))
            calls == <<2 * Len(words) + 1>>
            call == AI(Len(words) + 1, calls)
            h == Append(words, call)
            r == Tool(Len(words) + 2, calls[1], "ok")
<1>1. Good(history) /\ fails' = {}
  BY DEF GraphInv, TextHandOff
<1>2. Good(words) /\ Extends(words, history) /\ Len(words) = Len(history) + 1
  BY <1>1, ReplyWith
<1>3. PICK n \in Nat : n = Len(history) /\ history \in Seq(Msgs) /\ words \in Seq(Msgs) /\ Len(words) = n + 1
  BY <1>1, <1>2, LenProperties DEF Good
<1>4. call.calls = calls
  BY DEF AI
<1>5. Step("compress", words \o <<call, r>>)
  BY <1>4 DEF TextHandOff
<1>6. calls \in Seq(Nat) /\ Len(calls) = 1 /\ calls[1] \in Nat
  <2>1. 2 * (n + 1) + 1 \in Nat
    BY <1>3
  <2>2. calls = <<2 * (n + 1) + 1>>
    BY <1>3
  <2>. HIDE DEF calls
  <2>. QED
    BY <2>1, <2>2
<1>. HIDE DEF words, calls
<1>7. Good(h) /\ Extends(h, words) /\ Len(h) = Len(words) + 1 /\ call \in Msgs /\ WaitsFor(h, calls, 0)
  BY <1>2, <1>6, ReplyIs
<1>8. r \in Msgs /\ IsTool(r) /\ r.n = Len(h) + 1 /\ r.of = calls[1]
  <2>1. n + 3 \in Nat /\ "ok" \in Outcomes /\ Len(words) + 2 = n + 3 /\ Len(h) + 1 = n + 3
    BY <1>3, <1>7 DEF Outcomes
  <2>2. r = Tool(n + 3, calls[1], "ok")
    BY <2>1
  <2>3. Tool(n + 3, calls[1], "ok").n = n + 3 /\ Tool(n + 3, calls[1], "ok").of = calls[1]
    BY DEF Tool
  <2>. QED
    BY <1>6, <2>1, <2>2, <2>3, MessagesMade
<1>. HIDE DEF call, r
<1>9. words \o <<call, r>> = Append(h, r)
  BY <1>3, <1>7, <1>8
<1>. HIDE DEF h
<1>10. Good(Append(h, r))
  <2>1. calls[0 + 1] = calls[1] /\ 0 \in Nat /\ 0 < Len(calls)
    BY <1>6
  <2>. QED
    BY <1>6, <1>7, <1>8, <2>1, GoodWithResult
<1>11. Extends(Append(h, r), history)
  <2>1. h \in Seq(Msgs) /\ Len(h) = n + 2
    BY <1>3, <1>7 DEF Good
  <2>2. Len(Append(h, r)) = n + 3 /\ \A i \in 1..n + 2 : Append(h, r)[i] = h[i]
    BY <1>8, <2>1, AppendProperties
  <2>3. n <= n + 3 /\ \A i \in 1..n : i \in 1..n + 1 /\ i \in 1..n + 2
    OBVIOUS
  <2>4. \A i \in 1..n : history[i] = words[i] /\ words[i] = h[i]
    BY <1>2, <1>3, <1>7, <2>3 DEF Extends
  <2>. QED
    BY <1>3, <2>2, <2>3, <2>4 DEF Extends
<1>12. "compress" \in Nodes /\ FailedAt(Append(h, r), {})
  BY NoFailures DEF Nodes, AgentNodes
<1>. QED
  BY <1>1, <1>5, <1>9, <1>10, <1>11, <1>12, NodeKeeps

LEMMA AbortKeeps ==
  ASSUME GraphInv, Abort
  PROVE  GraphInv'
<1>1. Good(saved)
  BY DEF GraphInv
<1>2. SubSeq(saved, 1, Len(saved)) = saved /\ Len(saved) \in Nat
  BY <1>1, SubSeqFull, LenProperties DEF Good
<1>3. node' = "rest" /\ history' = saved /\ saved' = saved
  BY DEF Abort
<1>4. "rest" \in Nodes /\ Len(saved) <= Len(saved)
  BY <1>2 DEF Nodes
<1>. QED
  BY <1>1, <1>2, <1>3, <1>4 DEF GraphInv

LEMMA GraphBegins == GraphInit => GraphInv
<1>1. SUFFICES ASSUME GraphInit PROVE GraphInv
  OBVIOUS
<1>2. SubSeq(<<>>, 1, Len(<<>>)) = <<>> /\ Len(<<>>) <= Len(<<>>)
  <2>1. <<>> \in Seq(Msgs) /\ Len(<<>>) = 0
    OBVIOUS
  <2>2. SubSeq(<<>>, 1, Len(<<>>)) = <<>>
    BY <2>1, SubSeqFull
  <2>. QED
    BY <2>1, <2>2
<1>. QED
  BY <1>1, <1>2, GoodFromNothing DEF GraphInit, GraphInv, Nodes, AgentNodes

LEMMA GraphGoesOn == GraphInv /\ [GraphNext]_graphVars => GraphInv'
<1>1. SUFFICES ASSUME GraphInv, [GraphNext]_graphVars PROVE GraphInv'
  OBVIOUS
<1>2. CASE UNCHANGED graphVars
  BY <1>1, <1>2 DEF GraphInv, graphVars
<1>. QED
  BY <1>1, <1>2, TurnKeeps, CompressKeeps, AgentKeeps, RunToolsKeeps, FailureStopKeeps, OrchestrateKeeps, HandOffKeeps,
     TextHandOffKeeps, OrchestratorToolsKeeps, AbortKeeps DEF GraphNext

LEMMA PromptFollows == GraphInv => PromptCorrect
<1>1. SUFFICES ASSUME GraphInv PROVE PromptCorrect
  OBVIOUS
<1>2. GraphTypeOK
  <2>1. \A i \in 1..Len(history) : history[i] \in Msgs
    BY <1>1, ElementOfSeq DEF GraphInv, Good
  <2>2. \A i \in 1..Len(history) : history[i].kind \in {"human", "ai", "tool", "digest"}
    BY <2>1, MessagesAre
  <2>. QED
    BY <1>1, <2>2 DEF GraphInv, Good, GraphTypeOK
<1>3. PromptIsWellFormed /\ ResultsKeepTheirCalls /\ NothingIsForgotten
  BY <1>1, PromptOfGood DEF GraphInv
<1>4. FailuresStop
  BY <1>1 DEF GraphInv, FailedAt, FailuresStop
<1>. QED
  BY <1>2, <1>3, <1>4 DEF PromptCorrect

THEOREM PromptsAreCorrect == GraphSpec => []PromptCorrect
<1>. QED
  BY GraphBegins, GraphGoesOn, PromptFollows, PTL DEF GraphSpec
=============================================================================
