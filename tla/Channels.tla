------------------------------ MODULE Channels ------------------------------
(***************************************************************************)
(* The channels beside the web: BlueBubbles, which gives a chat a new      *)
(* conversation after a time of silence and finds the chat of a reply by   *)
(* the conversation, with attachments fetched from the gateway; Telegram,  *)
(* which cuts long replies; and the command line, which takes one line at  *)
(* a time.  What the agent does with a message is left to Conversations:   *)
(* here a turn answers once, or fails and is apologised for.               *)
(***************************************************************************)
EXTENDS Integers, FiniteSets, SequencesExt

CONSTANTS
  Guids,          \* the chats of BlueBubbles
  Ttl,            \* conversationTtlMs; 0 when a chat is one conversation
  MaxAttachments, \* bound: content items of a reply
  MaxLen,         \* the limit of a Telegram message (4096)
  MaxText,        \* bound: characters of a reply
  MaxClock,       \* bound: ticks of the clock
  MaxIncoming     \* bound: messages of users

ASSUME ChannelsAssumption ==
  /\ Ttl \in Nat /\ MaxLen \in Nat \ {0}
  /\ {"none", "no such chat"} \cap Guids = {}

VARIABLES
  channel,               \* the channel a behaviour is about: they share nothing
  clock,
  conversationMap,       \* of each chat: its conversation (0 for none) and its last activity
  conversationToChatGuid,\* of each conversation so far: its chat, or "none"
  blueTurns,             \* the turns that go on: conversation and (history) chat
  blueSent,              \* history: one reply, and where and how it was sent
  telegramSent,          \* a reply: what remains to be cut, its parts, how many are sent,
                         \* and (history) where each part and the rest begin in the text
  typed,                 \* the command line: lines so far
  processing,            \* and whether one is being processed
  cliTurns,              \* history: how many are in fact
  cliOpen

blueVars == <<clock, conversationMap, conversationToChatGuid, blueTurns, blueSent>>
cliVars == <<typed, processing, cliTurns, cliOpen>>
channelVars == <<channel, blueVars, telegramSent, cliVars>>

NoChat == [conversation |-> 0, last |-> 0]
NoReply == [to |-> "none"]
NoText == [text |-> << >>, rest |-> << >>, parts |-> << >>, from |-> <<1>>, sent |-> 0]

-----------------------------------------------------------------------------
(* BlueBubbles                                                             *)

Stale(entry) == entry.conversation # 0 /\ clock - entry.last >= Ttl

\* The chat's conversation goes on, or the next number is that of a new one.
ResolvedConversation(chat) ==
  LET entry == conversationMap[chat] IN
  IF entry.conversation # 0 /\ ~Stale(entry) THEN entry.conversation
  ELSE Len(conversationToChatGuid) + 1

\* Variant for mutation: the old conversation keeps its chat.
RenewedBeside(chat) ==
  Append(conversationToChatGuid, chat)

\* resolveConversationId: the entry of a conversation that is over is removed first.
Renewed(chat) ==
  Append([c \in DOMAIN conversationToChatGuid |->
            IF c = conversationMap[chat].conversation THEN "none" ELSE conversationToChatGuid[c]], chat)

\* Variant for mutation: only a new conversation counts as activity.
HandleWebhookUntouched(chat) ==
  /\ Cardinality(blueTurns) < MaxIncoming /\ Len(conversationToChatGuid) < MaxIncoming
  /\ LET c == ResolvedConversation(chat) IN
     /\ IF c <= Len(conversationToChatGuid) THEN UNCHANGED <<conversationMap, conversationToChatGuid>>
          ELSE /\ conversationToChatGuid' = Renewed(chat)
               /\ conversationMap' = [conversationMap EXCEPT ![chat] = [conversation |-> c, last |-> clock]]
     /\ blueTurns' = blueTurns \cup {[conversation |-> c, chat |-> chat, at |-> clock]}
  /\ UNCHANGED <<clock, blueSent, telegramSent, cliVars>>

\* handleWebhook of a message with text: a turn begins.  (Without a time of silence the
\* conversation is the chat itself, and no reply can miss it.)
HandleWebhook(chat) ==
  /\ Cardinality(blueTurns) < MaxIncoming /\ Len(conversationToChatGuid) < MaxIncoming
  /\ LET c == ResolvedConversation(chat) IN
     /\ conversationToChatGuid' = IF c <= Len(conversationToChatGuid) THEN conversationToChatGuid ELSE Renewed(chat)
     /\ conversationMap' = [conversationMap EXCEPT ![chat] = [conversation |-> c, last |-> clock]]
     /\ blueTurns' = blueTurns \cup {[conversation |-> c, chat |-> chat, at |-> clock]}
  /\ UNCHANGED <<clock, blueSent, telegramSent, cliVars>>

\* evictStaleConversations, by its interval.
EvictStale ==
  /\ \E chat \in Guids : Stale(conversationMap[chat])
  /\ conversationMap' = [chat \in Guids |-> IF Stale(conversationMap[chat]) THEN NoChat ELSE conversationMap[chat]]
  /\ conversationToChatGuid' =
       [c \in DOMAIN conversationToChatGuid |->
          IF \E chat \in Guids : Stale(conversationMap[chat]) /\ conversationMap[chat].conversation = c
            THEN "none" ELSE conversationToChatGuid[c]]
  /\ UNCHANGED <<clock, blueTurns, blueSent, telegramSent, cliVars>>

\* Where a reply goes: to its conversation's chat; without one, to a chat named as the
\* conversation is, which there is not.
ChatOf(conversation) ==
  LET chat == conversationToChatGuid[conversation] IN IF chat = "none" THEN "no such chat" ELSE chat

\* The items of a reply are "sent", "gone" (not found at the gateway, passed over) or
\* "refused" (an error, which ends the sending of items).
Fates == UNION {[1..n -> {"sent", "gone", "refused"}] : n \in 0..MaxAttachments}
Tried(fates) ==
  LET bad == SelectInSeq(fates, LAMBDA f : f = "refused") IN
  IF bad = 0 THEN fates ELSE SubSeq(fates, 1, bad - 1)

\* Variant for mutation: the text goes with the first item, found or not.
TextWithFirst(fates) ==
  LET tried == Tried(fates) IN IF tried # << >> /\ tried[1] = "sent" THEN 1 ELSE 0

\* trySendAttachments: the text goes with the first item that is sent.
TextWithItems(fates) == IF "sent" \in ToSet(Tried(fates)) THEN 1 ELSE 0

\* Variant for mutation: items that are all gone count as sent.
FallsBackOnRefusal(fates) == fates = << >> \/ "refused" \in ToSet(fates)

\* sendMessage sends the text by itself: there are no items, none was sent, or one failed.
SentAlone(fates) == "refused" \in ToSet(fates) \/ "sent" \notin ToSet(fates)

\* sendMessage: the reply of a turn, and whether a text by itself was accepted.
BlueReply(turn, fates, accepted) ==
  /\ blueTurns' = blueTurns \ {turn}
  /\ blueSent' = [to |-> ChatOf(turn.conversation), turn |-> turn, at |-> clock,
                  silent |-> turn.conversation # conversationMap[turn.chat].conversation
                               \/ Stale(conversationMap[turn.chat]),
                  texts |-> TextWithItems(fates) + (IF SentAlone(fates) /\ accepted THEN 1 ELSE 0),
                  again |-> SentAlone(fates) /\ TextWithItems(fates) = 1,
                  failed |-> SentAlone(fates) /\ ~accepted]
  /\ UNCHANGED <<clock, conversationMap, conversationToChatGuid, telegramSent, cliVars>>

\* The clock matters to BlueBubbles only.
Tick ==
  /\ clock < MaxClock /\ clock' = clock + 1
  /\ UNCHANGED <<conversationMap, conversationToChatGuid, blueTurns, blueSent, telegramSent, cliVars>>

-----------------------------------------------------------------------------
(* Telegram                                                                *)

Newline == "n"
TelegramTexts == UNION {[1..n -> {Newline, "x"}] : n \in 1..MaxText}

\* Variant for mutation: the newline may lie one further.
CutOneMore(rest) ==
  LET at == {i \in 2..MaxLen + 2 : i <= Len(rest) /\ rest[i] = Newline} IN
  IF at = {} THEN MaxLen ELSE CHOOSE i \in {j - 1 : j \in at} : \A j \in at : j - 1 <= i

\* Where the rest is cut: after the last newline's predecessor within the limit (the
\* newline may be the character after it), or at the limit.
CutAt(rest) ==
  LET at == {i \in 2..MaxLen + 1 : rest[i] = Newline} IN
  IF at = {} THEN MaxLen ELSE CHOOSE i \in {j - 1 : j \in at} : \A j \in at : j - 1 <= i

\* The newline a rest begins with is dropped.
AfterCut(rest, i) ==
  LET tail == SubSeq(rest, i + 1, Len(rest)) IN
  IF tail # << >> /\ tail[1] = Newline THEN Tail(tail) ELSE tail

\* splitText with a text to send: nothing is cut yet.
TelegramReply(text) ==
  /\ telegramSent = NoText
  /\ telegramSent' = [NoText EXCEPT !.text = text, !.rest = text]
  /\ UNCHANGED <<blueVars, cliVars>>

\* Its loop: one more part, or all that remains when it is within the limit.
CutPart ==
  LET t == telegramSent
      at == IF Len(t.rest) <= MaxLen THEN Len(t.rest) ELSE CutAt(t.rest)
      rest == AfterCut(t.rest, at)
  IN /\ t.rest # << >>
     /\ telegramSent' = [t EXCEPT !.parts = Append(@, SubSeq(t.rest, 1, at)), !.rest = rest,
                                  !.from = Append(@, Len(t.text) - Len(rest) + 1)]
     /\ UNCHANGED <<blueVars, cliVars>>

\* sendMessage: the parts in order, up to one that fails.
SendPart ==
  /\ telegramSent.rest = << >> /\ telegramSent.sent < Len(telegramSent.parts)
  /\ telegramSent' = [telegramSent EXCEPT !.sent = @ + 1]
  /\ UNCHANGED <<blueVars, cliVars>>

-----------------------------------------------------------------------------
(* The command line                                                        *)

\* Variant for mutation: the mark is set when the turn has been handed over.
TypeMarkedLate ==
  /\ cliOpen /\ typed < MaxIncoming /\ typed' = typed + 1
  /\ IF processing THEN UNCHANGED <<processing, cliTurns>>
       ELSE cliTurns' = cliTurns + 1 /\ processing' \in BOOLEAN
  /\ UNCHANGED <<cliOpen, blueVars, telegramSent>>

\* A line with text: while one is processed it is dropped, a stop command among them.
TypeLine ==
  /\ cliOpen /\ typed < MaxIncoming /\ typed' = typed + 1
  /\ IF processing THEN UNCHANGED <<processing, cliTurns>>
       ELSE cliTurns' = cliTurns + 1 /\ processing' = TRUE
  /\ UNCHANGED <<cliOpen, blueVars, telegramSent>>

\* The turn ends, well or not.
LineDone ==
  /\ cliTurns > 0 /\ cliTurns' = cliTurns - 1
  /\ processing' = FALSE
  /\ UNCHANGED <<typed, cliOpen, blueVars, telegramSent>>

\* "exit", or an interrupt: the process ends, whatever is being processed.
Exit ==
  /\ cliOpen /\ cliOpen' = FALSE
  /\ cliTurns' = 0
  /\ UNCHANGED <<typed, processing, blueVars, telegramSent>>

-----------------------------------------------------------------------------
ChannelsInit ==
  /\ channel \in {"bluebubbles", "telegram", "cli"}
  /\ clock = 0
  /\ conversationMap = [chat \in Guids |-> NoChat]
  /\ conversationToChatGuid = << >>
  /\ blueTurns = {} /\ blueSent = NoReply
  /\ telegramSent = NoText
  /\ typed = 0 /\ processing = FALSE /\ cliTurns = 0 /\ cliOpen = TRUE

ChannelsNext ==
  /\ UNCHANGED channel
  /\ \/ /\ channel = "bluebubbles" /\ blueSent = NoReply
        /\ \/ \E chat \in Guids : HandleWebhook(chat)
           \/ EvictStale \/ Tick
           \/ \E turn \in blueTurns, fates \in Fates, accepted \in BOOLEAN : BlueReply(turn, fates, accepted)
     \/ /\ channel = "telegram"
        /\ (\E text \in TelegramTexts : TelegramReply(text)) \/ CutPart \/ SendPart
     \/ channel = "cli" /\ (TypeLine \/ LineDone \/ Exit)

ChannelsSpec == ChannelsInit /\ [][ChannelsNext]_channelVars

-----------------------------------------------------------------------------
(* What the channels promise                                               *)

\* The two maps are inverse to each other: a conversation has a chat exactly while it is
\* the one that chat's next message would join, or the eviction has yet to run.
MapsInverse ==
  \A c \in DOMAIN conversationToChatGuid :
    LET chat == conversationToChatGuid[c] IN
    IF chat = "none" THEN \A g \in Guids : conversationMap[g].conversation # c
    ELSE conversationMap[chat].conversation = c

\* A reply reaches the chat its message came from, unless that chat's conversation was
\* silent for the whole time (a turn that lasts longer than that can lose its reply).
RepliesReachChat ==
  (blueSent # NoReply /\ ~blueSent.silent) => blueSent.to = blueSent.turn.chat

\* No reply is lost while the time of silence has not passed since its own message, and
\* none ever goes to another chat.
RepliesInTime ==
  blueSent # NoReply =>
    /\ blueSent.to \in {blueSent.turn.chat, "no such chat"}
    /\ blueSent.at - blueSent.turn.at < Ttl => blueSent.to = blueSent.turn.chat

\* A reply that did not fail has brought its text: once, and again only when an item was
\* refused after another had been sent.
TextArrives ==
  (blueSent # NoReply /\ ~blueSent.failed) =>
    /\ blueSent.texts >= 1
    /\ blueSent.texts > 1 => blueSent.again

\* The parts of a reply are within the limit, none is empty, and each, then what remains,
\* begins where the part before ends, or after a newline there: nothing else of the text
\* is lost, doubled or out of order.
PartsAreWhole ==
  LET t == telegramSent
      End(i) == t.from[i] + Len(t.parts[i]) - 1
  IN /\ \A i \in DOMAIN t.parts :
          /\ Len(t.parts[i]) \in 1..MaxLen /\ t.parts[i] = SubSeq(t.text, t.from[i], End(i))
          /\ t.from[i + 1] = End(i) + 1 \/ (t.from[i + 1] = End(i) + 2 /\ t.text[End(i) + 1] = Newline)
     /\ t.from[1] = 1 /\ t.rest = SubSeq(t.text, t.from[Len(t.parts) + 1], Len(t.text))

\* The command line has one turn at a time.
OneLineAtATime == cliTurns <= 1

\* Replies go where their messages came from, whole and once.
ChannelsCorrect ==
  /\ MapsInverse /\ RepliesReachChat /\ RepliesInTime /\ TextArrives /\ PartsAreWhole /\ OneLineAtATime
=============================================================================
