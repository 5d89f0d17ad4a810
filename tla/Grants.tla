------------------------------- MODULE Grants -------------------------------
(***************************************************************************)
(* Privileged access: the grants AuthService keeps by conversation, the    *)
(* personal token and grant the agent remembers for a conversation         *)
(* (updateConversationContext, resolveConversationTokens), and the tools   *)
(* that check, at the time they run, the grant their turn was dispatched   *)
(* with.                                                                   *)
(*                                                                         *)
(* A grant is named by the order of its creation.  A client receives it    *)
(* from one request and passes it on with a later frame; another client of *)
(* the conversation may have activated a new one in between.  Time is the  *)
(* event that a grant or a remembered entry expires.                       *)
(***************************************************************************)
EXTENDS Naturals

CONSTANTS
  Chats,      \* conversation ids
  MaxGrants,  \* bound: the grants that are created
  Calls       \* the calls of privileged tools, one per turn

ASSUME GrantsAssumption == MaxGrants \in Nat

VARIABLES
  grantRows,  \* auth_privilege_grants: state and conversation of each grant so far
  context,    \* conversationContext: the entry of each conversation
  toolCall    \* each call: the grant its turn passes on, and whether it has run

grantVars == <<grantRows, context, toolCall>>

Grant == 1..MaxGrants
Row == [chat : Chats, state : {"live", "revoked", "expired"}]
Issued == DOMAIN grantRows
NoEntry == [token |-> "none", grant |-> 0, ends |-> "later"]
Context == [token : {"none", "set", "expired"}, grant : 0..MaxGrants, ends : {"later", "past"}]
NoCall == [state |-> "none"]
ToolCall == [state : {"called", "acted", "refused"}, chat : Chats, grant : 0..MaxGrants]

Of(chat) == {g \in Issued : grantRows[g].chat = chat}
Newest(S) == CHOOSE g \in S : \A h \in S : h <= g

\* getPrivilegeGrantStatus and validatePrivilegeGrant look at the newest row.
StatusActive(chat) ==
  Of(chat) # {} /\ grantRows[Newest(Of(chat))].state = "live"

\* Variant for mutation: any row of the conversation will do.
ValidOnceIssued(g, chat) == g \in Of(chat)

Valid(g, chat) == StatusActive(chat) /\ g = Newest(Of(chat))

-----------------------------------------------------------------------------
(* AuthService and its routes                                              *)

\* Variant for mutation: the grants of a conversation before it stay live.
ActivateOnTop(chat) ==
  LET g == 1 + (IF Issued = {} THEN 0 ELSE Newest(Issued)) IN
  /\ g \in Grant
  /\ grantRows' = [h \in 1..g |-> IF h = g THEN [chat |-> chat, state |-> "live"]
                                  ELSE grantRows[h]]
  /\ UNCHANGED <<context, toolCall>>

\* POST privileged-access/activate, with the privilege token or a passkey:
\* createPrivilegeGrant revokes what the conversation has.
Activate(chat) ==
  LET g == 1 + (IF Issued = {} THEN 0 ELSE Newest(Issued)) IN
  /\ g \in Grant
  /\ grantRows' =
       [h \in 1..g |->
          IF h = g THEN [chat |-> chat, state |-> "live"]
          ELSE IF h \in Of(chat) /\ grantRows[h].state = "live"
            THEN [grantRows[h] EXCEPT !.state = "revoked"] ELSE grantRows[h]]
  /\ UNCHANGED <<context, toolCall>>

\* POST privileged-access/revoke
Revoke(chat) ==
  /\ StatusActive(chat)
  /\ grantRows' = [h \in Issued |->
       IF h \in Of(chat) /\ grantRows[h].state = "live"
         THEN [grantRows[h] EXCEPT !.state = "revoked"] ELSE grantRows[h]]
  /\ UNCHANGED <<context, toolCall>>

GrantExpires(g) ==
  /\ g \in Issued
  /\ grantRows[g].state = "live"
  /\ grantRows' = [grantRows EXCEPT ![g].state = "expired"]
  /\ context' = [chat \in Chats |->
       IF context[chat].grant = g THEN [context[chat] EXCEPT !.ends = "past"] ELSE context[chat]]
  /\ UNCHANGED toolCall

-----------------------------------------------------------------------------
(* GloveAgent                                                              *)

PersonalTokenExpires(chat) ==
  /\ context[chat].token = "set"
  /\ context' = [context EXCEPT ![chat].token = "expired"]
  /\ UNCHANGED <<grantRows, toolCall>>

\* The remembered grant's own time: that of the newest grant of the conversation
\* when the client sent it, if it was live, or ten minutes from then.
RememberedEnds(chat) ==
  /\ context[chat].grant # 0
  /\ context[chat].ends = "later"
  /\ grantRows[context[chat].grant].state # "live"
  /\ context' = [context EXCEPT ![chat].ends = "past"]
  /\ UNCHANGED <<grantRows, toolCall>>

Normalised(entry) == IF entry.token = "none" /\ entry.grant = 0 THEN NoEntry ELSE entry

\* A frame's fields: a value is set, null clears, an absent field changes nothing.
Updated(entry, token, grant) ==
  Normalised([token |-> IF token = "keep" THEN entry.token ELSE token,
        grant |-> IF grant = "keep" THEN entry.grant
                  ELSE IF grant = "clear" THEN 0 ELSE grant[1],
        ends  |-> IF grant = "keep" THEN entry.ends ELSE "later"])

\* Variant for mutation: what AuthService says is not asked for.
ResolvedByTime(entry, chat) ==
  Normalised([entry EXCEPT !.token = IF @ = "expired" THEN "none" ELSE @,
                     !.grant = IF entry.ends = "past" THEN 0 ELSE @])

\* resolveConversationTokens: what has expired, and a grant of a conversation
\* without a live one, is dropped.
Resolved(entry, chat) ==
  Normalised([entry EXCEPT !.token = IF @ = "expired" THEN "none" ELSE @,
                     !.grant = IF entry.ends = "past" \/ ~StatusActive(chat) THEN 0 ELSE @])

\* A "context" frame, or a message, whose turn calls privileged tool t.
Frame(chat, token, grant, t) ==
  /\ context' = [context EXCEPT ![chat] = Resolved(Updated(@, token, grant), chat)]
  /\ toolCall' = IF t \in Calls
                   THEN [toolCall EXCEPT ![t] = [state |-> "called", chat |-> chat,
                                                 grant |-> context'[chat].grant]]
                   ELSE toolCall
  /\ UNCHANGED grantRows

MessageArrives(chat) ==
  \E token \in {"keep", "none", "set"}, t \in Calls \cup {"contextOnly"} :
    /\ t \in Calls => toolCall[t] = NoCall
    /\ \/ \E grant \in {"keep", "clear"} : Frame(chat, token, grant, t)
       \/ \E g \in Of(chat) : Frame(chat, token, <<g>>, t)

-----------------------------------------------------------------------------
(* The tool                                                                *)

\* validatePrivilegeGrant asks the gateway, and the tool acts or refuses.
ToolRuns(t) ==
  /\ toolCall[t].state = "called"
  /\ toolCall' = [toolCall EXCEPT ![t].state =
       IF toolCall[t].grant # 0 /\ Valid(toolCall[t].grant, toolCall[t].chat)
         THEN "acted" ELSE "refused"]
  /\ UNCHANGED <<grantRows, context>>

GrantsInit ==
  /\ grantRows = <<>>
  /\ context = [chat \in Chats |-> NoEntry]
  /\ toolCall = [t \in Calls |-> NoCall]

GrantsNext ==
  \/ \E chat \in Chats :
       Activate(chat) \/ Revoke(chat) \/ PersonalTokenExpires(chat)
         \/ RememberedEnds(chat) \/ MessageArrives(chat)
  \/ \E g \in Grant : GrantExpires(g)
  \/ \E t \in Calls : ToolRuns(t)

GrantsSpec == GrantsInit /\ [][GrantsNext]_grantVars

-----------------------------------------------------------------------------
(* Properties                                                              *)

GrantsTypeOK ==
  /\ \E n \in 0..MaxGrants : grantRows \in [1..n -> Row]
  /\ context \in [Chats -> Context]
  /\ toolCall \in [Calls -> {NoCall} \cup ToolCall]

\* A conversation has one live grant at most, the newest: the rows that are not
\* looked at are dead.
OneLiveGrant ==
  \A g \in Issued : grantRows[g].state = "live" => g = Newest(Of(grantRows[g].chat))

\* A tool acts only on a grant of its conversation that is live at that time,
\* however long ago the turn was dispatched with it.
ActsOnLiveGrant ==
  [][\A t \in Calls : toolCall[t].state = "called" /\ toolCall'[t].state = "acted" =>
       /\ toolCall[t].grant \in Of(toolCall[t].chat)
       /\ grantRows[toolCall[t].grant].state = "live"]_grantVars

\* Once a conversation has no live grant, the next message no longer passes one
\* on, nor does a later one until a client sends a grant again.
DeadGrantsAreForgotten ==
  [][\A t \in Calls :
       toolCall[t].state = "none" /\ toolCall'[t].state = "called" /\ toolCall'[t].grant # 0
         => StatusActive(toolCall'[t].chat)]_grantVars

\* A grant, from the row that holds it over the message that passes it on to the
\* tool that acts on it.
GrantsPromise ==
  /\ [][GrantsTypeOK' /\ OneLiveGrant']_grantVars
  /\ ActsOnLiveGrant /\ DeadGrantsAreForgotten
=============================================================================
