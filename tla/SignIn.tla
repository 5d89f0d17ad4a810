------------------------------- MODULE SignIn --------------------------------
(***************************************************************************)
(* Signing in to the web interface (useAuth, AuthGate) and the privileged  *)
(* access of its page (App), against the routes of the gateway.  Requests  *)
(* are answered in any order, may be lost, and are refused when their      *)
(* session has ended; the page's fetch then forgets the session it stored  *)
(* (authSession).  The users, sessions and grants of the gateway are those *)
(* of Accounts and Grants, as far as an answer shows them; the requests of *)
(* a passkey's ceremony and the browser's dialog between them are one.     *)
(*                                                                         *)
(* A session and a grant have the number of the request that was given     *)
(* them.  The gate's view is aligned with the page's state in the same     *)
(* step: effects run before the next event.                                *)
(***************************************************************************)
EXTENDS Naturals

CONSTANTS
  Chats,     \* the conversations the page turns to
  Slots,     \* bound: requests under way at a time
  MaxAsked   \* bound: requests of the user, reloads, turns and resets

ASSUME SignInAssumption == Chats # {}

VARIABLES
  page,      \* AuthState; authenticated is token # 0; signedUp is history: the
             \* session given to who signed up without a password
  stored,    \* the token in sessionStorage, or 0
  view,      \* AuthGate's view, or "none" when the page is let in
  chat,      \* conversationId
  grant,     \* privilegedGrantId, or 0
  requests,  \* what each slot has under way
  asked,
  password,  \* the gateway: "none" without a user, else "set" or "disabled"
  passkey, privilege, \* whether it has a passkey and a privilege token
  sessions,  \* the live sessions
  grants     \* the live grant of each conversation, or 0

gatewayVars == <<password, passkey, privilege, sessions, grants>>
signInVars == <<page, stored, view, chat, grant, requests, asked, gatewayVars>>

NoRequest == [kind |-> "none"]
Request(kind, n) ==
  [kind |-> kind, n |-> n, by |-> stored, chat |-> chat, stage |-> 1, answer |-> "awaited",
   gives |-> 0, setup |-> FALSE, passkey |-> FALSE, privilege |-> FALSE]
Awaited(s) == requests[s] # NoRequest /\ requests[s].answer = "awaited"
AnsweredWith(s, answer) == requests[s] # NoRequest /\ requests[s].answer = answer

-----------------------------------------------------------------------------
(* The page                                                                *)

Gated(p) == p.loading \/ p.token = 0 \/ p.promptPasskey \/ p.promptPrivilege

\* AuthGate's first view, and the effect that keeps it aligned.
Aligned(p, v) ==
  IF ~Gated(p) THEN "none"
  ELSE IF p.promptPasskey THEN "passkey"
  ELSE IF p.promptPrivilege THEN "privilege"
  ELSE IF p.setupRequired THEN "setup"
  ELSE IF v \in {"none", "setup"} THEN "login" ELSE v

\* The poll's effect ends with the token or conversation it was begun for.
Quiet(rs) == [s \in Slots |-> IF rs[s].kind = "poll" THEN [rs[s] EXCEPT !.kind = "unheard"] ELSE rs[s]]

\* The page goes on as p, with token t stored and the requests rs.
Become(p, t, rs) ==
  /\ page' = p /\ stored' = t
  /\ view' = Aligned(p, view)
  /\ requests' = IF p.token # page.token THEN Quiet(rs) ELSE rs

Fresh(t) ==
  [loading |-> TRUE, setupRequired |-> FALSE, token |-> t, hasPasskey |-> FALSE, hasPrivilege |-> FALSE,
   promptPasskey |-> FALSE, promptPrivilege |-> FALSE, mustRegister |-> FALSE,
   signedUp |-> 0]
FirstRequests == [s \in Slots |-> IF s = 1 THEN Request("status", 0) ELSE NoRequest]

\* The page is loaded again, with what the session's storage keeps.
Reload ==
  /\ asked < MaxAsked /\ asked' = asked + 1
  /\ page' = Fresh(stored) /\ view' = "login"
  /\ requests' = FirstRequests
  /\ grant' = 0
  /\ UNCHANGED <<stored, chat, gatewayVars>>

\* The views with their buttons, which loading disables, and those of the page.
Offered(kind) ==
  CASE kind = "login" -> view = "login"
    [] kind = "passkey" -> view = "login" /\ page.hasPasskey
    [] kind \in {"setup", "setup-passkey"} -> view = "setup"
    [] kind = "register" -> view = "passkey" /\ stored # 0
    [] kind = "set-token" -> view \in {"privilege", "none"} /\ stored # 0
    [] kind = "token" -> view = "none" /\ stored # 0
    [] kind \in {"personal", "elevate"} -> view = "none" /\ page.hasPasskey
    [] kind = "revoke" -> view = "none" /\ stored # 0 /\ grant # 0

Loads(kind) == kind \in {"login", "passkey", "setup", "setup-passkey", "register"}

Ask(s, kind) ==
  /\ asked < MaxAsked /\ asked' = asked + 1
  /\ Offered(kind) /\ ~page.loading
  /\ requests[s] = NoRequest
  /\ Become([page EXCEPT !.loading = Loads(kind)], stored,
            [requests EXCEPT ![s] = Request(kind, asked + 1)])
  /\ UNCHANGED <<chat, grant, gatewayVars>>

\* Variant for mutation: skipping is offered to everybody.
DismissAny ==
  /\ ~page.loading
  /\ \/ view = "passkey" /\ Become([page EXCEPT !.promptPasskey = FALSE], stored, requests)
     \/ view = "privilege" /\ Become([page EXCEPT !.promptPrivilege = FALSE], stored, requests)
  /\ UNCHANGED <<chat, grant, asked, gatewayVars>>

\* dismissPasskeySetupPrompt and dismissPrivilegeTokenSetupPrompt.
Dismiss ==
  /\ ~page.loading
  /\ \/ view = "passkey" /\ ~page.mustRegister /\ Become([page EXCEPT !.promptPasskey = FALSE], stored, requests)
     \/ view = "privilege" /\ Become([page EXCEPT !.promptPrivilege = FALSE], stored, requests)
  /\ UNCHANGED <<chat, grant, asked, gatewayVars>>

\* setConversationId: the grant stays, and the status of the other is asked for.
TurnToChat(c) ==
  /\ asked < MaxAsked /\ asked' = asked + 1
  /\ c # chat
  /\ chat' = c
  /\ requests' = Quiet(requests)
  /\ UNCHANGED <<page, stored, view, grant, gatewayVars>>

\* refreshPrivilegedStatus, now and every 30 s.
Poll(s) ==
  /\ page.token # 0 /\ stored # 0
  /\ requests[s] = NoRequest
  /\ \A t \in Slots : requests[t].kind # "poll"
  /\ requests' = [requests EXCEPT ![s] = Request("poll", 0)]
  /\ UNCHANGED <<page, stored, view, chat, grant, asked, gatewayVars>>

\* The timer of privilegedExpiresAt.
GrantTimer ==
  /\ grant # 0 /\ \A c \in Chats : grants[c] # grant
  /\ grant' = 0
  /\ UNCHANGED <<page, stored, view, chat, requests, asked, gatewayVars>>

-----------------------------------------------------------------------------
(* The gateway                                                             *)

Give(s, answer, gives) == requests' = [requests EXCEPT ![s] = [@ EXCEPT !.answer = answer, !.gives = gives]]

ServeStatus(s) ==
  /\ requests[s].kind = "status"
  /\ requests' = [requests EXCEPT ![s] = [@ EXCEPT !.answer = "ok", !.setup = (password = "none"),
                                                   !.passkey = passkey, !.privilege = privilege]]
  /\ UNCHANGED gatewayVars

\* What a wrong password is told, too, is 401; that there is no user, with a reason.
ServeLogin(s) ==
  /\ requests[s].kind = "login"
  /\ \/ /\ password = "set"
        /\ Give(s, "ok", requests[s].n)
        /\ sessions' = sessions \cup {requests[s].n}
     \/ /\ requests' = [requests EXCEPT ![s] = [@ EXCEPT !.answer = "refused", !.setup = (password = "none")]]
        /\ UNCHANGED sessions
  /\ UNCHANGED <<password, passkey, privilege, grants>>

ServeSetup(s) ==
  /\ requests[s].kind \in {"setup", "setup-passkey"}
  /\ password = "none"
  /\ Give(s, "ok", requests[s].n)
  /\ password' = IF requests[s].kind = "setup" THEN "set" ELSE "disabled"
  /\ sessions' = sessions \cup {requests[s].n}
  /\ UNCHANGED <<passkey, privilege, grants>>

\* A ceremony with a passkey, which needs no session.
ServePasskey(s) ==
  /\ requests[s].kind \in {"passkey", "personal", "elevate"} /\ requests[s].stage = 1
  /\ \/ passkey /\ Give(s, "ok", requests[s].n) /\ sessions' = sessions \cup {requests[s].n}
     \/ Give(s, "refused", 0) /\ UNCHANGED sessions
  /\ UNCHANGED <<password, passkey, privilege, grants>>

ServeRegister(s) ==
  LET q == requests[s] IN
  /\ q.kind = "register"
  /\ IF q.by \in sessions THEN Give(s, "ok", 0) /\ passkey' = TRUE
     ELSE Give(s, "refused", 0) /\ UNCHANGED passkey
  /\ UNCHANGED <<password, privilege, sessions, grants>>

\* requireAuthUser.
ServeSignedIn(s) ==
  LET q == requests[s] IN
  /\ q.kind \in {"set-token", "token", "revoke", "poll", "unheard"} \/ q.stage = 2
  /\ UNCHANGED <<password, passkey, sessions>>
  /\ \/ q.by \notin sessions /\ Give(s, "refused", 0) /\ UNCHANGED <<privilege, grants>>
     \/ /\ q.by \in sessions
        /\ \/ \* a wrong token is refused as an ended session is
              /\ q.kind \in {"set-token", "token"} /\ privilege /\ Give(s, "refused", 0)
              /\ UNCHANGED <<privilege, grants>>
           \/ /\ q.kind = "set-token" /\ Give(s, "ok", 0)
              /\ privilege' = TRUE
              /\ UNCHANGED grants
           \/ /\ (q.kind = "token" /\ privilege) \/ (q.kind = "elevate" /\ q.n \in sessions)
              /\ Give(s, "ok", q.n)
              /\ grants' = [grants EXCEPT ![q.chat] = q.n]
              /\ UNCHANGED privilege
           \/ /\ q.kind = "revoke" /\ Give(s, "ok", 0)
              /\ grants' = [grants EXCEPT ![q.chat] = 0]
              /\ UNCHANGED privilege
           \/ /\ q.kind \in {"poll", "unheard"} /\ Give(s, "ok", grants[q.chat])
              /\ UNCHANGED <<privilege, grants>>

Serve(s) ==
  /\ Awaited(s)
  /\ ServeStatus(s) \/ ServeLogin(s) \/ ServeSetup(s) \/ ServePasskey(s) \/ ServeRegister(s)
     \/ ServeSignedIn(s)
  /\ UNCHANGED <<page, stored, view, chat, grant, asked>>

\* The request fails, before it is served or after.
Fails(s) ==
  /\ Awaited(s) \/ (AnsweredWith(s, "ok") /\ requests[s].n # 0)
  /\ Give(s, "failed", 0)
  /\ UNCHANGED <<page, stored, view, chat, grant, asked, gatewayVars>>

SessionsEnd ==
  /\ sessions # {} /\ sessions' = {}
  /\ UNCHANGED <<page, stored, view, chat, grant, requests, asked, password, passkey, privilege, grants>>

GrantEnds(c) ==
  /\ grants[c] # 0 /\ grants' = [grants EXCEPT ![c] = 0]
  /\ UNCHANGED <<page, stored, view, chat, grant, requests, asked, password, passkey, privilege, sessions>>

\* resetAuth, by an operator.
ResetElsewhere ==
  /\ asked < MaxAsked /\ asked' = asked + 1
  /\ password # "none"
  /\ password' = "none" /\ passkey' = FALSE /\ privilege' = FALSE /\ sessions' = {}
  /\ grants' = [c \in Chats |-> 0]
  /\ UNCHANGED <<page, stored, view, chat, grant, requests>>

-----------------------------------------------------------------------------
(* Answers                                                                 *)

\* Variant for mutation: the page is not told that its session is forgotten.
InformedOfNothing(q, p) == p

\* handleUnauthorized, when the fetch of a refused request has forgotten a session.
Informed(q, p) ==
  IF q.answer # "refused" \/ stored = 0 THEN p
  ELSE [p EXCEPT !.loading = FALSE, !.token = 0, !.promptPasskey = FALSE,
                 !.promptPrivilege = FALSE, !.mustRegister = FALSE]
Kept(q) == IF q.answer = "refused" THEN 0 ELSE stored

Freed(s) == [requests EXCEPT ![s] = NoRequest]

\* A session is stored and shown.
SignedIn(p, t) ==
  [p EXCEPT !.token = t, !.setupRequired = FALSE, !.promptPasskey = FALSE, !.promptPrivilege = FALSE]

StatusAnswered(s, q) ==
  /\ q.kind = "status"
  /\ IF q.answer # "ok" THEN Become([page EXCEPT !.loading = FALSE], stored, Freed(s))
     ELSE Become([page EXCEPT !.loading = FALSE, !.setupRequired = q.setup,
                              !.token = IF q.setup THEN 0 ELSE stored,
                              !.hasPasskey = q.passkey, !.hasPrivilege = q.privilege,
                              !.promptPasskey = @ /\ ~q.setup /\ ~q.passkey,
                              !.promptPrivilege = @ /\ ~q.setup /\ ~q.privilege,
                              !.mustRegister = @ /\ ~q.passkey],
                 IF q.setup THEN 0 ELSE stored, Freed(s))
  /\ UNCHANGED grant

\* Who is told that there is no user asks for the status again.
LoginAnswered(s, q) ==
  /\ q.kind = "login"
  /\ IF q.answer = "ok" THEN Become([SignedIn(page, q.n) EXCEPT !.loading = FALSE], q.n, Freed(s))
     ELSE Become([Informed(q, page) EXCEPT !.loading = q.setup, !.token = 0], Kept(q),
                 IF q.setup THEN [requests EXCEPT ![s] = Request("status", 0)] ELSE Freed(s))
  /\ UNCHANGED grant

PasskeyAnswered(s, q) ==
  /\ q.kind = "passkey"
  /\ IF q.answer = "ok" THEN Become([SignedIn(page, q.n) EXCEPT !.loading = FALSE], q.n, Freed(s))
     ELSE Become([Informed(q, page) EXCEPT !.loading = FALSE, !.token = 0], Kept(q), Freed(s))
  /\ UNCHANGED grant

\* submitSetup: after it a passkey is registered, or that prompt is skipped.
SetupAnswered(s, q) ==
  /\ q.kind \in {"setup", "setup-passkey"}
  /\ LET withPasskey == q.kind = "setup-passkey" IN
     IF q.answer = "ok"
       THEN Become([page EXCEPT !.loading = withPasskey, !.setupRequired = FALSE, !.token = q.n,
                                !.promptPasskey = withPasskey, !.promptPrivilege = TRUE,
                                !.mustRegister = withPasskey,
                                !.signedUp = IF withPasskey THEN q.n ELSE 0],
                   q.n, IF withPasskey THEN [requests EXCEPT ![s] = [Request("register", q.n) EXCEPT !.by = q.n]]
                        ELSE Freed(s))
       ELSE Become([page EXCEPT !.loading = FALSE, !.token = 0], stored, Freed(s))
  /\ UNCHANGED grant

\* The ceremony of elevate leads to its second request.
CeremonyGoesOn(s, q) ==
  /\ q.kind = "elevate" /\ q.stage = 1 /\ q.answer = "ok"
  /\ requests' = [requests EXCEPT ![s] = [@ EXCEPT !.stage = 2, !.answer = "awaited", !.gives = 0,
                                                   !.by = IF q.by = 0 THEN q.n ELSE q.by]]
  /\ UNCHANGED <<page, stored, view, grant>>

RegisterAnswered(s, q) ==
  /\ q.kind = "register"
  /\ Become(IF q.answer = "ok"
              THEN [page EXCEPT !.loading = FALSE, !.hasPasskey = TRUE, !.promptPasskey = FALSE,
                                !.promptPrivilege = ~page.hasPrivilege, !.mustRegister = FALSE]
              ELSE [Informed(q, page) EXCEPT !.loading = FALSE],
            Kept(q), Freed(s))
  /\ UNCHANGED grant

PersonalAnswered(s, q) ==
  /\ q.kind = "personal"
  /\ IF q.answer = "ok" THEN Become(SignedIn(page, q.n), q.n, Freed(s))
     ELSE Become(Informed(q, page), Kept(q), Freed(s))
  /\ UNCHANGED grant

\* activatePrivilegedAccess, for the conversation it was asked for.
ActivationAnswered(s, q) ==
  /\ q.kind = "token" \/ (q.kind = "elevate" /\ (q.stage = 2 \/ q.answer # "ok"))
  /\ IF q.answer # "ok" THEN Become(Informed(q, page), Kept(q), Freed(s)) /\ UNCHANGED grant
     ELSE /\ grant' = q.n
          /\ IF q.kind = "token" THEN Become(page, stored, Freed(s))
             ELSE Become(SignedIn(page, q.n), q.n, Freed(s))

\* registerPrivilegeToken, and the gate's return to the login.
TokenRegistered(s, q) ==
  /\ q.kind = "set-token"
  /\ LET p == IF q.answer = "ok" THEN [page EXCEPT !.hasPrivilege = TRUE, !.promptPrivilege = FALSE]
              ELSE Informed(q, page) IN
     /\ page' = p /\ stored' = Kept(q)
     /\ requests' = IF p.token # page.token THEN Quiet(Freed(s)) ELSE Freed(s)
     /\ view' = Aligned(p, IF q.answer = "ok" /\ view = "privilege" THEN "login" ELSE view)
  /\ UNCHANGED grant

\* disablePrivilegedAccess clears the grant whatever the answer.
RevokeAnswered(s, q) ==
  /\ q.kind = "revoke"
  /\ Become(Informed(q, page), Kept(q), Freed(s))
  /\ grant' = 0

\* Variant for mutation: that there is no grant any more is no news.
PollOnlySets(s, q) ==
  /\ q.kind \in {"poll", "unheard"}
  /\ Become(Informed(q, page), Kept(q), Freed(s))
  /\ grant' = IF q.kind = "poll" /\ q.answer = "ok" /\ q.gives # 0 THEN q.gives ELSE grant

PollAnswered(s, q) ==
  /\ q.kind \in {"poll", "unheard"}
  /\ Become(Informed(q, page), Kept(q), Freed(s))
  /\ grant' = IF q.kind = "poll" /\ q.answer = "ok" THEN q.gives ELSE grant

Continue(s) ==
  LET q == requests[s] IN
  /\ q # NoRequest /\ q.answer # "awaited"
  /\ \/ StatusAnswered(s, q) \/ LoginAnswered(s, q) \/ PasskeyAnswered(s, q) \/ SetupAnswered(s, q)
     \/ CeremonyGoesOn(s, q) \/ RegisterAnswered(s, q) \/ PersonalAnswered(s, q) \/ ActivationAnswered(s, q)
     \/ TokenRegistered(s, q) \/ RevokeAnswered(s, q) \/ PollAnswered(s, q)
  /\ UNCHANGED <<chat, asked, gatewayVars>>

SignInInit ==
  /\ page = Fresh(0) /\ stored = 0 /\ view = "login"
  /\ chat = (CHOOSE c \in Chats : TRUE) /\ grant = 0 /\ requests = FirstRequests /\ asked = 0
  /\ password \in {"none", "set"} /\ passkey \in {p \in BOOLEAN : p => password = "set"}
  /\ privilege \in {p \in BOOLEAN : p => password = "set"}
  /\ sessions = {} /\ grants = [c \in Chats |-> 0]

UserKinds == {"login", "passkey", "setup", "setup-passkey", "register", "set-token", "token", "personal",
          "elevate", "revoke"}

SignInNext ==
  \/ Reload \/ Dismiss \/ GrantTimer \/ SessionsEnd \/ ResetElsewhere
  \/ \E s \in Slots :
       \/ \E kind \in UserKinds : Ask(s, kind)
       \/ Poll(s) \/ Serve(s) \/ Fails(s) \/ Continue(s)
  \/ \E c \in Chats : TurnToChat(c) \/ GrantEnds(c)

SignInSpec == SignInInit /\ [][SignInNext]_signInVars

\* Timers fire, answers are heard, and not every request of a kind is lost.
SignInFair ==
  /\ WF_signInVars(GrantTimer)
  /\ WF_signInVars(\E s \in Slots : Poll(s))
  /\ \A s \in Slots : SF_signInVars(Serve(s)) /\ WF_signInVars(Continue(s))

-----------------------------------------------------------------------------
(* Properties                                                              *)

\* The session the page shows is the stored one, which every request is made with,
\* whatever flows overlap.
ShownIsStored == page.token # 0 => page.token = stored

\* Who signed up without a password is not let in with the session of that sign-up
\* before a passkey is registered, as long as the page is not loaded again.
PasskeyIsMandatory == page.mustRegister /\ page.token = page.signedUp => page.promptPasskey

\* A session that has ended is found out.
EndedIsNoticed == []<>(page.token = 0 \/ page.token \in sessions)

\* The grant shown becomes that of the conversation the page stays in.
GrantSettles == <>[](page.token \in sessions) => <>[](grant = grants[chat])

\* The page against the gateway, however its requests overlap or fail.
SignInCorrect == ShownIsStored /\ PasskeyIsMandatory
SignInPromise == [][SignInCorrect']_signInVars /\ EndedIsNoticed /\ GrantSettles
=============================================================================
