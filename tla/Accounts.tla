------------------------------ MODULE Accounts ------------------------------
(***************************************************************************)
(* AuthService's one user: setup with a bootstrap token, login, sessions,  *)
(* passkeys and the WebAuthn ceremonies that register and use them, as the *)
(* routes of AdminApi call it, and the operator's commands that renew the  *)
(* bootstrap token or wipe everything from a process of their own.         *)
(*                                                                         *)
(* The database statements of a request run without an await between       *)
(* them, except that a ceremony's answer is verified asynchronously: what  *)
(* was read before is used after.  A ceremony is named by its challenge.   *)
(* Time is the event that something expires; the counters that             *)
(* authenticators sign are left out.                                       *)
(***************************************************************************)
EXTENDS Naturals

CONSTANTS
  MaxUsers,    \* bound: how often setup may be completed
  Passkeys,    \* the credentials an authenticator may hold
  Challenges   \* the challenges that may be issued

ASSUME AccountsAssumption == MaxUsers \in Nat

VARIABLES
  user,        \* auth_users: the user's number, or 0
  users,       \* how many users there have been
  password,    \* whether the user has a password, or a disabled marker
  setupToken,  \* the newest setup token: "none", "fresh" or "used"
  sessions,    \* auth_sessions: the users of the live session rows
  passkeys,    \* auth_passkeys: the user of each credential, or 0
  challenges,  \* auth_passkey_challenges: purpose and user (if any) of each
  answers,     \* answers whose verification is awaited
  spent        \* history: challenges some completed ceremony answered

accountVars == <<user, users, password, setupToken, sessions, passkeys, challenges,
                 answers, spent>>

Purposes == {"register", "authenticate"}
NoChallenge == [purpose |-> "none", user |-> 0]
Answer == [to : Challenges, purpose : Purposes, key : Passkeys, by : 1..MaxUsers]

-----------------------------------------------------------------------------
(* Setup, login, sessions                                                  *)

\* ensureBootstrapToken, when the gateway starts.
EnsureBootstrapToken ==
  /\ user = 0
  /\ setupToken # "fresh"
  /\ setupToken' = "fresh"
  /\ UNCHANGED <<user, users, password, sessions, passkeys, challenges, answers, spent>>

\* regenerateBootstrapToken, by an operator's command: older tokens are used up.
Regenerate ==
  /\ user = 0
  /\ setupToken' = "fresh"
  /\ UNCHANGED <<user, users, password, sessions, passkeys, challenges, answers, spent>>

TokenExpires ==
  /\ setupToken = "fresh"
  /\ setupToken' = "none"
  /\ UNCHANGED <<user, users, password, sessions, passkeys, challenges, answers, spent>>

\* Variant for mutation: a second setup replaces the user.
SetupAgain(withPassword) ==
  /\ setupToken \in {"fresh", "used"}
  /\ users < MaxUsers
  /\ user' = users + 1
  /\ users' = users + 1
  /\ password' = withPassword
  /\ setupToken' = "used"
  /\ sessions' = sessions \cup {users + 1}
  /\ UNCHANGED <<passkeys, challenges, answers, spent>>

\* POST /api/auth/setup: completeSetup, and a first session.
Setup(withPassword) ==
  /\ user = 0
  /\ setupToken = "fresh"
  /\ users < MaxUsers
  /\ user' = users + 1
  /\ users' = users + 1
  /\ password' = withPassword
  /\ setupToken' = "used"
  /\ sessions' = sessions \cup {users + 1}
  /\ UNCHANGED <<passkeys, challenges, answers, spent>>

\* login, which a passkey-only user has no password for.
Login ==
  /\ user # 0
  /\ password
  /\ sessions' = sessions \cup {user}
  /\ UNCHANGED <<user, users, password, setupToken, passkeys, challenges, answers, spent>>

\* revokeSession, or the session's time is over.
SessionEnds ==
  /\ sessions # {}
  /\ sessions' = {}
  /\ UNCHANGED <<user, users, password, setupToken, passkeys, challenges, answers, spent>>

\* Variant for mutation: sessions and passkeys are not tied to the user's row.
ResetUserOnly ==
  /\ user' = 0
  /\ password' = FALSE
  /\ setupToken' = "fresh"
  /\ challenges' = [c \in Challenges |-> NoChallenge]
  /\ UNCHANGED <<users, sessions, passkeys, answers, spent>>

\* resetAuth, by an operator's command, possibly while an answer is verified:
\* the rows that refer to the user go with it, and a new token is generated.
ResetAuth ==
  /\ user' = 0
  /\ password' = FALSE
  /\ setupToken' = "fresh"
  /\ sessions' = {}
  /\ passkeys' = [k \in Passkeys |-> 0]
  /\ challenges' = [c \in Challenges |-> NoChallenge]
  /\ UNCHANGED <<users, answers, spent>>

-----------------------------------------------------------------------------
(* Passkeys                                                                *)

\* beginPasskeyRegistration needs a session, beginPasskeyAuthentication does not.
Begin(c, purpose) ==
  /\ challenges[c] = NoChallenge
  /\ c \notin spent
  /\ \A a \in answers : a.to # c
  /\ purpose = "register" => user \in sessions
  /\ challenges' = [challenges EXCEPT ![c] =
       [purpose |-> purpose, user |-> IF purpose = "register" THEN user ELSE 0]]
  /\ UNCHANGED <<user, users, password, setupToken, sessions, passkeys, answers, spent>>

ChallengeExpires(c) ==
  /\ challenges[c] # NoChallenge
  /\ challenges' = [challenges EXCEPT ![c] = NoChallenge]
  /\ UNCHANGED <<user, users, password, setupToken, sessions, passkeys, answers, spent>>

\* complete...: an answer arrives; its challenge, and for a login its passkey,
\* are read, and the verification of the signature with them is awaited.
AnswerArrives(c, k) ==
  LET purpose == challenges[c].purpose IN
  /\ challenges[c] # NoChallenge
  /\ purpose = "register" => challenges[c].user \in sessions
  /\ purpose = "authenticate" => passkeys[k] # 0
  /\ answers' = answers \cup
       {[to |-> c, purpose |-> purpose, key |-> k,
         by |-> IF purpose = "register" THEN challenges[c].user ELSE passkeys[k]]}
  /\ UNCHANGED <<user, users, password, setupToken, sessions, passkeys, challenges, spent>>

\* Variant for mutation: the challenge of a ceremony that succeeded is kept.
SpendNothing(a) == UNCHANGED challenges /\ spent' = spent \cup {a.to}

\* The ceremony that succeeds ends all of its kind, other tabs' included.
Spend(a) ==
  /\ challenges' = [c \in Challenges |->
       IF challenges[c].purpose = a.purpose
            /\ (a.purpose = "register" => challenges[c].user = a.by)
         THEN NoChallenge ELSE challenges[c]]
  /\ spent' = spent \cup {a.to}

\* The signature is good.  Rows of a user who is gone are refused by the foreign
\* key; an UPDATE of a passkey that is gone changes nothing.
Verified(a) ==
  /\ a \in answers
  /\ answers' = answers \ {a}
  /\ IF a.purpose = "register"
       THEN IF a.by = user
              THEN /\ passkeys' = [passkeys EXCEPT ![a.key] = a.by]
                   /\ Spend(a)
                   /\ UNCHANGED sessions
              ELSE UNCHANGED <<passkeys, challenges, spent, sessions>>
       ELSE /\ Spend(a)
            /\ sessions' = IF a.by = user THEN sessions \cup {a.by} ELSE sessions
            /\ UNCHANGED passkeys
  /\ UNCHANGED <<user, users, password, setupToken>>

Rejected(a) ==
  /\ a \in answers
  /\ answers' = answers \ {a}
  /\ UNCHANGED <<user, users, password, setupToken, sessions, passkeys, challenges, spent>>

-----------------------------------------------------------------------------
AccountsInit ==
  /\ user = 0
  /\ users = 0
  /\ password = FALSE
  /\ setupToken = "none"
  /\ sessions = {}
  /\ passkeys = [k \in Passkeys |-> 0]
  /\ challenges = [c \in Challenges |-> NoChallenge]
  /\ answers = {}
  /\ spent = {}

AccountsNext ==
  \/ EnsureBootstrapToken \/ Regenerate \/ TokenExpires
  \/ \E p \in BOOLEAN : Setup(p)
  \/ Login \/ SessionEnds \/ ResetAuth
  \/ \E c \in Challenges :
       \/ \E p \in Purposes : Begin(c, p)
       \/ ChallengeExpires(c)
       \/ \E k \in Passkeys : AnswerArrives(c, k)
  \/ \E a \in answers : Verified(a) \/ Rejected(a)

-----------------------------------------------------------------------------
(* Properties                                                              *)

AccountsTypeOK ==
  /\ user \in 0..users /\ users \in 0..MaxUsers
  /\ password \in BOOLEAN
  /\ setupToken \in {"none", "fresh", "used"}
  /\ sessions \subseteq 0..users
  /\ passkeys \in [Passkeys -> 0..users]
  /\ challenges \in [Challenges -> [purpose : Purposes \cup {"none"}, user : 0..users]]
  /\ \A c \in Challenges : challenges[c].purpose # "register" => challenges[c].user = 0
  /\ answers \subseteq Answer
  /\ spent \subseteq Challenges

\* Whatever a ceremony read before it was verified: no session, passkey or
\* challenge belongs to a user who is gone.
NothingOutlivesItsUser ==
  /\ sessions \subseteq {user} \ {0}
  /\ \A k \in Passkeys : passkeys[k] \in {0, user}
  /\ \A c \in Challenges : challenges[c].user \in {0, user}

\* A challenge that one ceremony has used is not there for another one, and an
\* answer that is being verified is of the challenge it was read with.
SpentIsGone ==
  /\ \A c \in spent : challenges[c] = NoChallenge
  /\ \A a \in answers :
       \/ challenges[a.to] = NoChallenge
       \/ challenges[a.to] = [purpose |-> a.purpose,
                              user |-> IF a.purpose = "register" THEN a.by ELSE 0]

\* A user exists only since a bootstrap token was used, and then no token works.
SetupIsOnce == user # 0 => setupToken = "used"

AccountsSafe == NothingOutlivesItsUser /\ SpentIsGone /\ SetupIsOnce

\* Users and what belongs to them, whatever ceremonies are underway.
AccountsCorrect == AccountsTypeOK /\ AccountsSafe

AccountsSpec == AccountsInit /\ [][AccountsNext]_accountVars
=============================================================================
