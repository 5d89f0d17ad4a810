--------------------------- MODULE BrowseSessions ---------------------------
(***************************************************************************)
(* SessionManager of tool-browse-session, and the tools over it: sessions  *)
(* of one browser that is launched when it is needed, closed by a tool or  *)
(* by a timer that every use sets anew.  Launching, navigating and working *)
(* with a page are awaited, and calls overlap.                             *)
(*                                                                         *)
(* A session is named by its context, contexts and browsers by the order   *)
(* in which they were made.  The browser is external: it launches, answers *)
(* or fails, and may die.                                                  *)
(***************************************************************************)
EXTENDS Naturals, Sequences

CONSTANTS
  BrowseCalls,  \* the calls that may be underway
  MaxBrowsers,  \* bound: browsers launched
  MaxContexts,  \* bound: contexts made
  MaxUses       \* bound: uses of a session

VARIABLES
  browser,    \* the browser the manager refers to, or 0
  connected,  \* the browsers that run
  launches,   \* how many have been launched
  contexts,   \* the browser of each context made
  open,       \* the contexts that are open
  sessions,   \* the sessions, the oldest first
  latest,     \* latestSessionId, or 0
  timers,     \* the timers that are set: session, and its use that set the timer
  uses,       \* how often each session has been used
  browsing,   \* what each call is doing
  closing,    \* closeAll: "no", "closing" or "closed"
  doubled,    \* history: browsers launched while another was
  stranded    \* history: contexts whose page could not be loaded

browseVars == <<browser, connected, launches, contexts, open, sessions, latest, timers, uses,
                browsing, closing, doubled, stranded>>

NoBrowsing == [phase |-> "none", tool |-> "open", context |-> 0]
IsSession(s) == \E i \in 1..Len(sessions) : sessions[i] = s
\* A map keeps its order.
Without(seq, s) ==
  LET i == CHOOSE i \in 1..Len(seq) : seq[i] = s
  IN [j \in 1..(Len(seq) - 1) |-> IF j < i THEN seq[j] ELSE seq[j + 1]]
Timed(s) == [session |-> s, use |-> uses[s]]
browserVars == <<browser, connected, launches, doubled>>
sessionVars == <<sessions, latest, timers, uses>>

-----------------------------------------------------------------------------
(* ensureBrowser and open                                                  *)

NewContext(c, tool, b) ==
  /\ Len(contexts) < MaxContexts
  /\ contexts' = Append(contexts, b)
  /\ open' = open \cup {Len(contexts) + 1}
  /\ uses' = Append(uses, 0)
  /\ browsing' = [browsing EXCEPT ![c] =
       [phase |-> "navigating", tool |-> tool, context |-> Len(contexts) + 1]]

Open(c, tool) ==
  /\ IF browser \in connected
       THEN NewContext(c, tool, browser)
       ELSE /\ browsing' = [browsing EXCEPT ![c] = [NoBrowsing EXCEPT !.phase = "launching", !.tool = tool]]
            /\ UNCHANGED <<contexts, open, uses>>
  /\ UNCHANGED <<browserVars, sessions, latest, timers, closing, stranded>>

\* A launch is over; the call goes on with the browser it launched, to which the
\* manager now refers, whoever launched another one meanwhile.
Launched(c) ==
  /\ browsing[c].phase = "launching"
  /\ launches < MaxBrowsers
  /\ launches' = launches + 1
  /\ browser' = launches + 1
  /\ connected' = connected \cup {launches + 1}
  /\ doubled' = IF browser \in connected THEN doubled \cup {browser} ELSE doubled
  /\ NewContext(c, browsing[c].tool, launches + 1)
  /\ UNCHANGED <<sessions, latest, timers, closing, stranded>>

LaunchFails(c) ==
  /\ browsing[c].phase = "launching"
  /\ browsing' = [browsing EXCEPT ![c] = NoBrowsing]
  /\ UNCHANGED <<browserVars, sessionVars, contexts, open, closing, stranded>>

\* The page is there: the session is, too, and the tool that asked for one goes on.
Navigated(c) ==
  LET s == browsing[c].context IN
  /\ browsing[c].phase = "navigating"
  /\ s \in open
  /\ sessions' = Append(sessions, s)
  /\ latest' = s
  /\ timers' = timers \cup {Timed(s)}
  /\ browsing' = [browsing EXCEPT ![c] =
       IF @.tool = "open" THEN NoBrowsing ELSE [@ EXCEPT !.phase = "resolved"]]
  /\ UNCHANGED <<browserVars, uses, contexts, open, closing, stranded>>

\* It is not, or the browser has died: nobody closes the context.
NavigateFails(c) ==
  /\ browsing[c].phase = "navigating"
  /\ browsing' = [browsing EXCEPT ![c] = NoBrowsing]
  /\ stranded' = stranded \cup {browsing[c].context}
  /\ UNCHANGED <<browserVars, sessionVars, contexts, open, closing>>

-----------------------------------------------------------------------------
(* Sessions                                                                *)

\* Variant for mutation: the old timer goes on.
UseAgain(s) ==
  /\ uses' = [uses EXCEPT ![s] = @ + 1]
  /\ timers' = timers \cup {[session |-> s, use |-> uses[s] + 1]}
  /\ latest' = s

\* getPage of a session that exists, and resetTimer.
GetPage(s) ==
  /\ uses' = [uses EXCEPT ![s] = @ + 1]
  /\ timers' = (timers \ {Timed(s)}) \cup {[session |-> s, use |-> uses[s] + 1]}
  /\ latest' = s

\* Variant for mutation: the latest session stays the latest.
CloseOnly(s, armed) ==
  /\ IsSession(s)
  /\ sessions' = Without(sessions, s)
  /\ timers' = armed \ {Timed(s)}
  /\ open' = open \ {s}
  /\ UNCHANGED latest

\* Variant for mutation: the context is left open.
CloseRecord(s, armed) ==
  /\ IsSession(s)
  /\ sessions' = Without(sessions, s)
  /\ latest' = IF latest # s THEN latest ELSE IF sessions' = <<>> THEN 0 ELSE Head(sessions')
  /\ timers' = armed \ {Timed(s)}
  /\ UNCHANGED open

\* close, if there is such a session; closing the context does not fail.
Close(s, armed) ==
  IF ~IsSession(s) THEN timers' = armed /\ UNCHANGED <<sessions, latest, open>>
  ELSE /\ sessions' = Without(sessions, s)
       /\ latest' = IF latest # s THEN latest ELSE IF sessions' = <<>> THEN 0 ELSE Head(sessions')
       /\ timers' = armed \ {Timed(s)}
       /\ open' = open \ {s}

\* The call has its session: it closes it, or works with its page.
Proceed(c, tool, s) ==
  IF tool = "close"
    THEN /\ Close(s, timers)
         /\ browsing' = [browsing EXCEPT ![c] = NoBrowsing]
         /\ UNCHANGED uses
    ELSE /\ uses[s] < MaxUses
         /\ GetPage(s)
         /\ browsing' = [browsing EXCEPT ![c] = [phase |-> "working", tool |-> tool, context |-> s]]
         /\ UNCHANGED <<sessions, open>>

\* resolveSessionId of a call that names none: the latest, else the first, else
\* a new one.
Fallback == IF latest # 0 /\ IsSession(latest) THEN latest
            ELSE IF sessions = <<>> THEN 0 ELSE Head(sessions)

BrowseCall(c) ==
  /\ browsing[c].phase = "none"
  /\ \/ Open(c, "open")
     \/ \E tool \in {"use", "close"} :
          \/ \E s \in {sessions[i] : i \in 1..Len(sessions)} \cup ({Fallback} \ {0}) :
               /\ Proceed(c, tool, s)
               /\ UNCHANGED <<browserVars, contexts, closing, stranded>>
          \/ Fallback = 0 /\ Open(c, tool)

\* A call that opened a session for itself: it may be gone already.
PageIsThere(c) ==
  LET s == browsing[c].context IN
  /\ browsing[c].phase = "resolved"
  /\ IF IsSession(s) THEN Proceed(c, browsing[c].tool, s)
       ELSE /\ browsing' = [browsing EXCEPT ![c] = NoBrowsing]
            /\ UNCHANGED <<sessionVars, open>>
  /\ UNCHANGED <<browserVars, contexts, closing, stranded>>

\* Fields are read, or filled in and submitted; or the page has gone.
Worked(c) ==
  /\ browsing[c].phase = "working"
  /\ browsing' = [browsing EXCEPT ![c] = NoBrowsing]
  /\ UNCHANGED <<browserVars, sessionVars, contexts, open, closing, stranded>>

\* Five minutes have passed since the timer was set.
Expire(t) ==
  /\ Close(t.session, timers \ {t})
  /\ UNCHANGED <<browserVars, uses, contexts, browsing, closing, stranded>>

BrowserDies ==
  \E b \in connected :
    /\ connected' = connected \ {b}
    /\ open' = {s \in open : contexts[s] # b}
    /\ UNCHANGED <<browser, launches, doubled, sessionVars, contexts, browsing, closing, stranded>>

\* closeAll: the sessions one after the other, those opened meanwhile too, then
\* the browser; the process ends.
CloseAll ==
  \/ /\ closing = "no"
     /\ closing' = "closing"
     /\ UNCHANGED <<browserVars, sessionVars, contexts, open, browsing, stranded>>
  \/ /\ closing = "closing"
     /\ sessions # <<>>
     /\ Close(Head(sessions), timers)
     /\ UNCHANGED <<browserVars, uses, contexts, browsing, closing, stranded>>
  \/ /\ closing = "closing"
     /\ sessions = <<>>
     /\ connected' = connected \ {browser}
     /\ open' = {s \in open : contexts[s] # browser}
     /\ browser' = 0
     /\ latest' = 0
     /\ closing' = "closed"
     /\ UNCHANGED <<launches, doubled, sessions, timers, uses, contexts, browsing, stranded>>

-----------------------------------------------------------------------------
BrowseInit ==
  /\ browser = 0 /\ connected = {} /\ launches = 0 /\ doubled = {}
  /\ contexts = <<>> /\ open = {} /\ stranded = {}
  /\ sessions = <<>> /\ latest = 0 /\ timers = {} /\ uses = <<>>
  /\ browsing = [c \in BrowseCalls |-> NoBrowsing]
  /\ closing = "no"

BrowseNext ==
  /\ closing # "closed"
  /\ \/ \E c \in BrowseCalls :
          \/ BrowseCall(c) \/ Launched(c) \/ LaunchFails(c)
          \/ Navigated(c) \/ NavigateFails(c) \/ PageIsThere(c) \/ Worked(c)
     \/ \E t \in timers : Expire(t)
     \/ BrowserDies \/ CloseAll

BrowseSpec == BrowseInit /\ [][BrowseNext]_browseVars

-----------------------------------------------------------------------------
(* Properties                                                              *)

BrowseTypeOK ==
  /\ launches \in Nat /\ browser \in 0..launches /\ connected \subseteq 1..launches
  /\ contexts \in Seq(Nat) /\ uses \in Seq(Nat) /\ Len(uses) = Len(contexts)
  /\ open \cup stranded \subseteq 1..Len(contexts)
  /\ sessions \in Seq(1..Len(contexts)) /\ latest \in 0..Len(contexts)
  /\ timers \subseteq [session : 1..Len(contexts), use : Nat]
  /\ browsing \in [BrowseCalls ->
       [phase : {"none", "launching", "navigating", "resolved", "working"},
        tool : {"open", "use", "close"}, context : 0..Len(contexts)]]

\* However calls overlap, every session has one timer, the one its last use set,
\* and no timer outlives its session: none is closed early, or never.
TimerOfLastUse ==
  /\ \A i \in 1..Len(sessions) : {t \in timers : t.session = sessions[i]} = {Timed(sessions[i])}
  /\ \A t \in timers : IsSession(t.session)

\* "The latest active session" is one of the sessions as long as there are any.
LatestIsASession == IF sessions = <<>> THEN latest = 0 ELSE IsSession(latest)

\* A browser that runs is the one the manager refers to and will close, unless
\* two calls have launched one each; and an open context belongs to a session or
\* to a call underway, unless its page could not be loaded.
BrowsersAreOwned ==
  /\ connected \ doubled \subseteq {browser}
  /\ \A s \in open : IsSession(s) \/ s \in stranded
                       \/ \E c \in BrowseCalls : browsing[c].context = s

\* Browser, contexts, sessions and timers, together.
SessionsAgree == TimerOfLastUse /\ LatestIsASession /\ BrowsersAreOwned
SessionsCorrect == BrowseTypeOK /\ SessionsAgree
=============================================================================
