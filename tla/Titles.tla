------------------------------- MODULE Titles -------------------------------
(***************************************************************************)
(* The title of a conversation, and the checkpoints it shares with the     *)
(* conversation's turns: when a turn is complete the gateway may run the   *)
(* title graph (generateConversationTitle), on the same thread and the     *)
(* same checkpointer as the agent's graph (invokeConfiguredGraph), while   *)
(* the next turn may be underway.                                          *)
(*                                                                         *)
(* The checkpointer is external: a run begins with the messages of the     *)
(* newest checkpoint, and each of its nodes writes a new one with those    *)
(* and its own.                                                            *)
(***************************************************************************)
EXTENDS Naturals, FiniteSets

CONSTANT Dispatches   \* the turns of the conversation

VARIABLES
  thread,    \* the runs in the newest checkpoint of the thread
  run,       \* the state of each run: of a turn, or of the title after a turn
  work,      \* the runs in the messages a run has before it
  inFlight,  \* titleGenerationInFlight has the conversation
  title,     \* the turn whose title is stored, or "none"
  alone      \* history: the runs that no other run has overlapped

titleVars == <<thread, run, work, inFlight, title, alone>>

Runs == Dispatches \X {"turn", "title"}
RunsUnderway == {r \in Runs : run[r] = "running"}

\* Variant for mutation: the run does not read the thread.
BeginEmpty(r) ==
  /\ run' = [run EXCEPT ![r] = "running"]
  /\ work' = [work EXCEPT ![r] = {r}]
  /\ thread' = {r}
  /\ alone' = IF RunsUnderway = {} THEN alone \cup {r} ELSE alone \ RunsUnderway

\* graph.invoke or stream: the input is in the first checkpoint.
BeginRun(r) ==
  /\ run' = [run EXCEPT ![r] = "running"]
  /\ work' = [work EXCEPT ![r] = thread \cup {r}]
  /\ thread' = thread \cup {r}
  /\ alone' = IF RunsUnderway = {} THEN alone \cup {r} ELSE alone \ RunsUnderway

BeginTurn(t) ==
  /\ run[<<t, "turn">>] = "idle"
  /\ BeginRun(<<t, "turn">>)
  /\ UNCHANGED <<inFlight, title>>

\* A node of the run is complete.
Checkpoint(r) ==
  /\ run[r] = "running"
  /\ thread' = work[r]
  /\ UNCHANGED <<run, work, inFlight, title, alone>>

\* The last node is complete, and the run ends; or it throws.
TurnEnds(t) ==
  LET r == <<t, "turn">>
  IN /\ run[r] = "running"
     /\ \/ run' = [run EXCEPT ![r] = "complete"] /\ thread' = work[r]
        \/ run' = [run EXCEPT ![r] = "over"] /\ UNCHANGED thread
     /\ work' = [work EXCEPT ![r] = {}]
     /\ UNCHANGED <<inFlight, title, alone>>

\* Variant for mutation: only a title that is stored keeps from another.
GenerateUnchecked(t) ==
  LET reported == [run EXCEPT ![<<t, "turn">>] = "over"]
  IN /\ run[<<t, "turn">>] = "complete"
     /\ IF title # "none"
          THEN run' = reported /\ UNCHANGED <<thread, work, inFlight, alone>>
          ELSE /\ BeginRun(<<t, "title">>)
               /\ inFlight' = TRUE
     /\ UNCHANGED title

\* onTurnComplete: without a title, and with none in the making, the title graph
\* runs.
GenerateTitle(t) ==
  LET reported == [run EXCEPT ![<<t, "turn">>] = "over"]
  IN /\ run[<<t, "turn">>] = "complete"
     /\ IF title # "none" \/ inFlight
          THEN run' = reported /\ UNCHANGED <<thread, work, inFlight, alone>>
          ELSE /\ BeginRun(<<t, "title">>)
               /\ inFlight' = TRUE
     /\ UNCHANGED title

\* The title graph ends or throws: its title, or one made of the prompt, is
\* stored, unless that fails.
StoreTitle(t) ==
  LET r == <<t, "title">>
  IN /\ run[r] = "running"
     /\ run' = [run EXCEPT ![r] = "over", ![<<t, "turn">>] = "over"]
     /\ title' \in {t, title}
     /\ inFlight' = FALSE
     /\ work' = [work EXCEPT ![r] = {}]
     /\ UNCHANGED <<thread, alone>>

\* The gateway ends and starts again.
RestartTitles ==
  /\ RunsUnderway # {}
  /\ run' = [r \in Runs |-> IF run[r] \in {"running", "complete"} THEN "over" ELSE run[r]]
  /\ inFlight' = FALSE
  /\ work' = [r \in Runs |-> {}]
  /\ UNCHANGED <<thread, title, alone>>

TitlesInit ==
  /\ thread = {}
  /\ run = [r \in Runs |-> "idle"]
  /\ work = [r \in Runs |-> {}]
  /\ inFlight = FALSE
  /\ title = "none"
  /\ alone = {}

TitlesNext ==
  \/ \E t \in Dispatches : BeginTurn(t) \/ TurnEnds(t) \/ GenerateTitle(t) \/ StoreTitle(t)
  \/ \E r \in Runs : Checkpoint(r)
  \/ RestartTitles

TitlesSpec == TitlesInit /\ [][TitlesNext]_titleVars

-----------------------------------------------------------------------------
(* Properties                                                              *)

TitlesTypeOK ==
  /\ thread \subseteq Runs
  /\ run \in [Runs -> {"idle", "running", "complete", "over"}]
  /\ work \in [Runs -> SUBSET Runs]
  /\ inFlight \in BOOLEAN
  /\ title \in Dispatches \cup {"none"}
  /\ alone \subseteq Runs

\* A conversation has one title at most: a title is never replaced.
TitleIsKept == [][title # "none" => UNCHANGED title]_titleVars

\* What a run wrote that no other has overlapped stays in the conversation,
\* however runs overlap later.
LoneRunsAreRemembered ==
  \A r \in alone : run[r] # "idle" => r \in thread

\* A title is made once, and making it takes nothing from the conversation.
TitlesPromise == []TitlesTypeOK /\ [][LoneRunsAreRemembered']_titleVars /\ TitleIsKept
=============================================================================
