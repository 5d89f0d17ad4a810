------------------------------- MODULE RpcCalls -------------------------------
(***************************************************************************)
(* What RpcClient.call (packages/core/src/rpc) promises of a tool call:    *)
(* its handler is started at most once, its promise is settled at most     *)
(* once, and it resolves only with the answer of the handler it started.   *)
(* A call may fail at any time, also while its handler runs: the handler   *)
(* may even be started for a caller that has already been told it failed.  *)
(***************************************************************************)
EXTENDS Naturals

CONSTANT Calls

VARIABLES
  state,  \* the promise of each call
  runs    \* how many times its handler was started

absVars == <<state, runs>>

Init ==
  /\ state = [c \in Calls |-> "idle"]
  /\ runs = [c \in Calls |-> 0]

Call(c) ==
  /\ state[c] = "idle"
  /\ state' = [state EXCEPT ![c] = "called"]
  /\ UNCHANGED runs

Run(c) ==
  /\ state[c] \in {"called", "failed"}
  /\ runs[c] = 0
  /\ runs' = [runs EXCEPT ![c] = 1]
  /\ UNCHANGED state

Answer(c) ==
  /\ state[c] = "called"
  /\ runs[c] = 1
  /\ state' = [state EXCEPT ![c] = "ok"]
  /\ UNCHANGED runs

Fail(S) ==
  /\ \A c \in S : state[c] = "called"
  /\ state' = [c \in Calls |-> IF c \in S THEN "failed" ELSE state[c]]
  /\ UNCHANGED runs

Next ==
  \/ \E c \in Calls : Call(c) \/ Run(c) \/ Answer(c)
  \/ \E S \in SUBSET Calls : Fail(S)

Spec == Init /\ [][Next]_absVars
=============================================================================
