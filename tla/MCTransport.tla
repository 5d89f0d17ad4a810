----------------------------- MODULE MCTransport -----------------------------
(***************************************************************************)
(* Model checking what tools and gateway say to each other, each by        *)
(* itself: every behaviour is one of the tool calls, of an upload, of the  *)
(* tool server of the macOS app or of its bridge, as "focus" names it, the *)
(* others stay as they began.  Uploads share nothing but the gateway that  *)
(* is up and its timer.  Calls are told apart by their ids only, so they   *)
(* may be numbered as they are made.                                       *)
(***************************************************************************)
EXTENDS UnixSocketRpc, ContentUpload, MacServer, MacBridge

\* One file of three chunks, one empty file.
CONSTANTS big, empty

MCSize == [u \in Uploads |-> IF u = big THEN 3 ELSE 0]

\* The calls 1, 2, ... are made in that order.
InOrder == \A c \in Calls \ {1} : call'[c] # "idle" => call'[c - 1] # "idle"

VARIABLE focus

TransportInit ==
  /\ focus \in {"calls", "mac server", "mac bridge"} \cup Uploads
  /\ Init /\ UploadsInit /\ ServerInit /\ BridgeInit

TransportNext ==
  /\ UNCHANGED focus
  /\ \/ focus = "calls" /\ Next /\ InOrder /\ UNCHANGED <<uploadVars, serverVars, bridgeVars>>
     \/ focus = "mac server" /\ ServerNext /\ UNCHANGED <<vars, uploadVars, bridgeVars>>
     \/ focus = "mac bridge" /\ BridgeNext /\ UNCHANGED <<vars, uploadVars, serverVars>>
     \/ /\ focus \in Uploads /\ UploadsNext
        /\ \A u \in Uploads \ {focus} : pc'[u] = "idle"
        /\ UNCHANGED <<vars, serverVars, bridgeVars>>

\* The fairness of the one or of the other.
TransportFair ==
  /\ \A n \in Conns : /\ WF_vars(focus = "calls" /\ ConnectSettles(n))
                      /\ WF_vars(focus = "calls" /\ Close(n))
                      /\ WF_vars(focus = "calls" /\ Receive(n))
                      /\ WF_vars(focus = "calls" /\ ServerReads(n))
  /\ \A c \in Calls : WF_vars(focus = "calls" /\ HandlerReturns(c))
  /\ WF_uploadVars(focus \in Uploads /\ Cleanup)
  /\ \A u \in Uploads : WF_uploadVars(focus = u /\ Expires(u))

TransportSpec ==
  TransportInit /\ [][TransportNext]_<<focus, vars, uploadVars, serverVars, bridgeVars>> /\ TransportFair
=============================================================================
