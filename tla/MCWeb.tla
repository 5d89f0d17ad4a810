-------------------------------- MODULE MCWeb --------------------------------
(***************************************************************************)
(* Model checking the components of the web interface, which share no      *)
(* variable: every behaviour is one of the component that "focus" names,   *)
(* the others stay as they began.  The chat is checked with a token that   *)
(* does not change, and again with one that may but no text of turns:      *)
(* neither is read where the other is written.  With turns, the sockets    *)
(* that were let go stay as they are, and the more of them there have been *)
(* the fewer frames are left.  The conversations are alike, so the page    *)
(* begins in any one of them.                                              *)
(***************************************************************************)
EXTENDS WebChat, SignIn

VARIABLE focus

WebInit ==
  /\ focus \in {"turns", "tokens", "sign-in"}
  /\ ChatInit /\ SignInInit
  /\ room = CHOOSE r \in Rooms : TRUE
  /\ focus # "sign-in" => password = "none"

WebNext ==
  /\ UNCHANGED focus
  /\ \/ /\ focus = "turns" /\ ChatNext /\ UNCHANGED <<token, signInVars>>
        /\ \A s \in DOMAIN sockets : s = ws \/ UNCHANGED sockets[s]
        /\ frames' # frames => frames + Len(sockets) <= MaxFrames
     \/ focus = "tokens" /\ ChatNext /\ UNCHANGED <<entries, signInVars>>
     \/ focus = "sign-in" /\ SignInNext /\ UNCHANGED chatVars

\* The fairness of each component, in its own behaviours.
WebFair ==
  /\ WF_chatVars(focus # "sign-in" /\ Reconnect)
  /\ WF_chatVars(focus # "sign-in" /\ \E s \in DOMAIN sockets : s = ws /\ Opened(s))
  /\ WF_signInVars(focus = "sign-in" /\ GrantTimer)
  /\ WF_signInVars(focus = "sign-in" /\ \E s \in Slots : Poll(s))
  /\ \A s \in Slots : /\ SF_signInVars(focus = "sign-in" /\ Serve(s))
                       /\ WF_signInVars(focus = "sign-in" /\ Continue(s))

WebSpec == WebInit /\ [][WebNext]_<<focus, chatVars, signInVars>> /\ WebFair
=============================================================================
