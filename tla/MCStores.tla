------------------------------ MODULE MCStores -------------------------------
(***************************************************************************)
(* Model checking what the tools keep for searching (the crawled index,    *)
(* the searches of it, the chunks, the personal memories), and what of the *)
(* gateway reaches it: the grants that open it and the pauses of its       *)
(* crawls.  Each by itself: every behaviour is one of the component that   *)
(* "focus" names, the others stay as they began.                           *)
(***************************************************************************)
EXTENDS ImapCrawl, MailSearch, Chunking, PersonalMemories, Grants,
        GatewayLife

VARIABLE focus

storeVars == <<vars, searchVars, chunkVars, personalVars, grantVars, lifeVars>>

\* Mails with and without attachments, two of them with the same file.
MCMailbox == <<[folder |-> "in", uid |-> 1, sent |-> 0, file |-> "none"],
               [folder |-> "in", uid |-> 2, sent |-> 1, file |-> "x"],
               [folder |-> "old", uid |-> 1, sent |-> 1, file |-> "x"],
               [folder |-> "in", uid |-> 3, sent |-> 2, file |-> "y"]>>
MCImaps == <<"imap1", "imap2">>
\* A query that matches nothing by its words, and three that do.
MCTextScores == {<<0, 0, 0, 0>>, <<2, 1, 0, 1>>, <<1, 0, 1, 0>>, <<0, 2, 2, 1>>}
MCScores ==
  {[r \in Rows |-> [text |-> IF r.source = "email" THEN t[r.mail] ELSE 1,
                    vector |-> IF r.mail = 3 THEN 2 ELSE 0]] : t \in MCTextScores}

StoresInit ==
  /\ focus \in {"crawl", "search", "chunks", "personal", "grants", "life"}
  /\ Init /\ SearchInit /\ ChunkingInit /\ PersonalInit /\ GrantsInit /\ LifeInit
  /\ focus # "chunks" => /\ content \in TextsOf(1) /\ content[0] = "w"
                         /\ settings.of = "mail"
                         /\ settings.size = 1 /\ settings.overlap = 0
  /\ focus # "life" => crawls = {}

\* The crawls are alike: one that begins takes the first that is idle.
FirstIdle ==
  LET first == CHOOSE k \in Crawls : TRUE
  IN  \A k \in Crawls \ {first} : crawl[k].pc = "idle" /\ crawl'[k].pc # "idle" => crawl[first].pc # "idle"

StoresNext ==
  /\ UNCHANGED focus
  /\ \/ /\ focus = "crawl" /\ Next /\ FirstIdle
        /\ UNCHANGED <<searchVars, chunkVars, personalVars, grantVars, lifeVars>>
     \/ /\ focus = "search" /\ SearchNext
        /\ UNCHANGED <<vars, chunkVars, personalVars, grantVars, lifeVars>>
     \/ /\ focus = "chunks" /\ ChunkingNext
        /\ UNCHANGED <<vars, searchVars, personalVars, grantVars, lifeVars>>
     \/ /\ focus = "personal" /\ PersonalNext
        /\ UNCHANGED <<vars, searchVars, chunkVars, grantVars, lifeVars>>
     \/ /\ focus = "grants" /\ GrantsNext
        /\ UNCHANGED <<vars, searchVars, chunkVars, personalVars, lifeVars>>
     \/ /\ focus = "life" /\ LifeNext
        /\ UNCHANGED <<vars, searchVars, chunkVars, personalVars, grantVars>>

\* Fairness of ImapCrawl and GatewayLife, each in its own behaviours.
StoresFair ==
  /\ \A k \in Crawls : WF_vars(focus = "crawl" /\ Step(k))
  /\ \A m \in Mail : WF_vars(focus = "crawl" /\ ReindexSettles(m))
  /\ WF_vars(focus = "crawl" /\ StartUp) /\ WF_vars(focus = "crawl" /\ Poll)
  /\ WF_lifeVars(focus = "life" /\ ForceExit)

StoresSpec == StoresInit /\ [][StoresNext]_<<focus, storeVars>> /\ StoresFair

\* What has to happen in the end: every mail that arrived is indexed, unless one of
\* the exceptions of ImapCrawl holds, and a gateway that ran ends after a signal.
StoresGoOn == EverythingIndexed /\ SignalEnds
=============================================================================
