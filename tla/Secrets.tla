------------------------------- MODULE Secrets -------------------------------
(***************************************************************************)
(* The secrets: JSON files in a directory, which the admin API reads and   *)
(* writes for the secrets panel of the web interface and for other         *)
(* clients, and which the gateway loads when it starts (SecretStore).      *)
(*                                                                         *)
(* A save reads the file, adds the secret and writes the file anew, with   *)
(* an await before each: nothing keeps two saves of a file apart, and the  *)
(* process may end in the middle of a write.  An absent file is one        *)
(* without secrets.  Values are numbered as they are saved.  That the      *)
(* routes validate a grant first is modelled in Grants: here a request may *)
(* be refused at any time.                                                 *)
(***************************************************************************)
EXTENDS Naturals, FiniteSets, SequencesExt

CONSTANTS
  SecretFiles, \* the files, in the order of the directory
  SecretNames,
  SaveSlots,   \* the saves the gateway may work on at the same time
  MaxSaves,    \* bound: saves, in behaviours in which no value is asked for
  MaxReveals   \* bound: values asked for

\* A sequence of files; there are finitely many names, "none" is no name.
ASSUME SecretsAssumption ==
  /\ SecretFiles \in Seq(STRING)
  /\ IsFiniteSet(SecretNames) /\ "none" \notin SecretNames

VARIABLES
  stored,    \* of each file: whether it is torn, and the value of each name (0: none)
  saves,     \* the saves the gateway works on
  nameOf,    \* history: the name each value was saved for
  gatewayUp, \* "running", "down" or "refused": loading threw
  loaded,    \* SecretStore.secrets: of each name its value
  \* The panel: the values shown, the one last asked for, the save it waits for.
  revealed, revealing, upserting,
  reveals,   \* the values asked for, in order
  saved,     \* history: of each file what was confirmed
  shaken     \* history: the files that saves wrote together or a crash tore

FileSet == {SecretFiles[i] : i \in DOMAIN SecretFiles}
Nothing == [n \in SecretNames |-> 0]
panelVars == <<revealed, revealing, upserting, reveals>>
storeOf == <<gatewayUp, loaded>>
secretVars == <<stored, saves, nameOf, storeOf, panelVars, saved, shaken>>

Count == Len(nameOf) - Cardinality(SecretNames)

NothingSaved == [phase |-> "idle"]
SavesOf(f) == {s \in SaveSlots : saves[s] # NothingSaved /\ saves[s].file = f}

-----------------------------------------------------------------------------
(* POST /api/secrets                                                       *)

\* A save comes in; the files it shares with another are not to be relied on.
Accept(s, f, n) ==
  /\ gatewayUp = "running"
  /\ saves[s] = NothingSaved /\ \A t \in SaveSlots : saves[t] = NothingSaved => s <= t
  /\ Count < IF reveals = << >> THEN MaxSaves ELSE 0
  /\ nameOf' = Append(nameOf, n)
  /\ saves' = [saves EXCEPT ![s] = [phase |-> "sent", file |-> f, name |-> n,
                                    value |-> Len(nameOf'), existing |-> Nothing, under |-> FALSE]]
  /\ shaken' = IF SavesOf(f) = {} THEN shaken ELSE shaken \cup {f}
  /\ UNCHANGED <<stored, storeOf, saved>>

\* Variant for mutation: what the file holds already is not read.
ReadNothing(s) ==
  /\ saves[s].phase = "sent"
  /\ saves' = [saves EXCEPT ![s].phase = "read"]
  /\ UNCHANGED <<stored, nameOf, storeOf, panelVars, saved, shaken>>

\* The existing secrets are read: none when the file cannot be parsed.
ReadExisting(s) ==
  /\ saves[s].phase = "sent"
  /\ LET at == stored[saves[s].file] IN
     saves' = [saves EXCEPT ![s].phase = "read",
                            ![s].existing = IF at.torn THEN Nothing ELSE at.has]
  /\ UNCHANGED <<stored, nameOf, storeOf, panelVars, saved, shaken>>

\* writeFile opens the file, which empties it, ...
Truncate(s) ==
  /\ saves[s].phase = "read"
  /\ saves' = [saves EXCEPT ![s].phase = "writing"]
  /\ stored' = [stored EXCEPT ![saves[s].file].torn = TRUE]
  /\ UNCHANGED <<nameOf, storeOf, panelVars, saved, shaken>>

\* ... and writes it from its beginning: over what another save has written since,
\* of which an end may be left.
WriteSecrets(s) ==
  /\ saves[s].phase = "writing"
  /\ LET w == saves[s] IN
     /\ \E left \in BOOLEAN :
          /\ left => w.under
          /\ stored' = [stored EXCEPT ![w.file] = [torn |-> left,
                                                has |-> [w.existing EXCEPT ![w.name] = w.value]]]
     /\ saves' = [t \in SaveSlots |->
                    IF t = s THEN [w EXCEPT !.phase = "written"]
                    ELSE IF saves[t].phase = "writing" /\ saves[t].file = w.file
                           THEN [saves[t] EXCEPT !.under = TRUE] ELSE saves[t]]
  /\ UNCHANGED <<nameOf, storeOf, panelVars, saved, shaken>>

\* The panel may save again.
Settled(s) ==
  /\ upserting' = IF upserting = s THEN 0 ELSE upserting
  /\ UNCHANGED <<revealed, revealing, reveals>>

\* The save is confirmed, to a client that may no longer be there.
Respond(s) ==
  /\ saves[s].phase = "written"
  /\ saves' = [saves EXCEPT ![s] = NothingSaved]
  /\ saved' = [saved EXCEPT ![saves[s].file][saves[s].name] = saves[s].value]
  /\ Settled(s)
  /\ UNCHANGED <<stored, nameOf, storeOf, shaken>>

\* The grant or the session has ended, or a field is missing.
RefuseSave(s) ==
  /\ saves[s].phase = "sent"
  /\ saves' = [saves EXCEPT ![s] = NothingSaved]
  /\ Settled(s)
  /\ UNCHANGED <<stored, nameOf, storeOf, saved, shaken>>

\* Another client saves a secret.
OtherSaves(s, f, n) == Accept(s, f, n) /\ UNCHANGED panelVars

-----------------------------------------------------------------------------
(* SecretStore.load                                                        *)

HoldersOf(n) == {f \in FileSet : stored[f].has[n] # 0}

\* Variant for mutation: of two files with the same secret, the first counts.
TornThrows == \E f \in FileSet : stored[f].torn

\* A file that is no JSON, or a name in two files, and the process ends.
LoadThrows == \/ \E f \in FileSet : stored[f].torn
              \/ \E n \in SecretNames : Cardinality(HoldersOf(n)) > 1

\* The value of a name in the first of the files that have it and can be read.
Lookup(n) ==
  LET i == SelectInSeq(SecretFiles, LAMBDA f : ~stored[f].torn /\ stored[f].has[n] # 0)
  IN IF i = 0 THEN 0 ELSE stored[SecretFiles[i]].has[n]

LoadSecrets ==
  /\ gatewayUp # "running"
  /\ IF LoadThrows THEN gatewayUp' = "refused" /\ UNCHANGED loaded
     ELSE gatewayUp' = "running" /\ loaded' = [n \in SecretNames |-> Lookup(n)]
  /\ UNCHANGED <<stored, saves, nameOf, panelVars, saved, shaken>>

\* The process ends: the saves it worked on end where they are, and what the panel
\* waits for fails.
Exits ==
  /\ gatewayUp = "running"
  /\ gatewayUp' = "down" /\ loaded' = Nothing
  /\ saves' = [s \in SaveSlots |-> NothingSaved]
  /\ shaken' = shaken \cup {saves[s].file : s \in {t \in SaveSlots : saves[t].phase \in {"writing", "written"}}}
  /\ upserting' = 0
  /\ reveals' = [r \in DOMAIN reveals |-> IF reveals[r].phase = "asked" THEN [reveals[r] EXCEPT !.phase = "answered"]
                                         ELSE reveals[r]]
  /\ UNCHANGED <<stored, nameOf, revealed, revealing, saved>>

-----------------------------------------------------------------------------
(* The panel                                                               *)

\* GET /api/secrets: the names in every file that can be read.  The list is that of
\* the moment here, as after a reload.
Listed == {n \in SecretNames : \E f \in FileSet : ~stored[f].torn /\ stored[f].has[n] # 0}

\* handleToggleReveal: a value that is shown is hidden, another is asked for.
Toggle(n) ==
  /\ n \in Listed
  /\ revealing # n
  /\ IF revealed[n] # 0
       THEN revealed' = [revealed EXCEPT ![n] = 0] /\ UNCHANGED <<revealing, reveals>>
       ELSE /\ Len(reveals) < MaxReveals /\ Count = 0
            /\ revealing' = n
            /\ reveals' = Append(reveals, [phase |-> "asked", name |-> n, value |-> 0])
            /\ UNCHANGED revealed
  /\ UNCHANGED <<stored, saves, nameOf, storeOf, upserting, saved, shaken>>

\* GET /api/secrets/:name: found, not found or refused.
ServeReveal(r) ==
  /\ gatewayUp = "running"
  /\ reveals[r].phase = "asked"
  /\ \E value \in {Lookup(reveals[r].name), 0} :
       reveals' = [reveals EXCEPT ![r].phase = "answered", ![r].value = value]
  /\ UNCHANGED <<stored, saves, nameOf, storeOf, revealed, revealing, upserting, saved, shaken>>

\* Variant for mutation: the value is shown for the name last asked for.
ShownForLatest(r) ==
  /\ revealed' = IF reveals[r].value = 0 \/ revealing = "none" THEN revealed
                   ELSE [revealed EXCEPT ![revealing] = reveals[r].value]

\* A value that came is shown for the name it was asked for.
Shown(r) ==
  revealed' = IF reveals[r].value = 0 THEN revealed
                ELSE [revealed EXCEPT ![reveals[r].name] = reveals[r].value]

RevealAnswered(r) ==
  /\ reveals[r].phase = "answered"
  /\ Shown(r)
  /\ revealing' = "none"
  /\ reveals' = [reveals EXCEPT ![r].phase = "done"]
  /\ UNCHANGED <<stored, saves, nameOf, storeOf, upserting, saved, shaken>>

\* The panel saves a secret, new or edited, into any of the files.
SaveDialog(s, f, n) ==
  /\ upserting = 0
  /\ Accept(s, f, n)
  /\ upserting' = s
  /\ UNCHANGED <<revealed, revealing, reveals>>

\* The connection of the save is lost: the panel may save again, the gateway goes on.
LoseSave ==
  /\ upserting # 0
  /\ upserting' = 0
  /\ UNCHANGED <<stored, saves, nameOf, storeOf, revealed, revealing, reveals, saved, shaken>>

-----------------------------------------------------------------------------
\* Every name is in some file.
SecretsInit ==
  /\ nameOf = SetToSeq(SecretNames)
  /\ \E place \in [SecretNames -> FileSet] :
       stored = [f \in FileSet |->
                 [torn |-> FALSE,
                  has |-> [n \in SecretNames |->
                             IF place[n] = f THEN CHOOSE v \in DOMAIN nameOf : nameOf[v] = n ELSE 0]]]
  /\ saved = [f \in FileSet |-> stored[f].has]
  /\ saves = [s \in SaveSlots |-> NothingSaved]
  /\ gatewayUp = "running" /\ loaded = [n \in SecretNames |-> Lookup(n)]
  /\ revealed = Nothing /\ revealing = "none" /\ upserting = 0
  /\ reveals = << >>
  /\ shaken = {}

SecretsNext ==
  \/ \E s \in SaveSlots :
       \/ ReadExisting(s) \/ Truncate(s) \/ WriteSecrets(s) \/ Respond(s) \/ RefuseSave(s)
       \/ \E f \in FileSet, n \in SecretNames : OtherSaves(s, f, n) \/ SaveDialog(s, f, n)
  \/ LoadSecrets \/ Exits
  \/ LoseSave
  \/ \E n \in SecretNames : Toggle(n)
  \/ \E r \in DOMAIN reveals : ServeReveal(r) \/ RevealAnswered(r)

SecretsSpec == SecretsInit /\ [][SecretsNext]_secretVars

-----------------------------------------------------------------------------
(* Properties                                                              *)

\* A file that no two saves worked on together, and no crash tore, holds every
\* secret that was confirmed and what it held before, and nothing else.
FilesHoldWhatWasSaved ==
  \A f \in FileSet \ shaken :
    SavesOf(f) = {} => ~stored[f].torn /\ stored[f].has = saved[f]

\* A gateway that starts loads what was confirmed last, of each name from the one
\* file that has it; it refuses to only when a name is in two files or a file was
\* written by two saves or torn by a crash.
LoadsWhatWasSaved ==
  [][LoadSecrets =>
       IF gatewayUp' = "running"
         THEN \A f \in FileSet \ shaken : \A n \in SecretNames :
                saved[f][n] # 0 => loaded'[n] = saved[f][n]
         ELSE \/ shaken # {}
              \/ \E n \in SecretNames, f, g \in FileSet : f # g /\ saved[f][n] # 0 /\ saved[g][n] # 0]_secretVars

\* The panel shows under a name only values saved for that name.
RevealsOwnValue == \A n \in SecretNames : revealed[n] # 0 => nameOf[revealed[n]] = n

\* Secrets are kept, loaded and shown as they were saved.
SecretsPromise ==
  /\ [][FilesHoldWhatWasSaved' /\ RevealsOwnValue']_secretVars
  /\ LoadsWhatWasSaved
=============================================================================
