---------------------------- MODULE ContentUpload ----------------------------
(***************************************************************************)
(* How a tool pushes a generated file to the gateway: the uploader loop of *)
(* the tool (init, one call per chunk, finalize, abort on failure), its    *)
(* GatewayContentUploadClient, the gateway's handleContentRpcRequest, the  *)
(* ContentStore behind it, and what else changes the store: deletion by an *)
(* operator, the hourly cleanup, a restart of the gateway.                 *)
(*                                                                         *)
(* A request is handled without an await, so handling one is one action.   *)
(* Every call has a connection of its own: one that failed or timed out    *)
(* leaves a request behind that the gateway may still handle later, while  *)
(* its answer is lost.  A chunk is its index.  The store's three tables    *)
(* have one row here: sessions and chunks go with their content item       *)
(* (ON DELETE CASCADE), and the byte counts of item and session are those  *)
(* of the chunks, which the same transaction inserts.                      *)
(***************************************************************************)
EXTENDS Integers

CONSTANTS
  Uploads,  \* the files to upload, each by a tool call with its own token
  Size,     \* the number of chunks of each
  UploadFaults    \* a subset of {"lose", "stop"}

ASSUME UploadAssumption ==
  /\ Size \in [Uploads -> Nat]
  /\ UploadFaults \subseteq {"lose", "stop"}

VARIABLES
  up,        \* the gateway runs
  signed,    \* uploads whose token the running gateway's secret has signed
  clock,     \* whether the content, or the token too, has expired
  content,   \* the rows of the store, by upload
  deleted,   \* content with deleted_at set (kept as history after a purge)
  pc,        \* where the uploader is: the call it awaits, or its outcome
  index,     \* its chunkIndex
  requests,  \* requests on a connection to the gateway, not yet handled
  answer,    \* the response to the awaited call, if there is one
  unclean    \* history: uploads whose init or abort call did not return

gatewayVars == <<up, signed>>
storeVars == <<content, deleted>>
toolVars == <<pc, index, unclean>>
uploadVars == <<gatewayVars, clock, storeVars, toolVars, requests, answer>>

Methods == {"init", "chunk", "finalize", "abort"}
Request == [of : Uploads, method : Methods, index : Nat]

AllChunks(u) == 0..(Size[u] - 1)
Row == [complete : BOOLEAN, chunks : SUBSET Nat]
NewRow == [complete |-> FALSE, chunks |-> {}]

Put(f, u, row) == [v \in DOMAIN f \cup {u} |-> IF v = u THEN row ELSE f[v]]
Without(f, S) == [v \in DOMAIN f \ S |-> f[v]]

-----------------------------------------------------------------------------
(* The tool                                                                *)

Awaits(u) == pc[u] \in Methods
Awaited(u) == [of |-> u, method |-> pc[u], index |-> index[u]]

\* The next step of the uploader, and the request it sends if it is a call: a
\* gateway that is down refuses the connection.
Go(u, step, i) ==
  /\ pc' = [pc EXCEPT ![u] = step]
  /\ index' = [index EXCEPT ![u] = i]
  /\ requests' = IF step \in Methods /\ up
                   THEN requests \cup {[of |-> u, method |-> step, index |-> i]}
                   ELSE requests
  /\ answer' = [answer EXCEPT ![u] = "none"]

\* The gateway starts an agent run and issues the tool's token with it.
Issue(u) ==
  /\ up
  /\ pc[u] = "idle"
  /\ signed' = signed \cup {u}
  /\ Go(u, "granted", 0)
  /\ UNCHANGED <<up, clock, storeVars, unclean>>

\* The tool call begins.
InitUpload(u) ==
  /\ pc[u] = "granted"
  /\ Go(u, "init", 0)
  /\ UNCHANGED <<gatewayVars, clock, storeVars, unclean>>

\* Variant for mutation: the loop runs once too often.
NextOneTooMany(u, i) == Go(u, IF i <= Size[u] THEN "chunk" ELSE "finalize", i)

\* The loop over the chunks, from chunk i on.
NextChunk(u, i) == Go(u, IF i < Size[u] THEN "chunk" ELSE "finalize", i)

AnsweredOk(u) ==
  /\ Awaits(u)
  /\ answer[u] = "ok"
  /\ CASE pc[u] = "init"     -> NextChunk(u, 0)
       [] pc[u] = "chunk"    -> NextChunk(u, index[u] + 1)
       [] pc[u] = "finalize" -> Go(u, "ok", index[u])
       [] pc[u] = "abort"    -> Go(u, "failed", index[u])
  /\ UNCHANGED <<gatewayVars, clock, storeVars, unclean>>

\* Variants for mutation: a file that could not be sent is not aborted; an
\* upload whose finalize failed counts as uploaded.
CatchNoAbort(step) == "failed"
CatchTrusting(step) == CASE step = "chunk" -> "abort" [] step = "finalize" -> "ok"
                         [] OTHER -> "failed"

\* A failed call: init is outside the try block, a failed abort is ignored.
Catch(step) == IF step \in {"chunk", "finalize"} THEN "abort" ELSE "failed"

\* The awaited call is answered with an error, or rejects: its connection was
\* refused, broke, or timed out.
CallFails(u) ==
  /\ Awaits(u)
  /\ \/ answer[u] = "error"
     \/ answer[u] = "none" /\ Awaited(u) \notin requests
     \/ "lose" \in UploadFaults
  /\ Go(u, Catch(pc[u]), index[u])
  /\ unclean' = IF pc[u] \in {"init", "abort"} THEN unclean \cup {u} ELSE unclean
  /\ UNCHANGED <<gatewayVars, clock, storeVars>>

-----------------------------------------------------------------------------
(* The gateway                                                             *)

Expired(u) == clock[u] # "fresh"

\* ContentUploadTokenService.validate.  The scope of the token is the scope its
\* session was created with: one tool call uses one token throughout.
ValidToken(u) == u \in signed /\ clock[u] # "token"

HasSession(u) == u \in DOMAIN content
IsPending(u) == HasSession(u) /\ ~content[u].complete

Reply(r, outcome) ==
  answer' = IF Awaits(r.of) /\ Awaited(r.of) = r
              THEN [answer EXCEPT ![r.of] = outcome] ELSE answer

Refuse(r) == Reply(r, "error") /\ UNCHANGED content

\* createUploadSession
HandleInit(r) ==
  content' = Put(content, r.of, NewRow) /\ Reply(r, "ok")

\* appendUploadChunk: neither expiry nor deletion of the session is looked at.
HandleChunk(r) ==
  IF IsPending(r.of) /\ r.index \notin content[r.of].chunks
    THEN /\ content' = [content EXCEPT ![r.of].chunks = @ \cup {r.index}]
         /\ Reply(r, "ok")
    ELSE Refuse(r)

\* finalizeUploadSession: the commit of an expired session is followed by the
\* error that its metadata is not found.
HandleFinalize(r) ==
  IF IsPending(r.of) /\ content[r.of].chunks = AllChunks(r.of)
    THEN /\ content' = [content EXCEPT ![r.of].complete = TRUE]
         /\ Reply(r, IF Expired(r.of) THEN "error" ELSE "ok")
    ELSE Refuse(r)

\* abortUploadSession, whatever the session's status: the cascade removes the
\* session it has just marked aborted.
HandleAbort(r) ==
  IF HasSession(r.of)
    THEN content' = Without(content, {r.of}) /\ Reply(r, "ok")
    ELSE Refuse(r)

\* handleContentRpcRequest
Handle(r) ==
  /\ up
  /\ r \in requests
  /\ requests' = requests \ {r}
  /\ IF ~ValidToken(r.of) THEN Refuse(r)
     ELSE CASE r.method = "init"     -> HandleInit(r)
            [] r.method = "chunk"    -> HandleChunk(r)
            [] r.method = "finalize" -> HandleFinalize(r)
            [] r.method = "abort"    -> HandleAbort(r)
  /\ UNCHANGED <<gatewayVars, clock, deleted, toolVars>>

\* DELETE /api/content/:contentRef
DeleteContent(u) ==
  /\ up
  /\ HasSession(u)
  /\ deleted' = deleted \cup {u}
  /\ UNCHANGED <<gatewayVars, clock, content, toolVars, requests, answer>>

\* Variant for mutation: only finalized content expires.
PurgeFinalized(old) ==
  {u \in DOMAIN content : (Expired(u) /\ content[u].complete) \/ u \in old}

\* purgeExpiredContent, then purgeDeletedContentOlderThanDays, to which `old`
\* is older than the retention.
Purged(old) == {u \in DOMAIN content : Expired(u) \/ u \in old}

\* cleanupDeletedContent: at start and every hour.
Cleanup ==
  /\ up
  /\ \E old \in SUBSET deleted : content' = Without(content, Purged(old))
  /\ UNCHANGED <<gatewayVars, clock, deleted, toolVars, requests, answer>>

\* The process stops or dies: its secret and its connections go with it.
GatewayStops ==
  /\ "stop" \in UploadFaults
  /\ up
  /\ up' = FALSE
  /\ signed' = {}
  /\ requests' = {}
  /\ UNCHANGED <<clock, storeVars, toolVars, answer>>

\* start, with the cleanup it begins with.
GatewayStarts ==
  /\ ~up
  /\ up' = TRUE
  /\ \E old \in SUBSET deleted : content' = Without(content, Purged(old))
  /\ UNCHANGED <<signed, clock, deleted, toolVars, requests, answer>>

\* Time passes.  Content expires with its token, or earlier when the tool asked
\* for a ttlSeconds; at the instant itself the token is still valid (>= and >).
Expires(u) ==
  /\ pc[u] # "idle"
  /\ \/ clock[u] = "fresh" /\ clock' = [clock EXCEPT ![u] = "content"]
     \/ clock[u] = "content" /\ clock' = [clock EXCEPT ![u] = "token"]
  /\ UNCHANGED <<gatewayVars, storeVars, toolVars, requests, answer>>

UploadsInit ==
  /\ up = TRUE
  /\ signed = {}
  /\ clock = [u \in Uploads |-> "fresh"]
  /\ content = [u \in {} |-> NewRow]
  /\ deleted = {}
  /\ pc = [u \in Uploads |-> "idle"]
  /\ index = [u \in Uploads |-> 0]
  /\ requests = {}
  /\ answer = [u \in Uploads |-> "none"]
  /\ unclean = {}

UploadsNext ==
  \/ \E u \in Uploads : \/ Issue(u) \/ InitUpload(u) \/ AnsweredOk(u) \/ CallFails(u)
                        \/ DeleteContent(u) \/ Expires(u)
  \/ \E r \in requests : Handle(r)
  \/ Cleanup \/ GatewayStops \/ GatewayStarts

\* Clocks run and the cleanup timer fires.
UploadsFair == WF_uploadVars(Cleanup) /\ \A u \in Uploads : WF_uploadVars(Expires(u))

-----------------------------------------------------------------------------
(* Properties                                                              *)

Steps == Methods \cup {"idle", "granted", "ok", "failed"}

UploadsTypeOK ==
  /\ up \in BOOLEAN
  /\ signed \subseteq Uploads
  /\ clock \in [Uploads -> {"fresh", "content", "token"}]
  /\ DOMAIN content \subseteq Uploads
  /\ \A u \in DOMAIN content : /\ content[u] \in Row
                               /\ content[u].chunks \subseteq AllChunks(u)
  /\ deleted \subseteq Uploads
  /\ pc \in [Uploads -> Steps]
  /\ index \in [Uploads -> Nat]
  /\ requests \subseteq Request
  /\ answer \in [Uploads -> {"none", "ok", "error"}]
  /\ unclean \subseteq Uploads

\* Requests under way: while an upload proceeds only the awaited call's, so that
\* nothing of an earlier one is handled out of turn; once it has failed, what its
\* calls left behind, but never an init, unless init or abort did not return.
RequestsFollow ==
  \A r \in requests :
    /\ r.method = "chunk" => r.index \in AllChunks(r.of)
    /\ \/ pc[r.of] \in {"abort", "failed"} /\ (r.method = "init" => r.of \in unclean)
       \/ r = Awaited(r.of) /\ answer[r.of] = "none"

\* What the tool is told, or is about to read in the answer.
ToldOf(u, step, call) == pc[u] = step \/ (pc[u] = call /\ answer[u] = "ok")

\* A file the tool reports as uploaded is in the store whole and finalized, or
\* it has expired or an operator has deleted it since: no request of a call
\* given up earlier, handled late, takes it away or leaves it incomplete.
UploadedIsWhole ==
  \A u \in Uploads :
    ToldOf(u, "ok", "finalize") =>
      IF HasSession(u) THEN content[u].complete /\ content[u].chunks = AllChunks(u)
                       ELSE Expired(u) \/ u \in deleted

\* A failed upload leaves nothing readable behind, unless its init or its abort
\* call itself failed: requests handled after the abort do not bring it back.
NothingLeaks ==
  /\ \A u \in DOMAIN content : ToldOf(u, "failed", "abort") => u \in unclean
  /\ \A u \in unclean : pc[u] = "failed"

\* Nothing stays for ever: every row, also one whose tool or gateway died with
\* the upload half done, is purged, provided the gateway keeps running.
EverythingGoes ==
  \A u \in Uploads : u \in DOMAIN content ~> (u \notin DOMAIN content \/ ~up)

\* What the store may be asked for agrees with what the tools were told.
UploadsCorrect == UploadsTypeOK /\ RequestsFollow /\ UploadedIsWhole /\ NothingLeaks

UploadsSpec == UploadsInit /\ [][UploadsNext]_uploadVars
=============================================================================
