--------------------------- MODULE GatewayProofs ---------------------------
(***************************************************************************)
(* Theorems about components of the gateway: what the tools are told about *)
(* their uploads, for any files of any sizes and requests handled late     *)
(* (ContentUpload); accounts, tokens and challenges, for any number of     *)
(* them (Accounts); the text a stream renders, for all texts of any length *)
(* (StreamText); and the tools from their discovery to a call of one, for  *)
(* any servers (ToolRouting).                                              *)
(***************************************************************************)
EXTENDS ContentUpload, Accounts, StreamText, ToolRouting, SequenceTheorems, FiniteSetTheorems,
        WellFoundedInduction, TLAPS

-----------------------------------------------------------------------------
(* The tool                                                                *)

\* The requests of an upload that is neither aborting nor failed: at most the
\* awaited one, and none once it is answered.
LEMMA NoneButTheAwaited ==
  ASSUME UploadsCorrect, NEW u \in Uploads, pc[u] \notin {"abort", "failed"},
         pc[u] \in Methods => answer[u] # "none"
  PROVE  \A r \in requests : r.of # u
<1>. SUFFICES ASSUME NEW r \in requests, r.of = u
              PROVE  FALSE
  OBVIOUS
<1>1. r = Awaited(u) /\ answer[u] = "none"
  BY DEF UploadsCorrect, RequestsFollow
<1>2. r.method \in Methods /\ r.method = pc[u]
  BY <1>1 DEF UploadsCorrect, UploadsTypeOK, Request, Awaited
<1>. QED
  BY <1>1, <1>2

\* The next step of the uploader keeps the types, and adds at most the request
\* that is awaited then.
LEMMA GoKeepsTypes ==
  ASSUME UploadsTypeOK, NEW u \in Uploads, NEW step \in Steps, NEW i \in Nat, Go(u, step, i)
  PROVE  /\ pc' \in [Uploads -> Steps] /\ index' \in [Uploads -> Nat]
         /\ requests' \subseteq Request
         /\ answer' \in [Uploads -> {"none", "ok", "error"}]
         /\ pc'[u] = step /\ index'[u] = i /\ answer'[u] = "none"
         /\ \A v \in Uploads : v # u => /\ pc'[v] = pc[v] /\ index'[v] = index[v]
                                        /\ answer'[v] = answer[v]
         /\ \A r \in requests' : \/ r \in requests
                                 \/ step \in Methods /\ r.of = u /\ r.method = step /\ r.index = i
                                      /\ r = [of |-> u, method |-> step, index |-> i]
<1>1. pc' = [pc EXCEPT ![u] = step] /\ index' = [index EXCEPT ![u] = i]
      /\ answer' = [answer EXCEPT ![u] = "none"]
  BY DEF Go
<1>2. pc \in [Uploads -> Steps] /\ index \in [Uploads -> Nat] /\ requests \subseteq Request
      /\ answer \in [Uploads -> {"none", "ok", "error"}]
  BY DEF UploadsTypeOK
<1>3. \A r \in requests' : \/ r \in requests
                           \/ step \in Methods /\ r = [of |-> u, method |-> step, index |-> i]
  BY DEF Go
<1>4. step \in Methods => [of |-> u, method |-> step, index |-> i] \in Request
  BY DEF Request
<1>. QED
  BY <1>1, <1>2, <1>3, <1>4

\* A step of the uploader keeps everything, provided that it leaves no request
\* behind unless it fails, asks for chunks that there are, and tells the truth.
LEMMA GoKeeps ==
  ASSUME UploadsCorrect, NEW u \in Uploads, NEW step \in Steps, NEW i \in Nat, Go(u, step, i),
         UNCHANGED <<up, clock, content, deleted>>, signed' \subseteq Uploads,
         step = "chunk" => i \in AllChunks(u),
         step \notin {"abort", "failed"} => \A r \in requests : r.of # u,
         unclean' = unclean \/ (step = "failed" /\ unclean' = unclean \cup {u}),
         step \in {"abort", "failed"} =>
            \A r \in requests : r.of = u /\ r.method = "init" => u \in unclean',
         step = "ok" => ToldOf(u, "ok", "finalize"),
         step = "failed" => u \in unclean' \/ ~HasSession(u),
         step # "failed" => u \notin unclean
  PROVE  UploadsCorrect'
<1>0. UploadsTypeOK /\ RequestsFollow /\ UploadedIsWhole /\ NothingLeaks
  BY DEF UploadsCorrect
<1>1. UploadsTypeOK'
  BY <1>0, GoKeepsTypes DEF UploadsTypeOK
<1>2. RequestsFollow'
  <2>. SUFFICES ASSUME NEW r \in requests'
                PROVE  /\ r.method = "chunk" => r.index \in AllChunks(r.of)
                       /\ \/ pc'[r.of] \in {"abort", "failed"} /\ (r.method = "init" => r.of \in unclean')
                          \/ r = Awaited(r.of)' /\ answer'[r.of] = "none"
    BY DEF RequestsFollow
  <2>1. CASE r \notin requests
    BY <1>0, <2>1, GoKeepsTypes DEF Awaited, Methods
  <2>2. CASE r \in requests /\ r.of = u
    BY <1>0, <2>2, GoKeepsTypes DEF RequestsFollow
  <2>3. CASE r \in requests /\ r.of # u
    <3>1. r.of \in Uploads
      BY <1>0, <2>3 DEF UploadsTypeOK, Request
    <3>. QED
      BY <1>0, <2>3, <3>1, GoKeepsTypes DEF RequestsFollow, Awaited
  <2>. QED
    BY <2>1, <2>2, <2>3
<1>3. UploadedIsWhole'
  BY <1>0, GoKeepsTypes DEF UploadedIsWhole, ToldOf, HasSession, Expired, Methods, Steps
<1>4. NothingLeaks'
  BY <1>0, GoKeepsTypes DEF NothingLeaks, ToldOf, HasSession, UploadsTypeOK
<1>. QED
  BY <1>1, <1>2, <1>3, <1>4 DEF UploadsCorrect

LEMMA ToolStep ==
  ASSUME UploadsCorrect, NEW u \in Uploads,
         Issue(u) \/ InitUpload(u) \/ AnsweredOk(u) \/ CallFails(u)
  PROVE  UploadsCorrect'
<1>0. UploadsTypeOK /\ RequestsFollow /\ UploadedIsWhole /\ NothingLeaks
  BY DEF UploadsCorrect
<1>1. CASE Issue(u)
  <2>1. /\ pc[u] = "idle" /\ Go(u, "granted", 0)
        /\ signed' \subseteq Uploads /\ UNCHANGED <<up, clock, content, deleted, unclean>>
    BY <1>0, <1>1 DEF Issue, UploadsTypeOK, storeVars
  <2>2. (\A r \in requests : r.of # u) /\ u \notin unclean
    BY <1>0, <2>1, NoneButTheAwaited DEF Methods, NothingLeaks
  <2>. QED
    BY <2>1, <2>2, GoKeeps DEF Steps
<1>2. CASE InitUpload(u)
  <2>1. /\ pc[u] = "granted" /\ Go(u, "init", 0)
        /\ signed' \subseteq Uploads /\ UNCHANGED <<up, clock, content, deleted, unclean>>
    BY <1>0, <1>2 DEF InitUpload, UploadsTypeOK, storeVars, gatewayVars
  <2>2. (\A r \in requests : r.of # u) /\ u \notin unclean
    BY <1>0, <2>1, NoneButTheAwaited DEF Methods, NothingLeaks
  <2>. QED
    BY <2>1, <2>2, GoKeeps DEF Steps, Methods
<1>3. ASSUME AnsweredOk(u)
      PROVE  UploadsCorrect'
  <2>0. /\ answer[u] = "ok" /\ pc[u] \in Methods
        /\ UNCHANGED <<up, signed, clock, content, deleted, unclean>> /\ signed' \subseteq Uploads
    BY <1>0, <1>3 DEF AnsweredOk, Awaits, gatewayVars, storeVars, UploadsTypeOK
  <2>1. ASSUME NEW i \in Nat, NextChunk(u, i), pc[u] \in {"init", "chunk"}
        PROVE  UploadsCorrect'
    <3>1. CASE i < Size[u]
      <4>1. i \in AllChunks(u) /\ Go(u, "chunk", i)
        BY <2>1, <3>1, UploadAssumption DEF NextChunk, AllChunks
      <4>. QED
        BY <1>0, <2>0, <2>1, <4>1, GoKeeps, NoneButTheAwaited DEF Methods, Steps, NothingLeaks
    <3>2. CASE ~(i < Size[u])
      <4>1. Go(u, "finalize", i)
        BY <2>1, <3>2 DEF NextChunk
      <4>. QED
        BY <1>0, <2>0, <2>1, <4>1, GoKeeps, NoneButTheAwaited DEF Methods, Steps, NothingLeaks
    <3>. QED
      BY <3>1, <3>2
  <2>2. index[u] \in Nat /\ index[u] + 1 \in Nat /\ 0 \in Nat
    BY <1>0 DEF UploadsTypeOK
  <2>3. CASE pc[u] \in {"init", "chunk"}
    <3>1. NextChunk(u, 0) \/ NextChunk(u, index[u] + 1)
      BY <1>3, <2>3 DEF AnsweredOk
    <3>. QED
      BY <2>1, <2>2, <2>3, <3>1
  <2>4. CASE pc[u] = "finalize"
    <3>1. Go(u, "ok", index[u])
      BY <1>3, <2>4 DEF AnsweredOk
    <3>. QED
      BY <1>0, <2>0, <2>2, <2>4, <3>1, GoKeeps, NoneButTheAwaited
      DEF Methods, Steps, NothingLeaks, ToldOf
  <2>5. CASE pc[u] = "abort"
    <3>1. Go(u, "failed", index[u])
      BY <1>3, <2>5 DEF AnsweredOk
    <3>2. \A r \in requests : r.of = u /\ r.method = "init" => u \in unclean
      BY <1>0, <2>5 DEF RequestsFollow, Awaited
    <3>3. u \in unclean \/ ~HasSession(u)
      BY <1>0, <2>0, <2>5 DEF NothingLeaks, ToldOf, HasSession
    <3>. QED
      BY <2>0, <2>2, <3>1, <3>2, <3>3, GoKeeps DEF Steps
  <2>. QED
    BY <2>0, <2>3, <2>4, <2>5 DEF Methods
<1>4. ASSUME CallFails(u)
      PROVE  UploadsCorrect'
  <2>0. /\ pc[u] \in Methods /\ index[u] \in Nat /\ Go(u, Catch(pc[u]), index[u])
        /\ UNCHANGED <<up, signed, clock, content, deleted>> /\ signed' \subseteq Uploads
    BY <1>0, <1>4 DEF CallFails, Awaits, gatewayVars, storeVars, UploadsTypeOK
  <2>1. CASE pc[u] \in {"init", "abort"}
    <3>1. Catch(pc[u]) = "failed" /\ unclean' = unclean \cup {u}
      BY <1>4, <2>1 DEF Catch, CallFails
    <3>. QED
      BY <2>0, <3>1, GoKeeps DEF Steps
  <2>2. CASE pc[u] \in {"chunk", "finalize"}
    <3>1. Catch(pc[u]) = "abort" /\ unclean' = unclean /\ u \notin unclean
      BY <1>0, <1>4, <2>2 DEF Catch, CallFails, NothingLeaks
    <3>2. \A r \in requests : r.of = u => r.method # "init"
      BY <1>0, <2>2 DEF RequestsFollow, Awaited
    <3>. QED
      BY <2>0, <3>1, <3>2, GoKeeps DEF Steps, Methods
  <2>. QED
    BY <2>0, <2>1, <2>2 DEF Methods
<1>. QED
  BY <1>1, <1>2, <1>3, <1>4

-----------------------------------------------------------------------------
(* The gateway                                                             *)

\* A request handled changes the row of its own upload only, makes one only if
\* it is an init, and is answered "ok" by what the answer says.
LEMMA RowMoves ==
  ASSUME UploadsTypeOK, RequestsFollow, NEW r \in requests, Handle(r)
  PROVE  /\ DOMAIN content' \subseteq Uploads
         /\ \A v \in DOMAIN content' : content'[v] \in Row /\ content'[v].chunks \subseteq AllChunks(v)
         /\ \A v \in Uploads : v # r.of => /\ v \in DOMAIN content' <=> v \in DOMAIN content
                                           /\ v \in DOMAIN content => content'[v] = content[v]
         /\ r.of \in DOMAIN content' => r.of \in DOMAIN content \/ r.method = "init"
         /\ \E outcome \in {"ok", "error"} :
              /\ Reply(r, outcome)
              /\ r.method = "finalize" /\ outcome = "ok" =>
                   /\ r.of \in DOMAIN content' /\ content'[r.of].complete
                   /\ content'[r.of].chunks = AllChunks(r.of)
              /\ r.method = "abort" /\ outcome = "ok" => r.of \notin DOMAIN content'
<1>0. /\ r.of \in Uploads /\ r.method \in Methods /\ r.index \in Nat
      /\ DOMAIN content \subseteq Uploads
      /\ \A v \in DOMAIN content : content[v] \in Row /\ content[v].chunks \subseteq AllChunks(v)
  BY DEF UploadsTypeOK, Request
<1>1. CASE Refuse(r)
  BY <1>0, <1>1 DEF Refuse
<1>2. CASE r.method = "init" /\ HandleInit(r)
  <2>1. NewRow \in Row /\ NewRow.chunks = {}
    BY DEF NewRow, Row
  <2>2. content' = [v \in DOMAIN content \cup {r.of} |-> IF v = r.of THEN NewRow ELSE content[v]]
    BY <1>2 DEF HandleInit, Put
  <2>3. Reply(r, "ok")
    BY <1>2 DEF HandleInit
  <2>. QED
    BY <1>0, <1>2, <2>1, <2>2, <2>3
<1>3. CASE r.method = "chunk" /\ HandleChunk(r) /\ ~Refuse(r)
  <2>1. /\ r.of \in DOMAIN content /\ Reply(r, "ok")
        /\ content' = [content EXCEPT ![r.of].chunks = @ \cup {r.index}]
    BY <1>3 DEF HandleChunk, IsPending, HasSession
  <2>2. r.index \in AllChunks(r.of)
    BY <1>3 DEF RequestsFollow
  <2>3. content'[r.of] = [content[r.of] EXCEPT !.chunks = @ \cup {r.index}]
    BY <2>1
  <2>4. content'[r.of] \in Row /\ content'[r.of].chunks = content[r.of].chunks \cup {r.index}
    BY <1>0, <2>1, <2>3 DEF Row
  <2>. QED
    BY <1>0, <1>3, <2>1, <2>2, <2>4
<1>4. CASE r.method = "finalize" /\ HandleFinalize(r) /\ ~Refuse(r)
  <2>1. /\ r.of \in DOMAIN content /\ content[r.of].chunks = AllChunks(r.of)
        /\ content' = [content EXCEPT ![r.of].complete = TRUE]
        /\ Reply(r, IF Expired(r.of) THEN "error" ELSE "ok")
    BY <1>4 DEF HandleFinalize, IsPending, HasSession
  <2>2. content'[r.of] = [content[r.of] EXCEPT !.complete = TRUE]
    BY <2>1
  <2>3. content'[r.of] \in Row /\ content'[r.of].chunks = AllChunks(r.of) /\ content'[r.of].complete
    BY <1>0, <2>1, <2>2 DEF Row
  <2>4. \E outcome \in {"ok", "error"} : Reply(r, outcome)
    BY <2>1
  <2>. QED
    BY <1>0, <1>4, <2>1, <2>3, <2>4
<1>5. CASE r.method = "abort" /\ HandleAbort(r) /\ ~Refuse(r)
  <2>1. content' = [v \in DOMAIN content \ {r.of} |-> content[v]] /\ Reply(r, "ok")
    BY <1>5 DEF HandleAbort, Without
  <2>. QED
    BY <1>0, <1>5, <2>1
<1>. QED
  BY <1>0, <1>1, <1>2, <1>3, <1>4, <1>5 DEF Handle, Methods

LEMMA HandleStep ==
  ASSUME UploadsCorrect, NEW r \in requests, Handle(r)
  PROVE  UploadsCorrect'
<1>0. /\ UploadsTypeOK /\ RequestsFollow /\ UploadedIsWhole /\ NothingLeaks
      /\ r.of \in Uploads /\ r.method \in Methods
  BY DEF UploadsCorrect, UploadsTypeOK, Request
<1>. DEFINE u == r.of
<1>1. /\ requests' = requests \ {r}
      /\ UNCHANGED <<up, signed, clock, deleted, pc, index, unclean>>
  BY DEF Handle, gatewayVars, toolVars
<1>2. PICK outcome \in {"ok", "error"} :
        /\ Reply(r, outcome)
        /\ r.method = "finalize" /\ outcome = "ok" =>
             /\ u \in DOMAIN content' /\ content'[u].complete
             /\ content'[u].chunks = AllChunks(u)
        /\ r.method = "abort" /\ outcome = "ok" => u \notin DOMAIN content'
  BY <1>0, RowMoves
<1>3. /\ answer' \in [Uploads -> {"none", "ok", "error"}]
      /\ \A v \in Uploads : v # u => answer'[v] = answer[v]
      /\ r = Awaited(u) /\ pc[u] \in Methods => answer'[u] = outcome
      /\ ~(r = Awaited(u) /\ pc[u] \in Methods) => answer'[u] = answer[u]
  BY <1>0, <1>2 DEF Reply, Awaits, UploadsTypeOK
<1>4. UploadsTypeOK'
  BY <1>0, <1>1, <1>3, RowMoves DEF UploadsTypeOK
<1>5. RequestsFollow'
  <2>. SUFFICES ASSUME NEW q \in requests, q # r
                PROVE  /\ q.method = "chunk" => q.index \in AllChunks(q.of)
                       /\ \/ pc[q.of] \in {"abort", "failed"} /\ (q.method = "init" => q.of \in unclean)
                          \/ q = Awaited(q.of) /\ answer'[q.of] = "none"
    BY <1>1 DEF RequestsFollow, Awaited
  <2>1. q.of \in Uploads
    BY <1>0 DEF UploadsTypeOK, Request
  <2>. QED
    BY <1>0, <1>3, <2>1 DEF RequestsFollow
<1>6. \A v \in Uploads : v # u => /\ HasSession(v)' <=> HasSession(v)
                                  /\ HasSession(v) => content'[v] = content[v]
  BY <1>0, RowMoves DEF HasSession
<1>7. pc[u] \notin {"abort", "failed"} => r = Awaited(u) /\ answer[u] = "none" /\ r.method = pc[u]
  BY <1>0 DEF RequestsFollow, Awaited
<1>8. UploadedIsWhole'
  <2>. SUFFICES ASSUME NEW v \in Uploads, ToldOf(v, "ok", "finalize")'
                PROVE  IF HasSession(v)' THEN content'[v].complete /\ content'[v].chunks = AllChunks(v)
                       ELSE Expired(v) \/ v \in deleted
    BY <1>1 DEF UploadedIsWhole, Expired
  <2>1. CASE v # u
    BY <1>0, <1>1, <1>3, <1>6, <2>1 DEF UploadedIsWhole, ToldOf
  <2>2. CASE v = u
    <3>1. pc[u] = "finalize" /\ r.method = "finalize" /\ outcome = "ok"
      BY <1>0, <1>1, <1>3, <1>7, <2>2 DEF ToldOf, Methods
    <3>. QED
      BY <1>2, <2>2, <3>1 DEF HasSession
  <2>. QED
    BY <2>1, <2>2
<1>9. NothingLeaks'
  <2>. SUFFICES ASSUME NEW v \in DOMAIN content', ToldOf(v, "failed", "abort")'
                PROVE  v \in unclean
    BY <1>0, <1>1 DEF NothingLeaks
  <2>0. v \in Uploads
    BY <1>4 DEF UploadsTypeOK
  <2>1. CASE v # u
    BY <1>0, <1>1, <1>3, <1>6, <2>0, <2>1 DEF NothingLeaks, ToldOf, HasSession
  <2>2. CASE v = u
    <3>1. pc[u] = "failed" \/ (pc[u] = "abort" /\ answer'[u] = "ok")
      BY <1>1, <2>2 DEF ToldOf
    <3>2. CASE r.method = "init"
      BY <1>0, <2>2, <3>1, <3>2 DEF RequestsFollow, Awaited, Methods
    <3>3. CASE r.method # "init" /\ ToldOf(u, "failed", "abort")
      BY <1>0, <2>2, <3>3, RowMoves DEF NothingLeaks
    <3>4. CASE pc[u] = "abort" /\ answer[u] # "ok"
      <4>1. r = Awaited(u) /\ outcome = "ok"
        BY <1>3, <3>1, <3>4
      <4>2. r.method = "abort"
        BY <3>4, <4>1 DEF Awaited
      <4>. QED
        BY <1>2, <2>2, <4>1, <4>2
    <3>. QED
      BY <3>1, <3>2, <3>3, <3>4 DEF ToldOf
  <2>. QED
    BY <2>1, <2>2
<1>. QED
  BY <1>4, <1>5, <1>8, <1>9 DEF UploadsCorrect

\* Rows are purged only once they have expired, or been deleted.
LEMMA PurgeKeeps ==
  ASSUME UploadsCorrect, NEW old \in SUBSET deleted, content' = Without(content, Purged(old)),
         UNCHANGED <<clock, deleted, pc, index, unclean, requests, answer>>,
         up' \in BOOLEAN, signed' = signed
  PROVE  UploadsCorrect'
<1>0. UploadsTypeOK /\ RequestsFollow /\ UploadedIsWhole /\ NothingLeaks
  BY DEF UploadsCorrect
<1>1. /\ DOMAIN content' = DOMAIN content \ Purged(old)
      /\ \A v \in DOMAIN content' : content'[v] = content[v]
  BY DEF Without
<1>2. UploadsTypeOK'
  BY <1>0, <1>1 DEF UploadsTypeOK
<1>3. RequestsFollow'
  BY <1>0 DEF RequestsFollow, Awaited
<1>4. UploadedIsWhole'
  BY <1>0, <1>1 DEF UploadedIsWhole, ToldOf, HasSession, Expired, Purged
<1>5. NothingLeaks'
  BY <1>0, <1>1 DEF NothingLeaks, ToldOf
<1>. QED
  BY <1>2, <1>3, <1>4, <1>5 DEF UploadsCorrect

-----------------------------------------------------------------------------
(* The theorem                                                             *)

LEMMA UploadsInitCorrect == UploadsInit => UploadsCorrect
<1>. SUFFICES ASSUME UploadsInit
              PROVE  UploadsCorrect
  OBVIOUS
<1>1. UploadsTypeOK
  BY DEF UploadsInit, UploadsTypeOK, Steps
<1>2. RequestsFollow /\ UploadedIsWhole /\ NothingLeaks
  BY DEF UploadsInit, RequestsFollow, UploadedIsWhole, NothingLeaks, ToldOf
<1>. QED
  BY <1>1, <1>2 DEF UploadsCorrect

LEMMA UploadsStep == UploadsCorrect /\ [UploadsNext]_uploadVars => UploadsCorrect'
<1>. SUFFICES ASSUME UploadsCorrect, [UploadsNext]_uploadVars
              PROVE  UploadsCorrect'
  OBVIOUS
<1>0. UploadsTypeOK /\ RequestsFollow /\ UploadedIsWhole /\ NothingLeaks
  BY DEF UploadsCorrect
<1>1. ASSUME NEW u \in Uploads, Issue(u) \/ InitUpload(u) \/ AnsweredOk(u) \/ CallFails(u)
      PROVE  UploadsCorrect'
  BY <1>1, ToolStep
<1>2. ASSUME NEW r \in requests, Handle(r)
      PROVE  UploadsCorrect'
  BY <1>2, HandleStep
<1>3. ASSUME NEW u \in Uploads, DeleteContent(u)
      PROVE  UploadsCorrect'
  BY <1>0, <1>3 DEF DeleteContent, UploadsCorrect, UploadsTypeOK, RequestsFollow, UploadedIsWhole,
     NothingLeaks, ToldOf, HasSession, Expired, Awaited, gatewayVars, toolVars
<1>4. ASSUME NEW u \in Uploads, Expires(u)
      PROVE  UploadsCorrect'
  <2>1. clock' \in [Uploads -> {"fresh", "content", "token"}] /\ \A v \in Uploads : Expired(v) => Expired(v)'
    BY <1>0, <1>4 DEF Expires, UploadsTypeOK, Expired
  <2>2. UNCHANGED <<up, signed, content, deleted, pc, index, unclean, requests, answer>>
    BY <1>4 DEF Expires, gatewayVars, storeVars, toolVars
  <2>. QED
    BY <1>0, <2>1, <2>2 DEF UploadsCorrect, UploadsTypeOK, RequestsFollow, UploadedIsWhole,
       NothingLeaks, ToldOf, HasSession, Awaited
<1>5. CASE Cleanup
  BY <1>0, <1>5, PurgeKeeps DEF Cleanup, gatewayVars, toolVars, UploadsTypeOK
<1>6. CASE GatewayStarts
  BY <1>0, <1>6, PurgeKeeps DEF GatewayStarts, toolVars, UploadsTypeOK
<1>7. CASE GatewayStops
  BY <1>0, <1>7 DEF GatewayStops, UploadsCorrect, UploadsTypeOK, RequestsFollow, UploadedIsWhole,
     NothingLeaks, ToldOf, HasSession, Expired, storeVars, toolVars
<1>8. CASE UNCHANGED uploadVars
  BY <1>0, <1>8 DEF uploadVars, gatewayVars, storeVars, toolVars, UploadsCorrect, UploadsTypeOK,
     RequestsFollow, UploadedIsWhole, NothingLeaks, ToldOf, HasSession, Expired, Awaited
<1>. QED
  BY <1>1, <1>2, <1>3, <1>4, <1>5, <1>6, <1>7, <1>8 DEF UploadsNext

\* For any files of any sizes, calls that time out and are handled late, restarts,
\* expiry, deletion and purges: what is reported uploaded is in the store whole
\* until it expires or is deleted, and what failed is gone.
THEOREM UploadsAreCorrect == UploadsSpec => []UploadsCorrect
<1>. QED
  BY UploadsInitCorrect, UploadsStep, PTL DEF UploadsSpec

-----------------------------------------------------------------------------
(* Accounts                                                                *)

AccountsInv == AccountsTypeOK /\ AccountsSafe

\* What a challenge is, of which only the record is known.
LEMMA ChallengeOf ==
  ASSUME NEW U, NEW c \in [purpose : Purposes \cup {"none"}, user : U],
         c.purpose # "register" => c.user = 0
  PROVE  /\ c.purpose = "none" => c = NoChallenge
         /\ c.purpose = "authenticate" => c = [purpose |-> "authenticate", user |-> 0]
         /\ c.purpose = "register" => c = [purpose |-> "register", user |-> c.user]
  BY DEF Purposes, NoChallenge

LEMMA AccountsInitially == AccountsInit => AccountsInv
<1> SUFFICES ASSUME AccountsInit PROVE AccountsInv
  OBVIOUS
<1>1. /\ NoChallenge \in [purpose : Purposes \cup {"none"}, user : 0..users]
      /\ NoChallenge.user = 0 /\ 0 \in 0..users
  BY AccountsAssumption DEF AccountsInit, NoChallenge
<1>2. challenges \in [Challenges -> [purpose : Purposes \cup {"none"}, user : 0..users]]
  BY <1>1 DEF AccountsInit
<1>3. \A c \in Challenges : challenges[c] = NoChallenge
  BY DEF AccountsInit
<1>4. AccountsTypeOK
  <2>1. passkeys \in [Passkeys -> 0..users]
    BY <1>1 DEF AccountsInit
  <2>2. users = 0 /\ user = 0 /\ 0 \in 0..MaxUsers
    BY AccountsAssumption DEF AccountsInit
  <2>3. answers = {} /\ spent = {} /\ sessions = {} /\ password = FALSE /\ setupToken = "none"
    BY DEF AccountsInit
  <2> QED BY <1>1, <1>2, <1>3, <2>1, <2>2, <2>3 DEF AccountsTypeOK
<1>5. AccountsSafe
  BY <1>1, <1>3 DEF AccountsInit, AccountsSafe, NothingOutlivesItsUser, SpentIsGone, SetupIsOnce
<1> QED BY <1>4, <1>5 DEF AccountsInv

\* Tokens, sessions and users: no ceremony's record changes, or all go.
LEMMA UsersKeep ==
  ASSUME AccountsInv,
         \/ EnsureBootstrapToken \/ Regenerate \/ TokenExpires
         \/ \E p \in BOOLEAN : Setup(p)
         \/ Login \/ SessionEnds \/ ResetAuth
  PROVE  AccountsInv'
<1>1. CASE EnsureBootstrapToken \/ Regenerate \/ TokenExpires
  BY <1>1 DEF EnsureBootstrapToken, Regenerate, TokenExpires, AccountsInv, AccountsTypeOK,
     AccountsSafe, NothingOutlivesItsUser, SpentIsGone, SetupIsOnce
<1>2. ASSUME NEW p \in BOOLEAN, Setup(p) PROVE AccountsInv'
  <2>1. /\ user = 0 /\ user' = users + 1 /\ users' = users + 1 /\ users \in Nat /\ users < MaxUsers
        /\ 0..users \subseteq 0..users'
    BY <1>2, AccountsAssumption DEF Setup, AccountsInv, AccountsTypeOK
  <2>2. /\ sessions = {} /\ sessions' = {users + 1}
        /\ \A k \in Passkeys : passkeys[k] = 0
        /\ \A c \in Challenges : challenges[c].user = 0
    BY <1>2, <2>1 DEF Setup, AccountsInv, AccountsSafe, NothingOutlivesItsUser
  <2>3. AccountsTypeOK'
    BY <1>2, <2>1, <2>2, AccountsAssumption DEF Setup, AccountsInv, AccountsTypeOK
  <2>4. AccountsSafe'
    BY <1>2, <2>1, <2>2 DEF Setup, AccountsInv, AccountsSafe, NothingOutlivesItsUser,
       SpentIsGone, SetupIsOnce
  <2> QED BY <2>3, <2>4 DEF AccountsInv
<1>3. CASE Login
  BY <1>3 DEF Login, AccountsInv, AccountsTypeOK,
     AccountsSafe, NothingOutlivesItsUser, SpentIsGone, SetupIsOnce
<1>5. CASE SessionEnds
  BY <1>5 DEF SessionEnds, AccountsInv, AccountsTypeOK,
     AccountsSafe, NothingOutlivesItsUser, SpentIsGone, SetupIsOnce
<1>4. CASE ResetAuth
  <2>1. \A a \in answers : a.to \in Challenges
    BY DEF AccountsInv, AccountsTypeOK, Answer
  <2>2. AccountsTypeOK'
    <3>1. NoChallenge \in [purpose : Purposes \cup {"none"}, user : 0..users]
          /\ NoChallenge.user = 0 /\ 0 \in 0..users
      BY AccountsAssumption DEF AccountsInv, AccountsTypeOK, NoChallenge
    <3>2. challenges' = [c \in Challenges |-> NoChallenge] /\ UNCHANGED users
      BY <1>4 DEF ResetAuth
    <3>3. /\ challenges' \in [Challenges -> [purpose : Purposes \cup {"none"}, user : 0..users']]
          /\ \A c \in Challenges : challenges'[c].purpose # "register" => challenges'[c].user = 0
      BY <3>1, <3>2
    <3> QED
      BY <1>4, <3>1, <3>3 DEF ResetAuth, AccountsInv, AccountsTypeOK
  <2>3. SpentIsGone'
    BY <1>4, <2>1 DEF ResetAuth, AccountsInv, AccountsTypeOK, AccountsSafe, SpentIsGone
  <2>4. NothingOutlivesItsUser' /\ SetupIsOnce'
    BY <1>4 DEF ResetAuth, NoChallenge, NothingOutlivesItsUser, SetupIsOnce
  <2> QED BY <2>2, <2>3, <2>4 DEF AccountsInv, AccountsSafe
<1> QED BY <1>1, <1>2, <1>3, <1>4, <1>5

LEMMA BeginKeeps ==
  ASSUME AccountsInv, NEW c \in Challenges, NEW purpose \in Purposes, Begin(c, purpose)
  PROVE  AccountsInv'
  BY DEF Begin, AccountsInv, AccountsTypeOK, NoChallenge, Purposes,
     AccountsSafe, NothingOutlivesItsUser, SpentIsGone, SetupIsOnce

LEMMA ChallengeExpiresKeeps ==
  ASSUME AccountsInv, NEW c \in Challenges, ChallengeExpires(c)
  PROVE  AccountsInv'
  BY DEF ChallengeExpires, AccountsInv, AccountsTypeOK, NoChallenge, Purposes,
     AccountsSafe, NothingOutlivesItsUser, SpentIsGone, SetupIsOnce

LEMMA AnswerArrivesKeeps ==
  ASSUME AccountsInv, NEW c \in Challenges, NEW k \in Passkeys, AnswerArrives(c, k)
  PROVE  AccountsInv'
<1> DEFINE ch == challenges[c]
           a == [to |-> c, purpose |-> ch.purpose, key |-> k,
                 by |-> IF ch.purpose = "register" THEN ch.user ELSE passkeys[k]]
<1>1. ch \in [purpose : Purposes \cup {"none"}, user : 0..users] /\ (ch.purpose # "register" => ch.user = 0)
  BY DEF AccountsInv, AccountsTypeOK
<1>2. ch.purpose \in Purposes
  BY <1>1, ChallengeOf DEF AnswerArrives
<1>3. a.by \in 1..users
  <2>1. CASE ch.purpose = "register"
    BY <2>1 DEF AnswerArrives, AccountsInv, AccountsTypeOK, AccountsSafe, NothingOutlivesItsUser
  <2>2. CASE ch.purpose = "authenticate"
    BY <2>2 DEF AnswerArrives, AccountsInv, AccountsTypeOK
  <2> QED BY <2>1, <2>2, <1>2 DEF Purposes
<1>4. a \in Answer
  BY <1>2, <1>3, AccountsAssumption DEF Answer, AccountsInv, AccountsTypeOK
<1>5. challenges[a.to] = [purpose |-> a.purpose,
                          user |-> IF a.purpose = "register" THEN a.by ELSE 0]
  BY <1>1, <1>2, ChallengeOf DEF Purposes
<1>6. answers' = answers \cup {a}
  BY DEF AnswerArrives
<1> HIDE DEF a, ch
<1> QED
  BY <1>4, <1>5, <1>6 DEF AnswerArrives, AccountsInv, AccountsTypeOK,
     AccountsSafe, NothingOutlivesItsUser, SpentIsGone, SetupIsOnce

\* The ceremony that succeeds spends the challenge its answer was read with.
LEMMA SpendKeeps ==
  ASSUME AccountsInv, NEW a \in answers, Spend(a), answers' = answers \ {a}
  PROVE  /\ challenges' \in [Challenges -> [purpose : Purposes \cup {"none"}, user : 0..users]]
         /\ \A c \in Challenges : challenges'[c] \in {challenges[c], NoChallenge}
         /\ spent' \subseteq Challenges
         /\ SpentIsGone'
<1>0. /\ challenges \in [Challenges -> [purpose : Purposes \cup {"none"}, user : 0..users]]
      /\ answers \subseteq Answer /\ spent \subseteq Challenges /\ users \in Nat
      /\ SpentIsGone
  BY AccountsAssumption DEF AccountsInv, AccountsTypeOK, AccountsSafe
<1>a. a \in Answer /\ a.to \in Challenges /\ a.purpose \in Purposes
  BY <1>0 DEF Answer
<1>1. challenges' \in [Challenges -> [purpose : Purposes \cup {"none"}, user : 0..users]]
  BY <1>0 DEF Spend, NoChallenge
<1>2. \A c \in Challenges : challenges'[c] \in {challenges[c], NoChallenge}
  BY <1>0 DEF Spend
<1>3. challenges'[a.to] = NoChallenge
  <2>1. CASE challenges[a.to] = NoChallenge
    BY <2>1, <1>a, <1>2
  <2>2. CASE challenges[a.to] = [purpose |-> a.purpose,
                                 user |-> IF a.purpose = "register" THEN a.by ELSE 0]
    BY <2>2, <1>a DEF Spend
  <2> QED BY <2>1, <2>2, <1>0 DEF SpentIsGone
<1>4. spent' = spent \cup {a.to}
  BY DEF Spend
<1>5. SpentIsGone'
  <2>1. \A c \in spent' : challenges'[c] = NoChallenge
    BY <1>0, <1>2, <1>3, <1>4 DEF SpentIsGone
  <2>2. ASSUME NEW b \in answers'
        PROVE  \/ challenges'[b.to] = NoChallenge
               \/ challenges'[b.to] = [purpose |-> b.purpose,
                              user |-> IF b.purpose = "register" THEN b.by ELSE 0]
    <3>1. b \in answers /\ b.to \in Challenges
      BY <1>0 DEF Answer
    <3> QED BY <3>1, <1>0, <1>2 DEF SpentIsGone
  <2> QED BY <2>1, <2>2 DEF SpentIsGone
<1> QED BY <1>0, <1>a, <1>1, <1>2, <1>4, <1>5

LEMMA VerifiedKeeps ==
  ASSUME AccountsInv, NEW a \in answers, Verified(a)
  PROVE  AccountsInv'
<1>0. /\ answers' = answers \ {a}
      /\ UNCHANGED <<user, users, password, setupToken>>
      /\ a \in Answer /\ a.key \in Passkeys /\ a.by \in 1..MaxUsers
  BY DEF Verified, AccountsInv, AccountsTypeOK, Answer
<1>1. CASE Spend(a) /\ a.by = user /\ passkeys' = [passkeys EXCEPT ![a.key] = a.by]
             /\ UNCHANGED sessions
  BY <1>0, <1>1, SpendKeeps DEF AccountsInv, AccountsTypeOK, NoChallenge,
     AccountsSafe, NothingOutlivesItsUser, SetupIsOnce
<1>2. CASE /\ Spend(a) /\ UNCHANGED passkeys
           /\ sessions' = IF a.by = user THEN sessions \cup {a.by} ELSE sessions
  <2>1. /\ challenges' \in [Challenges -> [purpose : Purposes \cup {"none"}, user : 0..users]]
        /\ \A c \in Challenges : challenges'[c] \in {challenges[c], NoChallenge}
        /\ spent' \subseteq Challenges
        /\ SpentIsGone'
    BY <1>0, <1>2, SpendKeeps
  <2>2. sessions' \subseteq sessions \cup {user} /\ (a.by = user => user # 0)
    BY <1>0, <1>2
  <2>3. sessions' \subseteq {user} \ {0} /\ sessions' \subseteq 0..users
    BY <1>0, <1>2, <2>2 DEF AccountsInv, AccountsTypeOK, AccountsSafe, NothingOutlivesItsUser
  <2>4. AccountsTypeOK'
    BY <1>0, <1>2, <2>1, <2>3 DEF AccountsInv, AccountsTypeOK, NoChallenge
  <2>5. NothingOutlivesItsUser' /\ SetupIsOnce'
    BY <1>0, <1>2, <2>1, <2>3 DEF AccountsInv, AccountsTypeOK, AccountsSafe,
       NothingOutlivesItsUser, SetupIsOnce, NoChallenge
  <2> QED BY <2>1, <2>4, <2>5 DEF AccountsInv, AccountsSafe
<1>3. CASE UNCHANGED <<passkeys, challenges, spent, sessions>>
  BY <1>0, <1>3 DEF AccountsInv, AccountsTypeOK,
     AccountsSafe, NothingOutlivesItsUser, SpentIsGone, SetupIsOnce
<1> QED BY <1>1, <1>2, <1>3 DEF Verified

LEMMA RejectedKeeps ==
  ASSUME AccountsInv, NEW a \in answers, Rejected(a)
  PROVE  AccountsInv'
  BY DEF Rejected, AccountsInv, AccountsTypeOK,
     AccountsSafe, NothingOutlivesItsUser, SpentIsGone, SetupIsOnce

\* Whatever was read before a ceremony was verified and whatever the operator
\* wiped meanwhile: nothing belongs to a user who is gone, and no challenge is
\* used twice; for any number of users, passkeys, challenges and answers
\* underway.
THEOREM AccountsAreCorrect == AccountsSpec => []AccountsCorrect
<1>1. AccountsInv /\ [AccountsNext]_accountVars => AccountsInv'
  <2> SUFFICES ASSUME AccountsInv, [AccountsNext]_accountVars PROVE AccountsInv'
    OBVIOUS
  <2>1. CASE UNCHANGED accountVars
    BY <2>1 DEF accountVars, AccountsInv, AccountsTypeOK, AccountsSafe,
       NothingOutlivesItsUser, SpentIsGone, SetupIsOnce
  <2>2. CASE AccountsNext
    BY <2>2, UsersKeep, BeginKeeps, ChallengeExpiresKeeps, AnswerArrivesKeeps, VerifiedKeeps,
       RejectedKeeps DEF AccountsNext
  <2> QED BY <2>1, <2>2
<1>2. AccountsInv => AccountsCorrect
  BY DEF AccountsInv, AccountsCorrect
<1> QED BY <1>1, <1>2, AccountsInitially, PTL DEF AccountsSpec

-----------------------------------------------------------------------------
(* The text of a stream                                                    *)

\* A bounded set of numbers that is not empty has a largest element.
LEMMA LargestExists ==
  ASSUME NEW n \in Nat, NEW S \in SUBSET (0..n), S # {}
  PROVE  \E i \in S : \A j \in S : j <= i
<1> DEFINE T == {m \in Nat : \E i \in S : m = n - i}
<1>1. T # {} /\ T \subseteq Nat
  <2>1. PICK i \in S : TRUE
    OBVIOUS
  <2>2. n - i \in T
    OBVIOUS
  <2> QED BY <2>2
<1> HIDE DEF T
<1>2. OpToRel(<, Nat) = {ss \in Nat \X Nat : ss[1] < ss[2]}
  BY Zenon DEF OpToRel
<1>3. IsWellFoundedOn({ss \in Nat \X Nat : ss[1] < ss[2]}, Nat)
  BY <1>2, NatLessThanWellFounded, Zenon
<1>4. PICK m \in T : \A k \in T : ~ (<<k, m>> \in {ss \in Nat \X Nat : ss[1] < ss[2]})
  BY <1>1, <1>3, WFMin
<1>5. ASSUME NEW k \in T PROVE m <= k
  <2>1. k \in Nat /\ m \in Nat /\ <<k, m>> \in Nat \X Nat
    BY <1>1
  <2>2. ~ (<<k, m>>[1] < <<k, m>>[2])
    BY <1>4, <2>1
  <2> QED BY <2>1, <2>2
<1> USE DEF T
<1>6. PICK i \in S : m = n - i
  OBVIOUS
<1>7. \A j \in S : n - j \in T
  OBVIOUS
<1> QED BY <1>5, <1>6, <1>7

\* A piece of a sequence.
LEMMA PieceOf ==
  ASSUME NEW L, NEW s \in Seq(L), NEW m \in 1..(Len(s) + 1), NEW n \in (m - 1)..Len(s)
  PROVE  /\ SubSeq(s, m, n) \in Seq(L)
         /\ Len(SubSeq(s, m, n)) = n - m + 1
         /\ \A i \in 1..(n - m + 1) : SubSeq(s, m, n)[i] = s[m + i - 1]
<1>1. Len(s) \in Nat /\ \A i \in 1..Len(s) : s[i] \in L
  BY LenProperties, ElementOfSeq
<1>2. \A i \in m..n : s[i] \in L
  BY <1>1
<1>3. m \in Int /\ n \in Int /\ n - m + 1 >= 0
  BY <1>1
<1> QED BY <1>2, <1>3, SubSeqProperties

LEMMA PieceOfLength ==
  ASSUME NEW L, NEW s \in Seq(L), NEW n \in Nat \ {0}, NEW m \in 1..(Len(s) + 1 - n)
  PROVE  /\ SubSeq(s, m, m + n - 1) \in Seq(L)
         /\ Len(SubSeq(s, m, m + n - 1)) = n
         /\ \A i \in 1..n : SubSeq(s, m, m + n - 1)[i] = s[m + i - 1]
<1> SUFFICES ASSUME NEW last, last = m + n - 1
             PROVE  /\ SubSeq(s, m, last) \in Seq(L) /\ Len(SubSeq(s, m, last)) = n
                    /\ \A i \in 1..n : SubSeq(s, m, last)[i] = s[m + i - 1]
  OBVIOUS
<1>1. Len(s) \in Nat
  BY LenProperties
<1>2. m \in 1..(Len(s) + 1) /\ last \in (m - 1)..Len(s) /\ last - m + 1 = n
  BY <1>1
<1> QED BY ZenonT(60), <1>2, PieceOf

LEMMA PrefixOf ==
  ASSUME NEW L, NEW s \in Seq(L), NEW n \in 0..Len(s)
  PROVE  /\ Prefix(s, n) \in Seq(L) /\ Len(Prefix(s, n)) = n
         /\ \A i \in 1..n : Prefix(s, n)[i] = s[i]
         /\ From(s, n) \in Seq(L) /\ Len(From(s, n)) = Len(s) - n
         /\ \A i \in 1..(Len(s) - n) : From(s, n)[i] = s[n + i]
         /\ Prefix(s, n) \o From(s, n) = s
<1>1. Len(s) \in Nat
  BY LenProperties
<1>2. /\ SubSeq(s, 1, n) \in Seq(L) /\ Len(SubSeq(s, 1, n)) = n - 1 + 1
      /\ \A i \in 1..(n - 1 + 1) : SubSeq(s, 1, n)[i] = s[1 + i - 1]
  BY <1>1, PieceOf
<1>3. /\ SubSeq(s, n + 1, Len(s)) \in Seq(L) /\ Len(SubSeq(s, n + 1, Len(s))) = Len(s) - (n + 1) + 1
      /\ \A i \in 1..(Len(s) - (n + 1) + 1) : SubSeq(s, n + 1, Len(s))[i] = s[n + 1 + i - 1]
  <2>1. n + 1 \in 1..(Len(s) + 1) /\ Len(s) \in (n + 1 - 1)..Len(s)
    BY <1>1
  <2> QED BY <2>1, PieceOf
<1>4. SubSeq(s, 1, n) \o SubSeq(s, n + 1, Len(s)) = s
  <2>1. 1 \in 1..(Len(s) + 1) /\ n \in (1 - 1)..Len(s) /\ Len(s) \in n..Len(s)
    BY <1>1
  <2>2. SubSeq(s, 1, n) \o SubSeq(s, n + 1, Len(s)) = SubSeq(s, 1, Len(s))
    BY <2>1, ConcatAdjacentSubSeq
  <2> QED BY <2>2, SubSeqFull
<1>5. /\ n - 1 + 1 = n /\ Len(s) - (n + 1) + 1 = Len(s) - n
      /\ \A i \in Nat : 1 + i - 1 = i /\ n + 1 + i - 1 = n + i
  BY <1>1
<1>6. \A i \in 1..n : SubSeq(s, 1, n)[i] = s[i]
  BY <1>2, <1>5
<1>7. ASSUME NEW i \in 1..(Len(s) - n) PROVE SubSeq(s, n + 1, Len(s))[i] = s[n + i]
  <2>1. i \in 1..(Len(s) - (n + 1) + 1) /\ n + 1 + i - 1 = n + i
    BY <1>1
  <2>2. SubSeq(s, n + 1, Len(s))[i] = s[n + 1 + i - 1]
    BY <1>3, <2>1
  <2> QED BY <2>1, <2>2
<1>8. SubSeq(s, 1, n) \in Seq(L) /\ Len(SubSeq(s, 1, n)) = n
  BY SMTT(40), <1>2, <1>5
<1>9. SubSeq(s, n + 1, Len(s)) \in Seq(L) /\ Len(SubSeq(s, n + 1, Len(s))) = Len(s) - n
  BY <1>3, <1>5
<1> QED BY <1>4, <1>6, <1>7, <1>8, <1>9, Zenon DEF Prefix, From

\* What overlaps is no longer than the chunk.
LEMMA OverlapFits ==
  ASSUME NEW L, NEW p \in Seq(L), NEW c \in Seq(L), NEW o, o = Overlap(p, c)
  PROVE  o \in 0..Len(c)
<1> DEFINE fits == {i \in MinOverlap..Least(Len(p), Len(c)) : Suffix(p, i) = Prefix(c, i)}
<1>1. Len(p) \in Nat /\ Len(c) \in Nat
  BY LenProperties
<1>2. fits \subseteq 0..Len(c)
  BY <1>1, StreamAssumption DEF Least
<1>3. o = IF fits = {} THEN 0 ELSE CHOOSE i \in fits : \A j \in fits : j <= i
  BY DEF Overlap
<1> HIDE DEF fits
<1>4. fits # {} => \E i \in fits : \A j \in fits : j <= i
  BY <1>1, <1>2, LargestExists
<1>5. fits # {} => o \in fits
  BY <1>3, <1>4
<1>6. fits = {} => o = 0
  BY <1>3
<1>7. 0 \in 0..Len(c)
  BY <1>1
<1>8. fits # {} => o \in 0..Len(c)
  BY <1>2, <1>5
<1> QED BY <1>6, <1>7, <1>8

\* Whatever is compared with whatever: what is seen grows by what is yielded.
LEMMA NormalizeAppends ==
  ASSUME NEW L, NEW p \in Seq(L), NEW c \in Seq(L), NEW r \in {normalizeStreamTextDelta(p, c)}
  PROVE  /\ r.full \in Seq(L)
         /\ r.delta \in Seq(L)
         /\ r.full = p \o r.delta
<1>1. CASE StartsWith(c, p)
  <2>1. Len(p) \in 0..Len(c) /\ Prefix(c, Len(p)) = p
    BY <1>1, LenProperties DEF StartsWith
  <2>2. r = [full |-> c, delta |-> From(c, Len(p))]
    BY <1>1 DEF normalizeStreamTextDelta
  <2>3. From(c, Len(p)) \in Seq(L) /\ Prefix(c, Len(p)) \o From(c, Len(p)) = c
    BY <2>1, PrefixOf
  <2> QED BY <2>1, <2>2, <2>3
<1>2. CASE ~StartsWith(c, p) /\ StartsWith(p, c)
  <2>1. r = [full |-> p, delta |-> <<>>]
    BY <1>2 DEF normalizeStreamTextDelta
  <2> QED BY <2>1, ConcatEmptySeq, EmptySeq
<1>3. CASE ~StartsWith(c, p) /\ ~StartsWith(p, c)
  <2> DEFINE new == From(c, Overlap(p, c))
  <2>1. r = [full |-> p \o new, delta |-> new]
    BY <1>3 DEF normalizeStreamTextDelta
  <2>2. new \in Seq(L)
    BY OverlapFits, PrefixOf
  <2>3. p \o new \in Seq(L)
    BY <2>2, ConcatProperties
  <2> HIDE DEF new
  <2> QED BY <2>1, <2>2, <2>3
<1> QED BY <1>1, <1>2, <1>3

LEMMA EmptyPiece ==
  ASSUME NEW L, NEW s \in Seq(L), Len(s) = 0
  PROVE  s = <<>>
  BY EmptySeq

\* A snapshot of a text, early or late, makes the prefix the longer of the two.
LEMMA SnapshotAppends ==
  ASSUME NEW L, NEW s \in Seq(L), NEW m \in 0..Len(s), NEW n \in 1..Len(s),
         NEW r \in {normalizeStreamTextDelta(Prefix(s, m), Prefix(s, n))}
  PROVE  r.full = Prefix(s, IF n > m THEN n ELSE m)
<1> DEFINE p == Prefix(s, m)
           c == Prefix(s, n)
<1>1. /\ Len(s) \in Nat /\ m \in Nat /\ n \in Nat
      /\ p \in Seq(L) /\ Len(p) = m /\ \A i \in 1..m : p[i] = s[i]
      /\ c \in Seq(L) /\ Len(c) = n /\ \A i \in 1..n : c[i] = s[i]
  <2>1. Len(s) \in Nat
    BY LenProperties
  <2>2. m \in 0..Len(s) /\ n \in 0..Len(s) /\ m \in Nat /\ n \in Nat
    BY <2>1
  <2>3. p \in Seq(L) /\ Len(p) = m /\ \A i \in 1..m : p[i] = s[i]
    BY <2>2, PrefixOf
  <2>4. c \in Seq(L) /\ Len(c) = n /\ \A i \in 1..n : c[i] = s[i]
    BY <2>2, PrefixOf
  <2> QED BY <2>1, <2>2, <2>3, <2>4
<1> HIDE DEF p, c
<1>2. CASE n >= m
  <2>1. /\ Prefix(c, m) \in Seq(L) /\ Len(Prefix(c, m)) = m
        /\ \A i \in 1..m : Prefix(c, m)[i] = c[i]
    <3>1. c \in Seq(L) /\ m \in 0..Len(c)
      BY <1>1, <1>2
    <3> QED BY <3>1, PrefixOf
  <2>2. \A i \in 1..m : Prefix(c, m)[i] = p[i]
    BY <1>1, <1>2, <2>1
  <2>3. Prefix(c, m) = p
    BY <1>1, <2>1, <2>2, SeqEqual
  <2>4. StartsWith(c, p)
    BY <1>1, <1>2, <2>3 DEF StartsWith
  <2>5. r = [full |-> c, delta |-> From(c, Len(p))]
    BY <2>4 DEF normalizeStreamTextDelta, p, c
  <2>6. r.full = c
    BY <2>5
  <2>7. (IF n > m THEN n ELSE m) = n
    BY <1>1, <1>2
  <2> QED BY <2>6, <2>7 DEF c
<1>3. CASE n < m
  <2>1. /\ Prefix(p, n) \in Seq(L) /\ Len(Prefix(p, n)) = n
        /\ \A i \in 1..n : Prefix(p, n)[i] = p[i]
    <3>1. p \in Seq(L) /\ n \in 0..Len(p)
      BY <1>1, <1>3
    <3> QED BY <3>1, PrefixOf
  <2>2. \A i \in 1..n : Prefix(p, n)[i] = c[i]
    BY <1>1, <1>3, <2>1
  <2>3. Prefix(p, n) = c
    BY <1>1, <2>1, <2>2, SeqEqual
  <2>4. StartsWith(p, c) /\ ~StartsWith(c, p)
    BY <1>1, <1>3, <2>3 DEF StartsWith
  <2>5. r = [full |-> p, delta |-> <<>>]
    BY <2>4 DEF normalizeStreamTextDelta, p, c
  <2>6. r.full = p
    BY <2>5
  <2>7. (IF n > m THEN n ELSE m) = m
    BY <1>1, <1>3
  <2> QED BY <2>6, <2>7 DEF p
<1> QED BY <1>1, <1>2, <1>3

\* The next piece of a text that does not repeat itself is appended whole.
LEMMA DeltaAppends ==
  ASSUME NEW L, NEW s \in Seq(L), Unrepetitive(s),
         NEW m \in 0..Len(s), NEW n \in (m + 1)..Len(s),
         NEW r \in {normalizeStreamTextDelta(Prefix(s, m), SubSeq(s, m + 1, n))}
  PROVE  r.full = Prefix(s, n)
<1> DEFINE p == Prefix(s, m)
           c == SubSeq(s, m + 1, n)
<1>0. Len(s) \in Nat /\ m \in Nat /\ n \in Nat /\ MinOverlap \in Nat \ {0}
  BY LenProperties, StreamAssumption
<1>1. p \in Seq(L) /\ Len(p) = m /\ \A i \in 1..m : p[i] = s[i]
  BY <1>0, PrefixOf
<1>2. c \in Seq(L) /\ Len(c) = n - m /\ \A i \in 1..(n - m) : c[i] = s[m + i]
  <2>1. m + 1 \in 1..(Len(s) + 1) /\ n \in (m + 1 - 1)..Len(s) /\ n - (m + 1) + 1 = n - m
    BY <1>0
  <2>2. /\ c \in Seq(L) /\ Len(c) = n - (m + 1) + 1
        /\ \A i \in 1..(n - (m + 1) + 1) : c[i] = s[m + 1 + i - 1]
    BY <2>1, PieceOf
  <2>3. ASSUME NEW i \in 1..(n - m) PROVE c[i] = s[m + i]
    <3>1. i \in 1..(n - (m + 1) + 1) /\ m + 1 + i - 1 = m + i
      BY <1>0
    <3>2. c[i] = s[m + 1 + i - 1]
      BY <2>2, <3>1
    <3> QED BY <3>1, <3>2
  <2> QED BY <2>1, <2>2, <2>3
<1>3. p \o c = Prefix(s, n)
  <2>1. 1 \in 1..(Len(s) + 1) /\ m \in (1 - 1)..Len(s) /\ n \in m..Len(s)
    BY <1>0
  <2> QED BY <2>1, ConcatAdjacentSubSeq DEF Prefix
<1>4. r = normalizeStreamTextDelta(p, c)
  OBVIOUS
<1> HIDE DEF p, c
<1>5. CASE m = 0
  <2>1. p = <<>>
    BY <1>1, <1>5, EmptyPiece
  <2>2. Prefix(c, 0) \in Seq(L) /\ Len(Prefix(c, 0)) = 0
    <3>1. c \in Seq(L) /\ 0 \in 0..Len(c)
      BY <1>0, <1>2
    <3> QED BY <3>1, PrefixOf
  <2>3. Prefix(c, Len(p)) = p
    BY <1>1, <1>5, <2>1, <2>2, EmptyPiece
  <2>4. StartsWith(c, p)
    BY <1>0, <1>1, <1>2, <1>5, <2>3 DEF StartsWith
  <2>5. r = [full |-> c, delta |-> From(c, Len(p))]
    BY <1>4, <2>4 DEF normalizeStreamTextDelta
  <2>6. p \o c = c
    BY <1>2, <2>1, ConcatEmptySeq
  <2> QED BY <1>3, <2>5, <2>6
<1>6. CASE m > 0
  <2>1. s[m + 1] # s[1]
    BY <1>0, <1>6 DEF Unrepetitive
  <2>2. p[1] = s[1] /\ c[1] = s[m + 1]
    BY <1>0, <1>1, <1>2, <1>6
  <2>3. ~StartsWith(c, p)
    <3> SUFFICES ASSUME StartsWith(c, p) PROVE FALSE
      OBVIOUS
    <3>1. m <= n - m /\ Prefix(c, m) = p
      BY <1>1, <1>2 DEF StartsWith
    <3>2. Prefix(c, m)[1] = c[1]
      <4>1. m \in 0..Len(c) /\ 1 \in 1..m
        BY <1>0, <1>2, <1>6, <3>1
      <4> QED BY <1>2, <4>1, PrefixOf
    <3> QED BY <2>1, <2>2, <3>1, <3>2
  <2>4. ~StartsWith(p, c)
    <3> SUFFICES ASSUME StartsWith(p, c) PROVE FALSE
      OBVIOUS
    <3>1. n - m <= m /\ Prefix(p, n - m) = c
      BY <1>1, <1>2 DEF StartsWith
    <3>2. Prefix(p, n - m)[1] = p[1]
      <4>1. n - m \in 0..Len(p) /\ 1 \in 1..(n - m)
        BY <1>0, <1>1, <1>6, <3>1
      <4> QED BY <1>1, <4>1, PrefixOf
    <3> QED BY <2>1, <2>2, <3>1, <3>2
  <2>5. ASSUME NEW i \in MinOverlap..Least(m, n - m), Suffix(p, i) = Prefix(c, i)
        PROVE  FALSE
    <3> DEFINE a == m - i + 1
               b == m + 1
    <3>1. /\ i \in Nat /\ MinOverlap <= i /\ i <= m /\ i <= n - m /\ i > 0
          /\ a \in 1..(Len(s) + 1 - MinOverlap) /\ b \in 1..(Len(s) + 1 - MinOverlap) /\ a # b
      BY <1>0 DEF Least
    <3>2. ASSUME NEW k \in 1..i PROVE s[m - i + k] = s[m + k]
      <4>1. From(p, m - i)[k] = p[m - i + k]
        <5>1. m - i \in 0..Len(p) /\ k \in 1..(Len(p) - (m - i))
          BY <1>0, <1>1, <3>1
        <5> QED BY <1>1, <5>1, PrefixOf
      <4>2. p[m - i + k] = s[m - i + k]
        BY <1>0, <1>1, <3>1
      <4>3. Prefix(c, i)[k] = c[k]
        <5>1. i \in 0..Len(c)
          BY <1>0, <1>2, <3>1
        <5> QED BY <1>2, <5>1, PrefixOf
      <4>4. c[k] = s[m + k]
        BY <1>0, <1>2, <3>1
      <4>5. From(p, m - i) = Prefix(c, i)
        BY <1>1, <2>5 DEF Suffix
      <4> QED BY <4>1, <4>2, <4>3, <4>4, <4>5
    <3>3. /\ SubSeq(s, a, a + MinOverlap - 1) \in Seq(L)
          /\ Len(SubSeq(s, a, a + MinOverlap - 1)) = MinOverlap
          /\ \A k \in 1..MinOverlap : SubSeq(s, a, a + MinOverlap - 1)[k] = s[a + k - 1]
      BY <1>0, <3>1, PieceOfLength
    <3>4. /\ SubSeq(s, b, b + MinOverlap - 1) \in Seq(L)
          /\ Len(SubSeq(s, b, b + MinOverlap - 1)) = MinOverlap
          /\ \A k \in 1..MinOverlap : SubSeq(s, b, b + MinOverlap - 1)[k] = s[b + k - 1]
      BY <1>0, <3>1, PieceOfLength
    <3>5. /\ \A k \in Nat : a + k - 1 = m - i + k /\ b + k - 1 = m + k
      BY <1>0, <3>1
    <3> HIDE DEF a, b
    <3>6. ASSUME NEW k \in 1..MinOverlap
          PROVE  SubSeq(s, a, a + MinOverlap - 1)[k] = SubSeq(s, b, b + MinOverlap - 1)[k]
      <4>1. k \in 1..i /\ k \in Nat
        BY <1>0, <3>1
      <4>2. SubSeq(s, a, a + MinOverlap - 1)[k] = s[m - i + k]
        BY <3>3, <3>5, <4>1
      <4>3. SubSeq(s, b, b + MinOverlap - 1)[k] = s[m + k]
        BY <3>4, <3>5, <4>1
      <4> QED BY <3>2, <4>1, <4>2, <4>3
    <3>7. SubSeq(s, a, a + MinOverlap - 1) = SubSeq(s, b, b + MinOverlap - 1)
      <4>1. /\ SubSeq(s, a, a + MinOverlap - 1) \in Seq(L)
            /\ SubSeq(s, b, b + MinOverlap - 1) \in Seq(L)
            /\ Len(SubSeq(s, a, a + MinOverlap - 1)) = MinOverlap
            /\ Len(SubSeq(s, b, b + MinOverlap - 1)) = MinOverlap
        BY <3>3, <3>4, <3>5
      <4> QED BY <3>6, <4>1, SeqEqual
    <3> QED BY <3>1, <3>7 DEF Unrepetitive
  <2>6. {i \in MinOverlap..Least(Len(p), Len(c)) : Suffix(p, i) = Prefix(c, i)} = {}
    BY <1>1, <1>2, <2>5
  <2>7. Overlap(p, c) = 0
    BY <2>6, Zenon DEF Overlap
  <2>8. From(c, Overlap(p, c)) = c
    <3>1. 0 + 1 = 1
      OBVIOUS
    <3>2. From(c, 0) = SubSeq(c, 1, Len(c))
      BY <3>1 DEF From
    <3> QED BY <1>2, <2>7, <3>2, SubSeqFull
  <2>9. r = [full |-> p \o From(c, Overlap(p, c)), delta |-> From(c, Overlap(p, c))]
    BY <1>4, <2>3, <2>4 DEF normalizeStreamTextDelta
  <2> QED BY <1>3, <2>8, <2>9
<1> QED BY <1>0, <1>5, <1>6

\* A sequence made of two: its halves are those two.
LEMMA Halves ==
  ASSUME NEW L, NEW p \in Seq(L), NEW c \in Seq(L), NEW s, s = p \o c
  PROVE  /\ s \in Seq(L) /\ Len(s) = Len(p) + Len(c) /\ Len(p) \in 0..Len(s)
         /\ Prefix(s, Len(p)) = p /\ SubSeq(s, Len(p) + 1, Len(s)) = c
<1>1. PICK m \in Nat, k \in Nat : m = Len(p) /\ k = Len(c)
  BY LenProperties
<1>2. s \in Seq(L) /\ Len(s) = m + k /\ \A i \in 1..(m + k) : s[i] = IF i <= m THEN p[i] ELSE c[i - m]
  BY <1>1, ConcatProperties
<1>3. m \in 0..Len(s) /\ Len(s) - m = k
  BY <1>1, <1>2
<1>4. /\ Prefix(s, m) \in Seq(L) /\ Len(Prefix(s, m)) = m /\ \A i \in 1..m : Prefix(s, m)[i] = s[i]
      /\ From(s, m) \in Seq(L) /\ Len(From(s, m)) = k /\ \A i \in 1..k : From(s, m)[i] = s[m + i]
  BY <1>2, <1>3, PrefixOf
<1>5. \A i \in 1..m : s[i] = p[i]
  BY <1>1, <1>2
<1>6. ASSUME NEW i \in 1..k PROVE s[m + i] = c[i]
  <2>1. m + i \in 1..(m + k) /\ ~(m + i <= m) /\ m + i - m = i
    BY <1>1
  <2>2. s[m + i] = c[m + i - m]
    BY SMTT(40), <1>2, <2>1
  <2> QED BY <2>1, <2>2
<1>7. Prefix(s, m) = p
  BY <1>1, <1>4, <1>5, SeqEqual
<1>8. From(s, m) = c
  BY <1>1, <1>4, <1>6, SeqEqual
<1> QED BY <1>1, <1>2, <1>3, <1>7, <1>8 DEF From

\* What begins a text that does not repeat itself does not repeat itself.
LEMMA UnrepetitiveBegins ==
  ASSUME NEW L, NEW p \in Seq(L), NEW c \in Seq(L), NEW s, s = p \o c, Unrepetitive(s)
  PROVE  Unrepetitive(p)
<1>1. PICK m \in Nat, k \in Nat : m = Len(p) /\ k = Len(c) /\ Len(s) = m + k
  BY LenProperties, Halves
<1>2. s \in Seq(L) /\ \A i \in 1..m : p[i] = s[i]
  BY <1>1, ConcatProperties
<1>3. \A i \in 2..Len(p) : p[i] # p[1]
  <2>1. ASSUME NEW i \in 2..m PROVE p[i] # p[1]
    <3>1. i \in 2..Len(s) /\ i \in 1..m /\ 1 \in 1..m
      BY <1>1
    <3>2. s[i] # s[1]
      BY <3>1 DEF Unrepetitive
    <3> QED BY <1>2, <3>1, <3>2
  <2> QED BY <1>1, <2>1
<1>4. ASSUME NEW i \in 1..(Len(p) + 1 - MinOverlap)
      PROVE  i \in 1..(Len(s) + 1 - MinOverlap) /\ SubSeq(p, i, i + MinOverlap - 1) = SubSeq(s, i, i + MinOverlap - 1)
  <2>0. MinOverlap \in Nat \ {0}
    BY StreamAssumption
  <2>1. i \in 1..(Len(s) + 1 - MinOverlap) /\ i \in Nat
    BY <1>1, <2>0
  <2>2. /\ SubSeq(p, i, i + MinOverlap - 1) \in Seq(L) /\ Len(SubSeq(p, i, i + MinOverlap - 1)) = MinOverlap
        /\ \A j \in 1..MinOverlap : SubSeq(p, i, i + MinOverlap - 1)[j] = p[i + j - 1]
    BY <2>0, PieceOfLength
  <2>3. /\ SubSeq(s, i, i + MinOverlap - 1) \in Seq(L) /\ Len(SubSeq(s, i, i + MinOverlap - 1)) = MinOverlap
        /\ \A j \in 1..MinOverlap : SubSeq(s, i, i + MinOverlap - 1)[j] = s[i + j - 1]
    BY <1>2, <2>0, <2>1, PieceOfLength
  <2>4. \A j \in 1..MinOverlap : i + j - 1 \in 1..m
    BY <1>1, <2>0
  <2>5. \A j \in 1..MinOverlap : SubSeq(p, i, i + MinOverlap - 1)[j] = SubSeq(s, i, i + MinOverlap - 1)[j]
    BY <1>2, <2>2, <2>3, <2>4
  <2>6. SubSeq(p, i, i + MinOverlap - 1) = SubSeq(s, i, i + MinOverlap - 1)
    BY <2>2, <2>3, <2>5, SeqEqual
  <2> QED BY <2>1, <2>6
<1>5. \A i, j \in 1..(Len(p) + 1 - MinOverlap) :
        i # j => SubSeq(p, i, i + MinOverlap - 1) # SubSeq(p, j, j + MinOverlap - 1)
  BY <1>4 DEF Unrepetitive
<1> QED BY <1>3, <1>5 DEF Unrepetitive

StreamInv == StreamTypeOK /\ StreamCorrect

\* The nodes a writer writes from are attributed to it.
LEMMA SourceIsWriter ==
  ASSUME StreamTypeOK, NEW w \in Writers, working = w, NEW node \in NodesOf(w)
  PROVE  resolveChunkStreamSource(node, sub) = w
<1>1. CASE w = "main"
  BY <1>1 DEF NodesOf, resolveChunkStreamSource
<1>2. CASE w = "helper"
  <2>1. sub = "helper" /\ node \in {"agent", "helper"}
    BY <1>2 DEF StreamTypeOK, NodesOf
  <2> QED BY <1>2, <2>1 DEF resolveChunkStreamSource
<1> QED BY <1>1, <1>2 DEF Writers

\* What a writer has said, and what of its message is sent.
LEMMA SaidIs ==
  ASSUME StreamTypeOK, NEW w \in Writers
  PROVE  /\ text[w] \in Seq(Symbols) /\ Len(text[w]) \in Nat /\ sent[w] \in 0..Len(text[w])
         /\ before[w] \in Seq(Symbols) /\ Prefix(text[w], sent[w]) \in Seq(Symbols) /\ Said(w) \in Seq(Symbols)
<1>1. text[w] \in Seq(Symbols) /\ Len(text[w]) \in Nat /\ sent[w] \in 0..Len(text[w]) /\ before[w] \in Seq(Symbols)
  BY StreamAssumption, LenProperties DEF StreamTypeOK
<1>2. Prefix(text[w], sent[w]) \in Seq(Symbols)
  BY <1>1, PrefixOf
<1> QED BY <1>1, <1>2, ConcatProperties DEF Said

\* A chunk of writer w, after which n letters of its message are sent, and t is said.
LEMMA ReceiveKeeps ==
  ASSUME StreamInv, NEW w \in Writers, working = w, NEW node \in NodesOf(w),
         NEW c \in Seq(Symbols), Receive(node, c),
         NEW n \in 0..Len(text[w]), sent' = [sent EXCEPT ![w] = n],
         UNCHANGED <<style, text, before, over, working>>,
         NEW t, t = before[w] \o Prefix(text[w], n),
         NEW r \in {normalizeStreamTextDelta(seen[w], c)},
         style = "snapshot" /\ before[w] = <<>> => r.full = t,
         style = "delta" /\ Unrepetitive(t) => r.full = t
  PROVE  StreamInv'
<1>1. resolveChunkStreamSource(node, sub) = w
  BY SourceIsWriter DEF StreamInv
<1>2. /\ sub' = IF w = "main" /\ node = "orchestrator" THEN "none" ELSE sub
      /\ seen' = [seen EXCEPT ![w] = r.full]
      /\ out' = [out EXCEPT ![w] = out[w] \o r.delta]
  BY <1>1 DEF Receive
<1>3. /\ text \in [Writers -> Texts] /\ sent \in [Writers -> Nat]
      /\ seen \in [Writers -> Seq(Symbols)] /\ out \in [Writers -> Seq(Symbols)]
      /\ seen[w] = out[w] /\ seen[w] \in Seq(Symbols)
  BY DEF StreamInv, StreamTypeOK, StreamCorrect, SeenIsRendered
<1>4. r.full \in Seq(Symbols) /\ r.full = seen[w] \o r.delta
  <2> DEFINE p == seen[w]
  <2>1. p \in Seq(Symbols) /\ r \in {normalizeStreamTextDelta(p, c)}
    BY <1>3
  <2> HIDE DEF p
  <2>2. r.full \in Seq(Symbols) /\ r.full = p \o r.delta
    BY <2>1, NormalizeAppends, ZenonT(60)
  <2> QED BY <2>2 DEF p
<1>5. /\ seen' = [seen EXCEPT ![w] = r.full]
      /\ out' = [out EXCEPT ![w] = r.full]
  BY <1>2, <1>3, <1>4
<1>6. text[w] \in Seq(Symbols) /\ Len(text[w]) \in Nat
  BY SaidIs DEF StreamInv
<1>7. StreamTypeOK'
  <2>1. sent' \in [Writers -> Nat] /\ \A v \in Writers : sent'[v] <= Len(text'[v])
    BY <1>3, <1>6 DEF StreamInv, StreamTypeOK
  <2>2. seen' \in [Writers -> Seq(Symbols)] /\ out' \in [Writers -> Seq(Symbols)]
    BY <1>3, <1>4, <1>5
  <2>3. sub' \in {"none", "helper"} /\ (working' = "helper" => sub' = "helper")
    BY <1>2 DEF StreamInv, StreamTypeOK
  <2> QED BY <2>1, <2>2, <2>3 DEF StreamInv, StreamTypeOK
<1>8. SeenIsRendered'
  BY <1>3, <1>5 DEF StreamInv, StreamCorrect, SeenIsRendered
<1>9. ASSUME NEW v \in Writers
      PROVE  /\ before'[v] = before[v]
             /\ v = w => out'[v] = r.full /\ Said(v)' = t
             /\ v # w => out'[v] = out[v] /\ Said(v)' = Said(v)
  BY <1>3, <1>5 DEF Said
<1>10. SnapshotsExact'
  BY <1>9 DEF StreamInv, StreamCorrect, SnapshotsExact
<1>11. DeltasExact'
  BY <1>9 DEF StreamInv, StreamCorrect, DeltasExact
<1> QED BY <1>7, <1>8, <1>10, <1>11 DEF StreamInv, StreamCorrect

LEMMA ModelWritesKeeps ==
  ASSUME StreamInv, NEW w \in Writers, ModelWrites(w)
  PROVE  StreamInv'
<1>0. working = w /\ UNCHANGED <<style, text, before, over, working>>
  BY DEF ModelWrites
<1>1. PICK n \in 1..Len(text[w]) : Delta(w, n) \/ Snapshot(w, n)
  BY DEF ModelWrites
<1>2. /\ text[w] \in Seq(Symbols) /\ Len(text[w]) \in Nat /\ sent[w] \in 0..Len(text[w])
      /\ before[w] \in Seq(Symbols) /\ Prefix(text[w], sent[w]) \in Seq(Symbols) /\ Said(w) \in Seq(Symbols)
      /\ seen[w] = out[w]
  BY SaidIs DEF StreamInv, StreamCorrect, SeenIsRendered
<1>3. CASE Delta(w, n)
  <2> DEFINE c == SubSeq(text[w], sent[w] + 1, n)
             r == normalizeStreamTextDelta(seen[w], c)
             t == before[w] \o Prefix(text[w], n)
  <2>1. style = "delta" /\ n > sent[w] /\ sent' = [sent EXCEPT ![w] = n]
    BY <1>3 DEF Delta
  <2>2. PICK node \in NodesOf(w) : Receive(node, c)
    BY <1>3 DEF Delta
  <2>3. n \in (sent[w] + 1)..Len(text[w]) /\ n \in 0..Len(text[w])
        /\ sent[w] + 1 \in 1..(Len(text[w]) + 1) /\ n \in (sent[w] + 1 - 1)..Len(text[w])
    BY <1>2, <2>1
  <2>4. c \in Seq(Symbols) /\ Len(c) = n - (sent[w] + 1) + 1
    BY <1>2, <2>3, PieceOf
  <2>5. t = Said(w) \o c
    <3>1. Prefix(text[w], sent[w]) \o c = Prefix(text[w], n)
      <4>1. 1 \in 1..(Len(text[w]) + 1) /\ sent[w] \in (1 - 1)..Len(text[w]) /\ n \in sent[w]..Len(text[w])
        BY <1>2, <2>3
      <4> QED BY <1>2, <4>1, ConcatAdjacentSubSeq DEF Prefix
    <3> DEFINE pre == Prefix(text[w], sent[w])
    <3>2. before[w] \in Seq(Symbols) /\ pre \in Seq(Symbols) /\ Said(w) = before[w] \o pre
      BY <1>2 DEF Said
    <3>3. t = before[w] \o (pre \o c)
      BY <3>1
    <3> HIDE DEF c, pre, t
    <3>4. (before[w] \o pre) \o c = before[w] \o (pre \o c)
      <4>1. \A a, b, d \in Seq(Symbols) : (a \o b) \o d = a \o (b \o d)
        <5> SUFFICES ASSUME NEW a \in Seq(Symbols), NEW b \in Seq(Symbols), NEW d \in Seq(Symbols)
                     PROVE  (a \o b) \o d = a \o (b \o d)
          OBVIOUS
        <5> QED BY ConcatAssociative, SMTT(20)
      <4>2. before[w] \in Seq(Symbols) /\ pre \in Seq(Symbols) /\ c \in Seq(Symbols)
        BY <2>4, <3>2
      <4> QED BY <4>1, <4>2, Zenon
    <3> QED BY <3>2, <3>3, <3>4
  <2>6. Unrepetitive(t) => r.full = t
    <3> SUFFICES ASSUME Unrepetitive(t) PROVE r.full = t
      OBVIOUS
    <3> HIDE DEF c, t
    <3>0. /\ t \in Seq(Symbols) /\ Len(t) = Len(Said(w)) + Len(c) /\ Len(Said(w)) \in 0..Len(t)
          /\ Prefix(t, Len(Said(w))) = Said(w) /\ SubSeq(t, Len(Said(w)) + 1, Len(t)) = c
      <4>1. \A p, d \in Seq(Symbols) : \A q :
              q = p \o d => /\ q \in Seq(Symbols) /\ Len(q) = Len(p) + Len(d) /\ Len(p) \in 0..Len(q)
                            /\ Prefix(q, Len(p)) = p /\ SubSeq(q, Len(p) + 1, Len(q)) = d
        BY Halves, Zenon
      <4>2. Said(w) \in Seq(Symbols) /\ c \in Seq(Symbols) /\ t = Said(w) \o c
        BY <1>2, <2>4, <2>5
      <4> QED BY <4>1, <4>2, Zenon
    <3>1. PICK m, k : /\ m = Len(Said(w)) /\ k = Len(t) /\ m \in Nat /\ k \in Nat
      BY <1>2, <3>0, LenProperties
    <3>2. m \in 0..Len(t) /\ k \in (m + 1)..Len(t)
      <4>1. Len(c) \in Nat \ {0}
        BY <1>2, <2>3, <2>4
      <4>2. k = m + Len(c)
        BY <3>0, <3>1
      <4> QED BY <3>1, <4>1, <4>2
    <3>3. seen[w] = Prefix(t, m)
      <4>1. Unrepetitive(Said(w))
        BY <1>2, <2>4, <2>5, UnrepetitiveBegins
      <4>2. out[w] = Said(w)
        BY <2>1, <4>1 DEF StreamInv, StreamCorrect, DeltasExact
      <4> QED BY <1>2, <3>0, <3>1, <4>2
    <3>4. r \in {normalizeStreamTextDelta(Prefix(t, m), SubSeq(t, m + 1, k))}
      BY <3>0, <3>1, <3>3
    <3> HIDE DEF r
    <3>5. r.full = Prefix(t, k)
      BY <3>0, <3>1, <3>2, <3>4, DeltaAppends
    <3>6. Prefix(t, k) = t
      BY <3>0, <3>1, SubSeqFull DEF Prefix
    <3> QED BY <3>5, <3>6
  <2> HIDE DEF c, r, t
  <2>7. r \in {normalizeStreamTextDelta(seen[w], c)} /\ t = before[w] \o Prefix(text[w], n) /\ style # "snapshot"
    BY <2>1 DEF r, t
  <2> QED BY <1>0, <2>1, <2>2, <2>3, <2>4, <2>6, <2>7, ReceiveKeeps
<1>4. CASE Snapshot(w, n)
  <2> DEFINE c == Prefix(text[w], n)
             r == normalizeStreamTextDelta(seen[w], c)
             m == IF n > sent[w] THEN n ELSE sent[w]
             t == before[w] \o Prefix(text[w], m)
  <2>1. style = "snapshot" /\ sent' = [sent EXCEPT ![w] = m]
    BY <1>4 DEF Snapshot
  <2>2. PICK node \in NodesOf(w) : Receive(node, c)
    BY <1>4 DEF Snapshot
  <2>3. n \in 0..Len(text[w]) /\ m \in 0..Len(text[w])
    BY <1>2
  <2>4. c \in Seq(Symbols)
    BY <1>2, <2>3, PrefixOf
  <2>5. before[w] = <<>> => r.full = t
    <3> SUFFICES ASSUME before[w] = <<>> PROVE r.full = t
      OBVIOUS
    <3>1. out[w] = Said(w)
      BY <2>1 DEF StreamInv, StreamCorrect, SnapshotsExact
    <3>2. Said(w) = Prefix(text[w], sent[w])
      BY <1>2, ConcatEmptySeq DEF Said
    <3>3. seen[w] = Prefix(text[w], sent[w])
      BY <1>2, <3>1, <3>2
    <3>4. r.full = Prefix(text[w], m)
      BY <1>2, <3>3, SnapshotAppends
    <3>5. t = Prefix(text[w], m)
      <4>1. Prefix(text[w], m) \in Seq(Symbols)
        BY <1>2, <2>3, PrefixOf
      <4> QED BY <4>1, ConcatEmptySeq
    <3> QED BY <3>4, <3>5
  <2> HIDE DEF c, r, t
  <2>6. t = before[w] \o Prefix(text[w], m) /\ style # "delta"
    BY <2>1 DEF t
  <2> HIDE DEF m
  <2>7. r \in {normalizeStreamTextDelta(seen[w], c)}
    BY DEF r
  <2> QED BY <1>0, <2>1, <2>2, <2>3, <2>4, <2>5, <2>6, <2>7, ReceiveKeeps
<1> QED BY <1>1, <1>3, <1>4

\* A model call that is over: what is said stays said, and the next message begins.
LEMMA ModelCallEndsKeeps ==
  ASSUME StreamInv, ModelCallEnds, UNCHANGED <<style, seen, out>>,
         working' \in Writers, sub' \in {"none", "helper"}, working' = "helper" => sub' = "helper"
  PROVE  StreamInv'
<1>1. PICK s \in Texts : text' = [text EXCEPT ![working] = s]
  BY DEF ModelCallEnds
<1>2. /\ working \in Writers /\ over' = over + 1 /\ over \in Nat
      /\ before' = [before EXCEPT ![working] = Said(working)]
      /\ sent' = [sent EXCEPT ![working] = 0]
      /\ text \in [Writers -> Texts] /\ sent \in [Writers -> Nat] /\ before \in [Writers -> Seq(Symbols)]
  BY DEF ModelCallEnds, StreamInv, StreamTypeOK
<1>3. s \in Seq(Symbols) /\ Len(s) \in Nat /\ Prefix(s, 0) = <<>>
  <2>1. s \in Seq(Symbols) /\ Len(s) \in Nat
    BY StreamAssumption, LenProperties
  <2>2. Prefix(s, 0) \in Seq(Symbols) /\ Len(Prefix(s, 0)) = 0
    BY <2>1, PrefixOf
  <2> QED BY <2>1, <2>2, EmptyPiece
<1>4. ASSUME NEW w \in Writers
      PROVE  /\ Said(w)' = Said(w) /\ sent'[w] <= Len(text'[w]) /\ Said(w) \in Seq(Symbols)
             /\ before'[w] = <<>> => before[w] = <<>>
  <2>1. /\ Said(w) \in Seq(Symbols) /\ before[w] \in Seq(Symbols) /\ Prefix(text[w], sent[w]) \in Seq(Symbols)
        /\ sent[w] \in 0..Len(text[w])
    BY SaidIs DEF StreamInv
  <2>2. CASE w = working
    <3>1. before'[w] = Said(w) /\ sent'[w] = 0 /\ text'[w] = s
      BY <1>1, <1>2, <2>2
    <3>2. Said(w)' = Said(w) \o <<>>
      BY <1>3, <3>1 DEF Said
    <3>3. Said(w) = <<>> => before[w] = <<>>
      BY <2>1, ConcatEqualIffEmpty DEF Said
    <3> QED BY <1>3, <2>1, <3>1, <3>2, <3>3, ConcatEmptySeq
  <2>3. CASE w # working
    <3>1. before'[w] = before[w] /\ sent'[w] = sent[w] /\ text'[w] = text[w]
      BY <1>1, <1>2, <2>3
    <3> QED BY <2>1, <3>1 DEF Said
  <2> QED BY <2>2, <2>3
<1>5. StreamTypeOK'
  <2>1. Said(working) \in Seq(Symbols)
    BY <1>2, <1>4
  <2>2. before' \in [Writers -> Seq(Symbols)] /\ sent' \in [Writers -> Nat] /\ text' \in [Writers -> Texts]
    BY <1>1, <1>2, <2>1
  <2> QED BY <1>2, <1>4, <2>2 DEF StreamInv, StreamTypeOK
<1>6. StreamCorrect'
  BY <1>4 DEF StreamInv, StreamCorrect, SeenIsRendered, SnapshotsExact, DeltasExact
<1> QED BY <1>5, <1>6 DEF StreamInv

LEMMA StreamInitially == StreamInit => StreamInv
<1> SUFFICES ASSUME StreamInit PROVE StreamInv
  OBVIOUS
<1>1. \A w \in Writers : text[w] \in Seq(Symbols) /\ Len(text[w]) \in Nat
  BY StreamAssumption, LenProperties DEF StreamInit
<1>2. <<>> \in Seq(Symbols)
  BY EmptySeq
<1>3. \A w \in Writers : Prefix(text[w], 0) = <<>>
  <2>1. \A w \in Writers : Prefix(text[w], 0) \in Seq(Symbols) /\ Len(Prefix(text[w], 0)) = 0
    BY <1>1, PrefixOf
  <2> QED BY <2>1, EmptyPiece
<1>4. \A w \in Writers : sent[w] = 0 /\ seen[w] = <<>> /\ out[w] = <<>> /\ before[w] = <<>>
  BY DEF StreamInit
<1>5. sent \in [Writers -> Nat] /\ text \in [Writers -> Texts]
  BY DEF StreamInit
<1>6. /\ seen \in [Writers -> Seq(Symbols)] /\ out \in [Writers -> Seq(Symbols)]
      /\ before \in [Writers -> Seq(Symbols)]
  BY <1>2 DEF StreamInit
<1>7. StreamTypeOK
  BY <1>1, <1>4, <1>5, <1>6 DEF StreamInit, StreamTypeOK, Writers
<1>8. \A w \in Writers : Said(w) = <<>>
  BY <1>2, <1>3, <1>4, ConcatEmptySeq DEF Said
<1>9. StreamCorrect
  BY <1>4, <1>8 DEF StreamCorrect, SeenIsRendered, SnapshotsExact, DeltasExact
<1> QED BY <1>7, <1>9 DEF StreamInv

\* What is rendered of a stream: the snapshots of a source's first message exactly,
\* in whatever order they come, and the deltas of all its messages exactly unless
\* what it writes repeats itself; for all messages, any number of model calls, and
\* any length from which an overlap is trimmed.
THEOREM StreamIsCorrect == StreamSpec => []StreamCorrect
<1>1. StreamInv /\ [StreamNext]_streamVars => StreamInv'
  <2> SUFFICES ASSUME StreamInv, [StreamNext]_streamVars PROVE StreamInv'
    OBVIOUS
  <2>1. CASE UNCHANGED streamVars
    BY <2>1 DEF streamVars, StreamInv, StreamTypeOK, StreamCorrect, SeenIsRendered,
       SnapshotsExact, DeltasExact, Said
  <2>2. CASE ToolsRun \/ Transfer \/ StreamResumes
    <3>1. ModelCallEnds /\ UNCHANGED <<style, seen, out>>
      BY <2>2 DEF ToolsRun, Transfer, StreamResumes
    <3>2. working' \in Writers /\ sub' \in {"none", "helper"} /\ (working' = "helper" => sub' = "helper")
      BY <2>2 DEF ToolsRun, Transfer, StreamResumes, StreamInv, StreamTypeOK, Writers
    <3> QED BY <3>1, <3>2, ModelCallEndsKeeps
  <2>3. ASSUME NEW w \in Writers, ModelWrites(w) PROVE StreamInv'
    BY <2>3, ModelWritesKeeps
  <2> QED BY <2>1, <2>2, <2>3 DEF StreamNext
<1>2. StreamInv => StreamCorrect
  BY DEF StreamInv
<1> QED BY <1>1, <1>2, StreamInitially, PTL DEF StreamSpec

-----------------------------------------------------------------------------
(* Tools, from their servers to a call                                     *)

\* The smallest element of a set of numbers.
LEMMA SmallestExists ==
  ASSUME NEW S \in SUBSET Nat, S # {}
  PROVE  \E i \in S : \A j \in S : i <= j
<1>1. OpToRel(<, Nat) = {ss \in Nat \X Nat : ss[1] < ss[2]}
  BY Zenon DEF OpToRel
<1>2. IsWellFoundedOn({ss \in Nat \X Nat : ss[1] < ss[2]}, Nat)
  BY <1>1, NatLessThanWellFounded, Zenon
<1>3. PICK i \in S : \A j \in S : ~ (<<j, i>> \in {ss \in Nat \X Nat : ss[1] < ss[2]})
  BY <1>2, WFMin
<1>4. ASSUME NEW j \in S PROVE i <= j
  <2>1. i \in Nat /\ j \in Nat /\ <<j, i>> \in Nat \X Nat
    OBVIOUS
  <2>2. ~ (<<j, i>>[1] < <<j, i>>[2])
    BY <1>3, <2>1
  <2> QED BY <2>1, <2>2
<1> QED BY <1>4

LEMMA MinIs ==
  ASSUME NEW S \in SUBSET Nat, S # {}
  PROVE  Min(S) \in S /\ \A j \in S : Min(S) <= j
<1>1. \E i \in S : \A j \in S : i <= j
  BY SmallestExists
<1> QED BY <1>1 DEF Min

\* A concatenation, place by place.
LEMMA Joined ==
  ASSUME NEW S, NEW a \in Seq(S), NEW b \in Seq(S)
  PROVE  /\ a \o b \in Seq(S)
         /\ \A i \in DOMAIN a : i \in DOMAIN (a \o b) /\ (a \o b)[i] = a[i]
         /\ \A i \in DOMAIN b : Len(a) + i \in DOMAIN (a \o b) /\ (a \o b)[Len(a) + i] = b[i]
         /\ \A i \in DOMAIN (a \o b) : i \in DOMAIN a \/ (i > Len(a) /\ i - Len(a) \in DOMAIN b)
         /\ DOMAIN a = 1..Len(a) /\ Len(a) \in Nat /\ DOMAIN b = 1..Len(b) /\ Len(b) \in Nat
         /\ DOMAIN (a \o b) = 1..(Len(a) + Len(b))
OBVIOUS

\* The elements of a finite set, in some order.
LEMMA SetToSeqIs ==
  ASSUME NEW S, IsFiniteSet(S)
  PROVE  /\ SetToSeq(S) \in Seq(S)
         /\ \A x \in S : \E i \in DOMAIN SetToSeq(S) : SetToSeq(S)[i] = x
<1> DEFINE n == Cardinality(S)
           q == SetToSeq(S)
<1>1. n \in Nat /\ \E f : f \in [1..n -> S] /\ IsInjective(f)
  <2>1. n \in Nat /\ ExistsBijection(1..n, S)
    BY FS_CardinalityType
  <2>2. PICK f : f \in Bijection(1..n, S)
    BY <2>1 DEF ExistsBijection
  <2> QED BY <2>1, <2>2 DEF Bijection, Injection
<1>2. q \in [1..n -> S] /\ IsInjective(q)
  BY <1>1 DEF SetToSeq
<1>3. q \in Surjection(1..n, S)
  <2>1. Cardinality(1..n) = n
    BY <1>1, FS_Interval
  <2>2. q \in Injection(1..n, S)
    BY <1>2 DEF Injection
  <2> HIDE DEF q
  <2> QED BY <2>1, <2>2, FS_Injection
<1> QED BY <1>1, <1>2, <1>3 DEF Surjection

Entry ==
  [name : STRING, uploads : BOOLEAN, privileged : BOOLEAN, declares : SUBSET ContextArgs,
   server : Servers \cup {"router"}]
Named == [server : Servers, names : SUBSET STRING]

LEMMA ElementIs ==
  ASSUME NEW S, NEW q \in Seq(S), NEW k \in DOMAIN q
  PROVE  q[k] \in S
OBVIOUS

LEMMA NamedIs ==
  ASSUME NEW q \in Seq(Named), NEW e \in DOMAIN q
  PROVE  q[e] \in Named /\ q[e].server \in Servers /\ q[e].names \in SUBSET STRING
<1>1. q[e] \in Named
  BY ElementIs
<1> QED BY <1>1 DEF Named

LEMMA EntryIs ==
  ASSUME NEW q \in Seq(Entry), NEW i \in DOMAIN q
  PROVE  /\ q[i] \in Entry /\ q[i].name \in STRING /\ q[i].uploads \in BOOLEAN
         /\ q[i].privileged \in BOOLEAN /\ q[i].server \in Servers \cup {"router"}
<1>1. q[i] \in Entry
  BY ElementIs
<1> QED BY <1>1 DEF Entry

\* The first of a name, or 0.
LEMMA FirstNamedIs ==
  ASSUME NEW q \in Seq(Entry), NEW n
  PROVE  /\ FirstNamed(q, n) # 0 =>
              /\ FirstNamed(q, n) \in DOMAIN q /\ q[FirstNamed(q, n)].name = n
              /\ \A i \in DOMAIN q : q[i].name = n => FirstNamed(q, n) <= i
         /\ (\E i \in DOMAIN q : q[i].name = n) => FirstNamed(q, n) # 0
<1> DEFINE I == {i \in 1..Len(q) : q[i].name = n}
<1>1. FirstNamed(q, n) = IF I # {} THEN Min(I) ELSE 0
  BY DEF FirstNamed, SelectInSeq
<1>2. I \in SUBSET Nat /\ \A i \in I : i # 0
  OBVIOUS
<1>3. I # {} => Min(I) \in I /\ \A i \in I : Min(I) <= i
  <2> HIDE DEF I
  <2> QED BY <1>2, MinIs
<1>4. DOMAIN q = 1..Len(q)
  OBVIOUS
<1> QED BY <1>1, <1>2, <1>3, <1>4

LEMMA ServerEntryForIs ==
  ASSUME namesBy \in Seq(Named), NEW n, \E e \in DOMAIN namesBy : n \in namesBy[e].names
  PROVE  \E e \in DOMAIN namesBy :
           /\ n \in namesBy[e].names /\ ServerEntryFor(n) = namesBy[e].server
           /\ \A d \in DOMAIN namesBy : n \in namesBy[d].names => e <= d
<1> DEFINE I == {i \in 1..Len(namesBy) : n \in namesBy[i].names}
           at == SelectInSeq(namesBy, LAMBDA e : n \in e.names)
<1>1. at = IF I # {} THEN Min(I) ELSE 0
  BY DEF SelectInSeq
<1>2. I \in SUBSET Nat /\ I # {} /\ \A i \in I : i # 0
  OBVIOUS
<1>3. Min(I) \in I /\ \A i \in I : Min(I) <= i
  <2> HIDE DEF I
  <2> QED BY <1>2, MinIs
<1>4. ServerEntryFor(n) = IF at = 0 THEN "none" ELSE namesBy[at].server
  BY DEF ServerEntryFor
<1>5. at = Min(I) /\ at # 0 /\ at \in DOMAIN namesBy
  BY <1>1, <1>2, <1>3
<1>6. at \in I
  BY <1>3, <1>5
<1>7. n \in namesBy[at].names /\ \A d \in DOMAIN namesBy : n \in namesBy[d].names => at <= d
  <2>1. \A d \in DOMAIN namesBy : n \in namesBy[d].names => d \in I
    OBVIOUS
  <2> QED BY <1>3, <1>5, <1>6, <2>1
<1> HIDE DEF at
<1> QED BY <1>4, <1>5, <1>7

LEMMA BoundIs ==
  ASSUME NEW s \in Servers, NEW tools \in SUBSET ToolMetadata, IsFiniteSet(tools)
  PROVE  /\ Bound(s, tools) \in Seq(Entry)
         /\ \A i \in DOMAIN Bound(s, tools) :
              Bound(s, tools)[i].server = s /\ Bound(s, tools)[i].name \in NamesOf(tools)
         /\ \A n \in NamesOf(tools) : \E i \in DOMAIN Bound(s, tools) : Bound(s, tools)[i].name = n
<1> DEFINE entry(t) == [name |-> t.name, uploads |-> t.uploads, privileged |-> t.privileged,
                        declares |-> t.declares, server |-> s]
           E == {entry(t) : t \in tools}
           f == [t \in tools |-> entry(t)]
<1>1. IsFiniteSet(E)
  <2>1. f \in Surjection(tools, E)
    BY DEF Surjection
  <2> HIDE DEF f, E
  <2> QED BY <2>1, FS_Surjection
<1>2. E \subseteq Entry /\ \A e \in E : e.server = s /\ e.name \in NamesOf(tools)
  BY DEF Entry, ToolMetadata, NamesOf
<1>3. ASSUME NEW n \in NamesOf(tools) PROVE \E e \in E : e.name = n
  <2>1. PICK t \in tools : t.name = n
    BY DEF NamesOf
  <2>2. entry(t) \in E /\ entry(t).name = n
    BY <2>1
  <2> QED BY <2>2
<1>4. Bound(s, tools) = SetToSeq(E)
  BY DEF Bound
<1> HIDE DEF E
<1>5. SetToSeq(E) \in Seq(E) /\ \A x \in E : \E i \in DOMAIN SetToSeq(E) : SetToSeq(E)[i] = x
  BY <1>1, SetToSeqIs
<1>6. \A i \in DOMAIN SetToSeq(E) : SetToSeq(E)[i] \in E
  BY <1>5
<1>7. SetToSeq(E) \in Seq(Entry)
  BY <1>2, <1>5
<1> QED BY <1>2, <1>3, <1>4, <1>5, <1>6, <1>7

\* The types.
RoutingTypes ==
  /\ routing \in {"discovering", "probing", "running"}
  /\ offers \in [Servers -> SUBSET ToolMetadata] /\ metadata \in [Servers -> SUBSET ToolMetadata]
  /\ \A s \in Servers : IsFiniteSet(offers[s]) /\ IsFiniteSet(metadata[s])
  /\ asked \in [Servers -> {"connecting", "asked", "told", "failed"}]
  /\ allTools \in Seq(Entry) /\ toolRegistry \in Seq(Entry)
  /\ namesBy \in Seq(Named)
  /\ statuses \in [Servers -> [discovered : BOOLEAN, names : SUBSET STRING, healthy : {"unknown", "yes", "no"}]]
  /\ instances \in Seq(Mailboxes)

\* A list holds tools of servers that are told, and of the router once it is made.
OfTold(q, r, a) ==
  \A i \in DOMAIN q :
    IF q[i].server = "router" THEN r # "discovering"
    ELSE q[i].server \in Plains /\ a[q[i].server] = "told"

\* Two tools of a list are in the order of their servers' entries.
InOrder(q, entries) ==
  \A i, j \in DOMAIN q : i < j /\ q[i].server # q[j].server =>
    \A d, e \in DOMAIN entries :
      entries[d].server = q[i].server /\ entries[e].server = q[j].server => d < e

\* The router's are the last.
RouterLast(q) ==
  \A i, j \in DOMAIN q : q[i].server = "router" /\ q[j].server # "router" => j < i

\* A mailbox server has an entry with names only behind all the others.
EntriesFollow ==
  \A e \in DOMAIN namesBy :
    LET s == namesBy[e].server IN
    /\ asked[s] \in {"told", "failed"}
    /\ s \in Plains => namesBy[e].names = statuses[s].names
    /\ s \in Mailboxes => namesBy[e].names \subseteq statuses[s].names
    /\ s \in Mailboxes /\ namesBy[e].names # {} =>
         routing # "discovering" /\ \A d \in DOMAIN namesBy : namesBy[d].server \in Plains => d < e

\* What was told of a server is there.
ToldIsKept ==
  /\ \A s \in Plains : asked[s] = "told" =>
       /\ \E e \in DOMAIN namesBy : namesBy[e].server = s
       /\ \A n \in NamesOf(metadata[s]) : \E k \in DOMAIN toolRegistry : toolRegistry[k].server = s /\ toolRegistry[k].name = n
  /\ \A k \in DOMAIN toolRegistry :
       toolRegistry[k].server # "router" => toolRegistry[k].name \in NamesOf(metadata[toolRegistry[k].server])
  /\ \A s \in Plains : statuses[s].discovered <=> asked[s] = "told"

\* The phases.
PhasesFollow ==
  /\ \A s \in Mailboxes : asked[s] # "asked"
  /\ \A i \in DOMAIN instances : asked[instances[i]] = "told"
  /\ routing # "discovering" => \A s \in Servers : asked[s] \in {"told", "failed"}
  /\ lastCall # NoToolCall => routing = "running"

CallCorrect == OwnContext /\ OwnUploadAuth /\ ShownDefinition /\ InlineBounded /\ WithinAllowList

\* The lists are in one order, which the entries of the servers share.
RoutingInv ==
  /\ RoutingTypes
  /\ OfTold(allTools, routing, asked) /\ OfTold(toolRegistry, routing, asked)
  /\ InOrder(allTools, namesBy) /\ InOrder(toolRegistry, namesBy) /\ RouterLast(toolRegistry)
  /\ EntriesFollow /\ ToldIsKept /\ PhasesFollow
  /\ StatusTrue /\ CallCorrect

\* Both grow by what is of a new server, and by what is of the router.
LEMMA OrderGrows ==
  ASSUME NEW q \in Seq(Entry), NEW b \in Seq(Entry), NEW N \in Seq(Named), NEW x \in Named,
         \A i \in DOMAIN b : b[i].server = x.server,
         \A i \in DOMAIN q : q[i].server # x.server,
         \A e \in DOMAIN N : N[e].server # x.server,
         InOrder(q, N)
  PROVE  InOrder(q \o b, Append(N, x))
<1>1. SUFFICES ASSUME NEW i \in DOMAIN (q \o b), NEW j \in DOMAIN (q \o b), i < j,
                      (q \o b)[i].server # (q \o b)[j].server,
                      NEW d \in DOMAIN Append(N, x), NEW e \in DOMAIN Append(N, x),
                      Append(N, x)[d].server = (q \o b)[i].server,
                      Append(N, x)[e].server = (q \o b)[j].server
               PROVE  d < e
  BY DEF InOrder
<1>2. /\ DOMAIN Append(N, x) = 1..Len(N) + 1 /\ DOMAIN N = 1..Len(N) /\ Len(N) \in Nat
      /\ Append(N, x)[Len(N) + 1] = x /\ \A k \in DOMAIN N : Append(N, x)[k] = N[k]
  OBVIOUS
<1>3. /\ \A k \in DOMAIN q : (q \o b)[k] = q[k]
      /\ \A k \in DOMAIN (q \o b) : k \in DOMAIN q \/ (k > Len(q) /\ (q \o b)[k].server = x.server)
      /\ DOMAIN q = 1..Len(q) /\ Len(q) \in Nat
  <2>1. \A k \in DOMAIN (q \o b) : k > Len(q) => k - Len(q) \in DOMAIN b /\ (q \o b)[k] = b[k - Len(q)]
    OBVIOUS
  <2> QED BY <2>1, Joined
<1>4. CASE j \in DOMAIN q
  <2>1. i \in DOMAIN q
    BY <1>1, <1>3, <1>4
  <2>2. q[i].server # x.server /\ q[j].server # x.server
    BY <1>4, <2>1
  <2>3. d \in DOMAIN N /\ e \in DOMAIN N /\ N[d].server = q[i].server /\ N[e].server = q[j].server
    BY <1>1, <1>2, <1>3, <1>4, <2>1, <2>2
  <2> QED BY <1>1, <1>3, <1>4, <2>1, <2>3 DEF InOrder
<1>5. CASE j \notin DOMAIN q
  <2>1. (q \o b)[j].server = x.server
    BY <1>3, <1>5
  <2>2. e = Len(N) + 1 /\ d # e
    BY <1>1, <1>2, <2>1
  <2> QED BY <1>2, <2>2
<1> QED BY <1>4, <1>5

LEMMA OrderStays ==
  ASSUME NEW q \in Seq(Entry), NEW b \in Seq(Entry), NEW N \in Seq(Named), NEW M \in Seq(Named),
         \A i \in DOMAIN b : b[i].server = "router",
         \A i \in DOMAIN q : q[i].server \notin Mailboxes,
         \A e \in DOMAIN M : M[e].server \in Mailboxes,
         InOrder(q, N)
  PROVE  InOrder(q \o b, N \o M)
<1>1. SUFFICES ASSUME NEW i \in DOMAIN (q \o b), NEW j \in DOMAIN (q \o b), i < j,
                      (q \o b)[i].server # (q \o b)[j].server,
                      NEW d \in DOMAIN (N \o M), NEW e \in DOMAIN (N \o M),
                      (N \o M)[d].server = (q \o b)[i].server,
                      (N \o M)[e].server = (q \o b)[j].server
               PROVE  d < e
  BY DEF InOrder
<1>2. \A k \in DOMAIN (N \o M) : /\ (N \o M)[k].server # "router"
                                 /\ k \in DOMAIN N \/ (N \o M)[k].server \in Mailboxes
                                 /\ k \in DOMAIN N => (N \o M)[k] = N[k]
  <2>1. N \o M \in Seq(Named)
    OBVIOUS
  <2>2. \A k \in DOMAIN (N \o M) : (N \o M)[k] \in Named
    BY <2>1
  <2>3. \A k \in DOMAIN (N \o M) : k \in DOMAIN N \/ (k - Len(N) \in DOMAIN M /\ (N \o M)[k] = M[k - Len(N)])
    OBVIOUS
  <2>4. \A k \in DOMAIN N : (N \o M)[k] = N[k]
    OBVIOUS
  <2> QED BY <2>2, <2>3, <2>4, RoutingAssumption DEF Named
<1>3. \A k \in DOMAIN (q \o b) : IF k \in DOMAIN q THEN (q \o b)[k] = q[k] ELSE (q \o b)[k].server = "router"
  <2>1. \A k \in DOMAIN (q \o b) : k \in DOMAIN q \/ (k - Len(q) \in DOMAIN b /\ (q \o b)[k] = b[k - Len(q)])
    OBVIOUS
  <2>2. \A k \in DOMAIN q : (q \o b)[k] = q[k]
    OBVIOUS
  <2> QED BY <2>1, <2>2
<1>4. i \in DOMAIN q /\ j \in DOMAIN q
  BY <1>1, <1>2, <1>3
<1>5. d \in DOMAIN N /\ e \in DOMAIN N
  BY <1>1, <1>2, <1>3, <1>4
<1>6. /\ q[i].server # q[j].server
      /\ N[d].server = q[i].server /\ N[e].server = q[j].server
  <2>1. (q \o b)[i] = q[i] /\ (q \o b)[j] = q[j] /\ (N \o M)[d] = N[d] /\ (N \o M)[e] = N[e]
    BY <1>2, <1>3, <1>4, <1>5
  <2> QED BY <1>1, <2>1
<1> QED BY <1>1, <1>4, <1>5, <1>6 DEF InOrder

\* Before the gateway runs there is no call.
LEMMA NoCallYet ==
  ASSUME PhasesFollow, routing # "running", lastCall' = lastCall
  PROVE  CallCorrect' /\ lastCall' = NoToolCall
<1>1. lastCall' = NoToolCall
  BY DEF PhasesFollow
<1> QED BY <1>1 DEF CallCorrect, OwnContext, OwnUploadAuth, ShownDefinition, InlineBounded, WithinAllowList

\* Neither list has tools of a server that is not told.
LEMMA NoneOf ==
  ASSUME RoutingInv, NEW s \in Servers, asked[s] # "told"
  PROVE  /\ \A i \in DOMAIN allTools : allTools[i].server # s
         /\ \A i \in DOMAIN toolRegistry : toolRegistry[i].server # s
BY RoutingAssumption DEF RoutingInv, OfTold

LEMMA NoEntryOf ==
  ASSUME RoutingInv, NEW s \in Servers, asked[s] \notin {"told", "failed"}
  PROVE  \A e \in DOMAIN namesBy : namesBy[e].server # s
BY DEF RoutingInv, EntriesFollow

LEMMA ListToolsKeeps ==
  ASSUME RoutingInv, NEW s \in Servers, ListTools(s)
  PROVE  RoutingInv'
<1>1. /\ routing' = routing /\ allTools' = allTools /\ toolRegistry' = toolRegistry /\ namesBy' = namesBy
      /\ statuses' = statuses /\ offers' = offers /\ lastCall' = lastCall
      /\ routing = "discovering" /\ asked[s] = "connecting"
      /\ metadata' = [metadata EXCEPT ![s] = offers[s]]
      /\ asked' = [asked EXCEPT ![s] = IF s \in Mailboxes THEN "told" ELSE "asked"]
      /\ instances' = IF s \in Mailboxes THEN Append(instances, s) ELSE instances
  BY DEF ListTools
<1>2. RoutingTypes
  BY DEF RoutingInv
<1>3. /\ \A t \in Servers : t # s => asked'[t] = asked[t] /\ metadata'[t] = metadata[t]
      /\ asked'[s] = IF s \in Mailboxes THEN "told" ELSE "asked"
      /\ metadata'[s] = offers[s]
  BY <1>1, <1>2 DEF RoutingTypes
<1>4. RoutingTypes'
  <2>1. instances' \in Seq(Mailboxes)
    BY <1>1, <1>2 DEF RoutingTypes
  <2>2. \A t \in Servers : IsFiniteSet(offers'[t]) /\ IsFiniteSet(metadata'[t])
    BY <1>1, <1>2, <1>3 DEF RoutingTypes
  <2>3. metadata' \in [Servers -> SUBSET ToolMetadata]
    BY <1>1, <1>2 DEF RoutingTypes
  <2>4. asked' \in [Servers -> {"connecting", "asked", "told", "failed"}]
    BY <1>1, <1>2 DEF RoutingTypes
  <2> QED BY <1>1, <1>2, <2>1, <2>2, <2>3, <2>4 DEF RoutingTypes
<1>5. OfTold(allTools', routing', asked') /\ OfTold(toolRegistry', routing', asked')
  BY <1>1, <1>3, NoneOf DEF RoutingInv, OfTold, Servers
<1>6. InOrder(allTools', namesBy') /\ InOrder(toolRegistry', namesBy') /\ RouterLast(toolRegistry')
  BY <1>1 DEF RoutingInv
<1>7. EntriesFollow'
  <2>1. \A e \in DOMAIN namesBy : namesBy[e].server \in Servers /\ asked'[namesBy[e].server] = asked[namesBy[e].server]
    <3>1. namesBy \in Seq(Named)
      BY <1>2 DEF RoutingTypes
    <3>2. \A e \in DOMAIN namesBy : namesBy[e].server # s
      BY <1>1, NoEntryOf
    <3> QED BY <1>3, <3>1, <3>2, NamedIs
  <2> QED BY <1>1, <2>1 DEF RoutingInv, EntriesFollow
<1>8. ToldIsKept'
  <2>1. \A t \in Plains : asked'[t] = "told" <=> asked[t] = "told"
    BY <1>1, <1>3, RoutingAssumption DEF Servers
  <2>2. \A t \in Servers : asked[t] = "told" => metadata'[t] = metadata[t]
    BY <1>1, <1>3
  <2>3. \A k \in DOMAIN toolRegistry : toolRegistry[k].server # "router" =>
          toolRegistry[k].server \in Servers /\ asked[toolRegistry[k].server] = "told"
    BY DEF RoutingInv, OfTold, Servers
  <2> QED BY <1>1, <2>1, <2>2, <2>3, SMTT(30) DEF RoutingInv, ToldIsKept, Servers
<1>9. PhasesFollow'
  <2>1. \A t \in Mailboxes : asked'[t] # "asked"
    BY <1>1, <1>3 DEF RoutingInv, PhasesFollow, Servers
  <2>2. \A i \in DOMAIN instances' : asked'[instances'[i]] = "told"
    <3>1. \A i \in DOMAIN instances : instances[i] \in Servers /\ asked'[instances[i]] = "told"
      <4>1. \A i \in DOMAIN instances : instances[i] \in Mailboxes
        BY <1>2, ElementIs DEF RoutingTypes
      <4> QED BY <1>1, <1>3, <4>1 DEF RoutingInv, PhasesFollow, Servers
    <3>2. \A i \in DOMAIN instances' : \/ (i \in DOMAIN instances /\ instances'[i] = instances[i])
                                      \/ (s \in Mailboxes /\ instances'[i] = s)
      <4>1. instances \in Seq(Mailboxes)
        BY <1>2 DEF RoutingTypes
      <4> QED BY <1>1, <4>1
    <3> QED BY <1>3, <3>1, <3>2
  <2> QED BY <1>1, <2>1, <2>2 DEF RoutingInv, PhasesFollow
<1>10. StatusTrue'
  <2>1. StatusTrue
    BY DEF RoutingInv
  <2> QED BY <1>1, <2>1 DEF StatusTrue
<1>11. CallCorrect'
  BY <1>1, NoCallYet DEF RoutingInv
<1> QED BY <1>4, <1>5, <1>6, <1>7, <1>8, <1>9, <1>10, <1>11 DEF RoutingInv

\* Adding to the end of a list, for a server that is now told.
LEMMA ListGrows ==
  ASSUME NEW q \in Seq(Entry), NEW b \in Seq(Entry), NEW s \in Plains, NEW r, NEW a, NEW a2,
         OfTold(q, r, a), \A i \in DOMAIN b : b[i].server = s,
         a2[s] = "told", \A t \in Plains : a[t] = "told" => a2[t] = "told"
  PROVE  OfTold(q \o b, r, a2)
<1>1. \A k \in DOMAIN (q \o b) : (k \in DOMAIN q /\ (q \o b)[k] = q[k]) \/ (q \o b)[k].server = s
  <2>1. \A k \in DOMAIN (q \o b) : k \in DOMAIN q \/ (k - Len(q) \in DOMAIN b /\ (q \o b)[k] = b[k - Len(q)])
    OBVIOUS
  <2>2. \A k \in DOMAIN q : (q \o b)[k] = q[k]
    OBVIOUS
  <2> QED BY <2>1, <2>2
<1>2. s # "router"
  BY RoutingAssumption DEF Servers
<1> QED BY <1>1, <1>2 DEF OfTold

LEMMA SetNamesIs ==
  ASSUME RoutingTypes, NEW s \in Servers, NEW names \in SUBSET STRING,
         \A e \in DOMAIN namesBy : namesBy[e].server # s
  PROVE  /\ SetNames(s, names) = Append(namesBy, [server |-> s, names |-> names])
         /\ [server |-> s, names |-> names] \in Named
         /\ SetNames(s, names) \in Seq(Named)
         /\ DOMAIN SetNames(s, names) = 1..Len(namesBy) + 1
         /\ SetNames(s, names)[Len(namesBy) + 1] = [server |-> s, names |-> names]
         /\ DOMAIN namesBy = 1..Len(namesBy) /\ Len(namesBy) \in Nat
         /\ \A e \in DOMAIN namesBy : SetNames(s, names)[e] = namesBy[e]
<1> DEFINE I == {i \in 1..Len(namesBy) : namesBy[i].server = s}
<1>1. SelectInSeq(namesBy, LAMBDA e : e.server = s) = IF I # {} THEN Min(I) ELSE 0
  BY DEF SelectInSeq
<1>2. I = {}
  BY DEF RoutingTypes
<1>3. SetNames(s, names) = Append(namesBy, [server |-> s, names |-> names])
  BY <1>1, <1>2 DEF SetNames
<1>4. [server |-> s, names |-> names] \in Named /\ namesBy \in Seq(Named)
  BY DEF Named, RoutingTypes
<1> DEFINE x == [server |-> s, names |-> names]
<1> HIDE DEF x
<1> QED BY <1>3, <1>4

LEMMA NamesAre ==
  ASSUME NEW tools \in SUBSET ToolMetadata
  PROVE  NamesOf(tools) \in SUBSET STRING
BY DEF NamesOf, ToolMetadata

LEMMA GivenGrows ==
  ASSUME NEW q \in Seq(Entry), NEW b \in Seq(Entry), NEW s
  PROVE  /\ (\A i \in DOMAIN b : b[i].server # s) => NamesFrom(q \o b, s) = NamesFrom(q, s)
         /\ (\A i \in DOMAIN b : b[i].server = s) /\ (\A i \in DOMAIN q : q[i].server # s) =>
              NamesFrom(q \o b, s) = {b[i].name : i \in DOMAIN b}
<1>1. \A k \in DOMAIN (q \o b) : k \in DOMAIN q \/ (k - Len(q) \in DOMAIN b /\ (q \o b)[k] = b[k - Len(q)])
  OBVIOUS
<1>2. \A k \in DOMAIN q : k \in DOMAIN (q \o b) /\ (q \o b)[k] = q[k]
  OBVIOUS
<1>3. \A k \in DOMAIN b : Len(q) + k \in DOMAIN (q \o b) /\ (q \o b)[Len(q) + k] = b[k]
  OBVIOUS
<1>4. ASSUME \A i \in DOMAIN b : b[i].server # s PROVE NamesFrom(q \o b, s) = NamesFrom(q, s)
  <2>1. \A k \in DOMAIN (q \o b) : (q \o b)[k].server = s => k \in DOMAIN q
    BY <1>1, <1>4
  <2> QED BY <1>2, <2>1 DEF NamesFrom
<1>5. ASSUME \A i \in DOMAIN b : b[i].server = s, \A i \in DOMAIN q : q[i].server # s
      PROVE  NamesFrom(q \o b, s) = {b[i].name : i \in DOMAIN b}
  <2>1. ASSUME NEW n \in NamesFrom(q \o b, s) PROVE \E i \in DOMAIN b : b[i].name = n
    <3>1. PICK k \in DOMAIN (q \o b) : (q \o b)[k].server = s /\ (q \o b)[k].name = n
      BY <2>1 DEF NamesFrom
    <3> QED BY <1>1, <1>2, <1>5, <3>1
  <2>2. ASSUME NEW i \in DOMAIN b PROVE b[i].name \in NamesFrom(q \o b, s)
    BY <1>3, <1>5 DEF NamesFrom
  <2> QED BY <2>1, <2>2
<1> QED BY <1>4, <1>5

LEMMA FromServerKeeps ==
  ASSUME RoutingInv, NEW s \in Servers, FromServer(s)
  PROVE  RoutingInv'
<1> DEFINE B == Bound(s, offers[s])
           C == Bound(s, metadata[s])
           names == NamesOf(offers[s])
<1>1. /\ routing' = routing /\ metadata' = metadata /\ instances' = instances /\ offers' = offers
      /\ lastCall' = lastCall /\ routing = "discovering" /\ asked[s] = "asked"
      /\ asked' = [asked EXCEPT ![s] = "told"]
      /\ allTools' = allTools \o B /\ toolRegistry' = toolRegistry \o C
      /\ namesBy' = SetNames(s, names)
      /\ statuses' = [statuses EXCEPT ![s] = Status(TRUE, names)]
  BY DEF FromServer
<1>2. RoutingTypes
  BY DEF RoutingInv
<1>3. s \in Plains /\ s \notin Mailboxes
  BY <1>1, RoutingAssumption DEF RoutingInv, PhasesFollow, Servers
<1>4. /\ offers[s] \in SUBSET ToolMetadata /\ metadata[s] \in SUBSET ToolMetadata
      /\ IsFiniteSet(offers[s]) /\ IsFiniteSet(metadata[s])
  BY <1>2 DEF RoutingTypes
<1>5. /\ B \in Seq(Entry)
      /\ \A i \in DOMAIN B : B[i].server = s /\ B[i].name \in names
      /\ \A n \in names : \E i \in DOMAIN B : B[i].name = n
  BY <1>4, BoundIs
<1>6. /\ C \in Seq(Entry)
      /\ \A i \in DOMAIN C : C[i].server = s /\ C[i].name \in NamesOf(metadata[s])
      /\ \A n \in NamesOf(metadata[s]) : \E i \in DOMAIN C : C[i].name = n
  BY <1>4, BoundIs
<1>7. names \in SUBSET STRING
  BY <1>4, NamesAre
<1> DEFINE x == [server |-> s, names |-> names]
<1>8. \A e \in DOMAIN namesBy : namesBy[e].server # s
  BY <1>1, NoEntryOf
<1>9. /\ namesBy' = Append(namesBy, x) /\ x \in Named /\ namesBy' \in Seq(Named)
      /\ DOMAIN namesBy' = 1..Len(namesBy) + 1 /\ namesBy'[Len(namesBy) + 1] = x
      /\ DOMAIN namesBy = 1..Len(namesBy) /\ Len(namesBy) \in Nat
      /\ \A e \in DOMAIN namesBy : namesBy'[e] = namesBy[e]
  BY <1>1, <1>2, <1>7, <1>8, SetNamesIs
<1>10. /\ \A i \in DOMAIN allTools : allTools[i].server # s
       /\ \A i \in DOMAIN toolRegistry : toolRegistry[i].server # s
  BY <1>1, NoneOf
<1>11. /\ \A t \in Servers : t # s => asked'[t] = asked[t] /\ statuses'[t] = statuses[t]
       /\ asked'[s] = "told" /\ statuses'[s] = Status(TRUE, names)
  BY <1>1, <1>2 DEF RoutingTypes
<1>12. x.server = s /\ x.names = names
  OBVIOUS
<1> HIDE DEF B, C, names, x
<1>13. allTools \in Seq(Entry) /\ toolRegistry \in Seq(Entry) /\ namesBy \in Seq(Named)
  BY <1>2 DEF RoutingTypes
<1>14. allTools \o B \in Seq(Entry) /\ toolRegistry \o C \in Seq(Entry)
  BY <1>5, <1>6, <1>13
<1>15. RoutingTypes'
  <2>1. statuses' \in [Servers -> [discovered : BOOLEAN, names : SUBSET STRING, healthy : {"unknown", "yes", "no"}]]
    <3>1. Status(TRUE, names) \in [discovered : BOOLEAN, names : SUBSET STRING, healthy : {"unknown", "yes", "no"}]
      BY <1>7 DEF Status
    <3> QED BY <1>1, <1>2, <3>1 DEF RoutingTypes
  <2>2. asked' \in [Servers -> {"connecting", "asked", "told", "failed"}]
    BY <1>1, <1>2 DEF RoutingTypes
  <2> QED BY <1>1, <1>2, <1>9, <1>14, <2>1, <2>2 DEF RoutingTypes
<1>16. OfTold(allTools', routing', asked') /\ OfTold(toolRegistry', routing', asked')
  <2>1. OfTold(allTools, routing, asked) /\ OfTold(toolRegistry, routing, asked)
    BY DEF RoutingInv
  <2>2. \A t \in Plains : asked[t] = "told" => asked'[t] = "told"
    BY <1>11 DEF Servers
  <2>3. OfTold(allTools \o B, routing, asked')
    BY <1>3, <1>5, <1>11, <1>13, <2>1, <2>2, ListGrows
  <2>4. OfTold(toolRegistry \o C, routing, asked')
    BY <1>3, <1>6, <1>11, <1>13, <2>1, <2>2, ListGrows
  <2> QED BY <1>1, <2>3, <2>4
<1>17. InOrder(allTools', namesBy') /\ InOrder(toolRegistry', namesBy')
  <2>1. InOrder(allTools, namesBy) /\ InOrder(toolRegistry, namesBy)
    BY DEF RoutingInv
  <2>2. InOrder(allTools \o B, Append(namesBy, x))
    BY <1>5, <1>8, <1>9, <1>10, <1>12, <1>13, <2>1, OrderGrows
  <2>3. InOrder(toolRegistry \o C, Append(namesBy, x))
    BY <1>6, <1>8, <1>9, <1>10, <1>12, <1>13, <2>1, OrderGrows
  <2> QED BY <1>1, <1>9, <2>2, <2>3
<1>18. RouterLast(toolRegistry')
  <2>1. \A i \in DOMAIN (toolRegistry \o C) : (toolRegistry \o C)[i].server # "router"
    <3>1. OfTold(toolRegistry \o C, "discovering", asked')
      BY <1>1, <1>16
    <3> QED BY <3>1 DEF OfTold
  <2> QED BY <1>1, <2>1 DEF RouterLast
<1>19. EntriesFollow'
  <2>1. SUFFICES ASSUME NEW e \in DOMAIN namesBy'
        PROVE LET t == namesBy'[e].server IN
          /\ asked'[t] \in {"told", "failed"}
          /\ t \in Plains => namesBy'[e].names = statuses'[t].names
          /\ t \in Mailboxes => namesBy'[e].names \subseteq statuses'[t].names
          /\ ~(t \in Mailboxes /\ namesBy'[e].names # {})
    BY DEF EntriesFollow
  <2>2. CASE e \in DOMAIN namesBy
    <3>1. namesBy[e].server \in Servers /\ namesBy[e].server # s /\ namesBy'[e] = namesBy[e]
      BY <1>8, <1>9, <1>13, <2>2, NamedIs
    <3> QED BY <1>1, <1>11, <2>2, <3>1 DEF RoutingInv, EntriesFollow
  <2>3. CASE e = Len(namesBy) + 1
    BY <1>3, <1>9, <1>11, <1>12, <2>3 DEF Status
  <2> QED BY <1>9, <2>1, <2>2, <2>3
<1>20. ToldIsKept'
  <2>1. ASSUME NEW t \in Plains, asked'[t] = "told"
        PROVE  /\ \E e \in DOMAIN namesBy' : namesBy'[e].server = t
               /\ \A n \in NamesOf(metadata[t]) : \E k \in DOMAIN toolRegistry' : toolRegistry'[k].server = t /\ toolRegistry'[k].name = n
    <3>1. CASE t = s
      <4>1. \A i \in DOMAIN C : Len(toolRegistry) + i \in DOMAIN toolRegistry' /\ toolRegistry'[Len(toolRegistry) + i] = C[i]
        BY <1>1, <1>6, <1>13, Joined
      <4>2. Len(namesBy) + 1 \in DOMAIN namesBy'
        BY <1>9
      <4>3. \E e \in DOMAIN namesBy' : namesBy'[e].server = t
        BY <1>9, <1>12, <3>1, <4>2
      <4>4. ASSUME NEW n \in NamesOf(metadata[t])
            PROVE  \E k \in DOMAIN toolRegistry' : toolRegistry'[k].server = t /\ toolRegistry'[k].name = n
        <5>1. PICK i \in DOMAIN C : C[i].name = n
          BY <1>6, <3>1, <4>4
        <5> QED BY <1>6, <3>1, <4>1, <5>1
      <4> QED BY <4>3, <4>4
    <3>2. CASE t # s
      <4>1. asked[t] = "told"
        BY <1>11, <2>1, <3>2 DEF Servers
      <4>2. \A i \in DOMAIN toolRegistry : i \in DOMAIN toolRegistry' /\ toolRegistry'[i] = toolRegistry[i]
        BY <1>1, <1>6, <1>13, Joined
      <4>3. \A e \in DOMAIN namesBy : e \in DOMAIN namesBy' /\ namesBy'[e] = namesBy[e]
        BY <1>9
      <4>4. /\ \E e \in DOMAIN namesBy : namesBy[e].server = t
            /\ \A n \in NamesOf(metadata[t]) : \E k \in DOMAIN toolRegistry : toolRegistry[k].server = t /\ toolRegistry[k].name = n
        BY <4>1 DEF RoutingInv, ToldIsKept
      <4> QED BY <4>2, <4>3, <4>4
    <3> QED BY <3>1, <3>2
  <2>2. \A k \in DOMAIN toolRegistry' :
          toolRegistry'[k].server # "router" => toolRegistry'[k].name \in NamesOf(metadata[toolRegistry'[k].server])
    <3>1. \A k \in DOMAIN (toolRegistry \o C) :
            (k \in DOMAIN toolRegistry /\ (toolRegistry \o C)[k] = toolRegistry[k])
            \/ (k - Len(toolRegistry) \in DOMAIN C /\ (toolRegistry \o C)[k] = C[k - Len(toolRegistry)])
      BY <1>6, <1>13
    <3>2. \A k \in DOMAIN toolRegistry :
            toolRegistry[k].server # "router" => toolRegistry[k].name \in NamesOf(metadata[toolRegistry[k].server])
      BY DEF RoutingInv, ToldIsKept
    <3> QED BY <1>1, <1>6, <3>1, <3>2
  <2>3. \A t \in Plains : statuses'[t].discovered <=> asked'[t] = "told"
    BY <1>11 DEF RoutingInv, ToldIsKept, Status, Servers
  <2> QED BY <1>1, <2>1, <2>2, <2>3 DEF ToldIsKept
<1>21. PhasesFollow'
  BY <1>1, <1>2, <1>3, <1>11 DEF RoutingInv, PhasesFollow, RoutingTypes, Servers
<1>22. StatusTrue'
  <2>1. SUFFICES ASSUME NEW t \in Servers
        PROVE  /\ t \in Plains => statuses'[t].names = NamesFrom(allTools', t)
               /\ ~statuses'[t].discovered =>
                    NamesFrom(allTools', t) = {} /\ NamesFrom(toolRegistry', t) = {} /\ statuses'[t].healthy = "unknown"
    BY DEF StatusTrue
  <2>2. CASE t = s
    <3>1. NamesFrom(allTools', s) = names
      <4>1. NamesFrom(allTools \o B, s) = {B[i].name : i \in DOMAIN B}
        BY <1>5, <1>10, <1>13, GivenGrows
      <4> QED BY <1>1, <1>5, <4>1
    <3> QED BY <1>11, <2>2, <3>1 DEF Status
  <2>3. CASE t # s
    <3>1. NamesFrom(allTools', t) = NamesFrom(allTools, t) /\ NamesFrom(toolRegistry', t) = NamesFrom(toolRegistry, t)
      <4>1. (\A i \in DOMAIN B : B[i].server # t) /\ (\A i \in DOMAIN C : C[i].server # t)
        BY <1>5, <1>6, <2>3
      <4>2. NamesFrom(allTools \o B, t) = NamesFrom(allTools, t)
        BY <1>5, <1>13, <4>1, GivenGrows
      <4>3. NamesFrom(toolRegistry \o C, t) = NamesFrom(toolRegistry, t)
        BY <1>6, <1>13, <4>1, GivenGrows
      <4> QED BY <1>1, <4>2, <4>3
    <3>2. StatusTrue
      BY DEF RoutingInv
    <3> QED BY <1>11, <2>3, <3>1, <3>2 DEF StatusTrue
  <2> QED BY <2>2, <2>3
<1>23. CallCorrect'
  BY <1>1, NoCallYet DEF RoutingInv
<1> QED BY <1>15, <1>16, <1>17, <1>18, <1>19, <1>20, <1>21, <1>22, <1>23 DEF RoutingInv

LEMMA DiscoveryFailsKeeps ==
  ASSUME RoutingInv, NEW s \in Servers, DiscoveryFails(s)
  PROVE  RoutingInv'
<1> DEFINE x == [server |-> s, names |-> {}]
<1>1. /\ routing' = routing /\ metadata' = metadata /\ instances' = instances /\ offers' = offers
      /\ allTools' = allTools /\ toolRegistry' = toolRegistry
      /\ lastCall' = lastCall /\ routing = "discovering" /\ asked[s] \in {"connecting", "asked"}
      /\ asked' = [asked EXCEPT ![s] = "failed"]
      /\ namesBy' = SetNames(s, {})
      /\ statuses' = [statuses EXCEPT ![s] = Status(FALSE, {})]
  BY DEF DiscoveryFails
<1>2. RoutingTypes
  BY DEF RoutingInv
<1>3. \A e \in DOMAIN namesBy : namesBy[e].server # s
  BY <1>1, NoEntryOf
<1>4. /\ namesBy' = Append(namesBy, x) /\ x \in Named /\ namesBy' \in Seq(Named)
      /\ DOMAIN namesBy' = 1..Len(namesBy) + 1 /\ namesBy'[Len(namesBy) + 1] = x
      /\ DOMAIN namesBy = 1..Len(namesBy) /\ Len(namesBy) \in Nat
      /\ \A e \in DOMAIN namesBy : namesBy'[e] = namesBy[e]
  <2>1. {} \in SUBSET STRING
    OBVIOUS
  <2> QED BY <1>1, <1>2, <1>3, <2>1, SetNamesIs
<1>5. /\ \A i \in DOMAIN allTools : allTools[i].server # s
      /\ \A i \in DOMAIN toolRegistry : toolRegistry[i].server # s
  BY <1>1, NoneOf
<1>6. /\ \A t \in Servers : t # s => asked'[t] = asked[t] /\ statuses'[t] = statuses[t]
      /\ asked'[s] = "failed" /\ statuses'[s] = Status(FALSE, {})
  BY <1>1, <1>2 DEF RoutingTypes
<1>7. x.server = s /\ x.names = {}
  OBVIOUS
<1> HIDE DEF x
<1>8. allTools \in Seq(Entry) /\ toolRegistry \in Seq(Entry) /\ namesBy \in Seq(Named)
  BY <1>2 DEF RoutingTypes
<1>9. RoutingTypes'
  <2>1. statuses' \in [Servers -> [discovered : BOOLEAN, names : SUBSET STRING, healthy : {"unknown", "yes", "no"}]]
    <3>1. Status(FALSE, {}) \in [discovered : BOOLEAN, names : SUBSET STRING, healthy : {"unknown", "yes", "no"}]
      BY DEF Status
    <3> QED BY <1>1, <1>2, <3>1 DEF RoutingTypes
  <2>2. asked' \in [Servers -> {"connecting", "asked", "told", "failed"}]
    BY <1>1, <1>2 DEF RoutingTypes
  <2> QED BY <1>1, <1>2, <1>4, <2>1, <2>2 DEF RoutingTypes
<1>10. OfTold(allTools', routing', asked') /\ OfTold(toolRegistry', routing', asked')
  BY <1>1, <1>5, <1>6 DEF RoutingInv, OfTold, Servers
<1>11. InOrder(allTools', namesBy') /\ InOrder(toolRegistry', namesBy') /\ RouterLast(toolRegistry')
  <2>1. InOrder(allTools, namesBy) /\ InOrder(toolRegistry, namesBy) /\ RouterLast(toolRegistry)
    BY DEF RoutingInv
  <2>2. <<>> \in Seq(Entry) /\ \A i \in DOMAIN <<>> : <<>>[i].server = x.server
    OBVIOUS
  <2>3. InOrder(allTools \o <<>>, Append(namesBy, x))
    BY <1>3, <1>4, <1>5, <1>7, <1>8, <2>1, <2>2, OrderGrows
  <2>4. InOrder(toolRegistry \o <<>>, Append(namesBy, x))
    BY <1>3, <1>4, <1>5, <1>7, <1>8, <2>1, <2>2, OrderGrows
  <2>5. allTools \o <<>> = allTools /\ toolRegistry \o <<>> = toolRegistry
    BY <1>8, ConcatEmptySeq
  <2> QED BY <1>1, <1>4, <2>1, <2>3, <2>4, <2>5
<1>12. EntriesFollow'
  <2>1. SUFFICES ASSUME NEW e \in DOMAIN namesBy'
        PROVE LET t == namesBy'[e].server IN
          /\ asked'[t] \in {"told", "failed"}
          /\ t \in Plains => namesBy'[e].names = statuses'[t].names
          /\ t \in Mailboxes => namesBy'[e].names \subseteq statuses'[t].names
          /\ ~(t \in Mailboxes /\ namesBy'[e].names # {})
    BY DEF EntriesFollow
  <2>2. CASE e \in DOMAIN namesBy
    <3>1. namesBy[e].server \in Servers /\ namesBy[e].server # s /\ namesBy'[e] = namesBy[e]
      BY <1>3, <1>4, <1>8, <2>2, NamedIs
    <3>2. EntriesFollow
      BY DEF RoutingInv
    <3>3. asked'[namesBy[e].server] = asked[namesBy[e].server] /\ statuses'[namesBy[e].server] = statuses[namesBy[e].server]
      BY <1>6, <3>1
    <3> QED BY <1>1, <2>2, <3>1, <3>2, <3>3 DEF EntriesFollow
  <2>3. CASE e = Len(namesBy) + 1
    <3>1. namesBy'[e].server = s /\ namesBy'[e].names = {}
      BY <1>4, <1>7, <2>3
    <3>2. statuses'[s].names = {} /\ asked'[s] = "failed"
      BY <1>6 DEF Status
    <3> QED BY <3>1, <3>2
  <2> QED BY <1>4, <2>1, <2>2, <2>3
<1>13. ToldIsKept'
  <2>1. \A e \in DOMAIN namesBy : e \in DOMAIN namesBy' /\ namesBy'[e] = namesBy[e]
    BY <1>4
  <2>2. \A t \in Plains : /\ asked'[t] = "told" <=> asked[t] = "told"
                          /\ statuses'[t].discovered <=> statuses[t].discovered
    <3>1. s \in Plains => ~statuses[s].discovered
      BY <1>1 DEF RoutingInv, ToldIsKept
    <3>2. ~statuses'[s].discovered /\ asked'[s] # "told" /\ asked[s] # "told"
      BY <1>1, <1>6 DEF Status
    <3>3. \A t \in Plains : t # s => asked'[t] = asked[t] /\ statuses'[t] = statuses[t]
      BY <1>6 DEF Servers
    <3> QED BY <3>1, <3>2, <3>3
  <2>3. ToldIsKept
    BY DEF RoutingInv
  <2>4. \A t \in Plains : asked'[t] = "told" =>
          /\ \E e \in DOMAIN namesBy' : namesBy'[e].server = t
          /\ \A n \in NamesOf(metadata[t]) : \E k \in DOMAIN toolRegistry : toolRegistry[k].server = t /\ toolRegistry[k].name = n
    BY <2>1, <2>2, <2>3 DEF ToldIsKept
  <2>5. \A k \in DOMAIN toolRegistry :
          toolRegistry[k].server # "router" => toolRegistry[k].name \in NamesOf(metadata[toolRegistry[k].server])
    BY <2>3 DEF ToldIsKept
  <2>6. \A t \in Plains : statuses'[t].discovered <=> asked'[t] = "told"
    BY <2>2, <2>3 DEF ToldIsKept
  <2>7. metadata' = metadata /\ toolRegistry' = toolRegistry
    BY <1>1
  <2> QED BY <2>4, <2>5, <2>6, <2>7 DEF ToldIsKept
<1>14. PhasesFollow'
  BY <1>1, <1>2, <1>6 DEF RoutingInv, PhasesFollow, RoutingTypes, Servers
<1>15. StatusTrue'
  <2>1. SUFFICES ASSUME NEW t \in Servers
        PROVE  /\ t \in Plains => statuses'[t].names = NamesFrom(allTools, t)
               /\ ~statuses'[t].discovered =>
                    NamesFrom(allTools, t) = {} /\ NamesFrom(toolRegistry, t) = {} /\ statuses'[t].healthy = "unknown"
    BY <1>1 DEF StatusTrue
  <2>2. CASE t = s
    BY <1>5, <1>6, <2>2 DEF NamesFrom, Status
  <2>3. CASE t # s
    <3>1. StatusTrue
      BY DEF RoutingInv
    <3> QED BY <1>6, <2>3, <3>1 DEF StatusTrue
  <2> QED BY <2>2, <2>3
<1>16. CallCorrect'
  BY <1>1, NoCallYet DEF RoutingInv
<1> QED BY <1>9, <1>10, <1>11, <1>12, <1>13, <1>14, <1>15, <1>16 DEF RoutingInv

\* The image of a finite set is finite.
LEMMA ImageIsFinite ==
  ASSUME NEW S, IsFiniteSet(S), NEW f, DOMAIN f = S
  PROVE  IsFiniteSet({f[x] : x \in S})
<1> DEFINE T == {f[x] : x \in S}
           g == [x \in S |-> f[x]]
<1>1. g \in Surjection(S, T)
  BY DEF Surjection
<1> HIDE DEF g, T
<1>2. IsFiniteSet(T)
  BY <1>1, FS_Surjection
<1> QED BY <1>2 DEF T

LEMMA RoutedToolsIs ==
  ASSUME RoutingTypes
  PROVE  /\ RoutedTools \in Seq(Entry)
         /\ \A i \in DOMAIN RoutedTools : RoutedTools[i].server = "router"
<1> DEFINE given == [s \in ToSet(instances) |-> NamesOf(metadata[s])]
           sets == {given[s] : s \in ToSet(instances)}
           names == RoutedNames \cap UNION {NamesOf(metadata[s]) : s \in ToSet(instances)}
           from(n) == instances[SelectInSeq(instances, LAMBDA s : n \in NamesOf(metadata[s]))]
           entry(n) == LET t == CHOOSE t \in metadata[from(n)] : t.name = n IN
                       [name |-> n, uploads |-> t.uploads, privileged |-> t.privileged,
                        declares |-> t.declares, server |-> "router"]
           E == {entry(n) : n \in names}
<1>1. /\ instances \in Seq(Mailboxes) /\ ToSet(instances) \subseteq Mailboxes
      /\ \A s \in Mailboxes : metadata[s] \in SUBSET ToolMetadata /\ IsFiniteSet(metadata[s])
  <2>1. instances \in Seq(Mailboxes)
    BY DEF RoutingTypes
  <2> QED BY <2>1, ElementIs DEF ToSet, RoutingTypes, Servers
<1>2. IsFiniteSet(names)
  <2>1. IsFiniteSet(ToSet(instances))
    BY <1>1, RoutingAssumption, FS_Subset
  <2>2. IsFiniteSet(sets)
    <3>1. DOMAIN given = ToSet(instances)
      OBVIOUS
    <3> HIDE DEF given
    <3> QED BY <2>1, <3>1, ImageIsFinite
  <2>3. ASSUME NEW T \in sets PROVE IsFiniteSet(T)
    <3>1. PICK s \in ToSet(instances) : T = NamesOf(metadata[s])
      OBVIOUS
    <3> DEFINE h == [t \in metadata[s] |-> t.name]
    <3>2. IsFiniteSet({h[t] : t \in metadata[s]})
      <4>1. DOMAIN h = metadata[s] /\ IsFiniteSet(metadata[s])
        BY <1>1
      <4> HIDE DEF h
      <4> QED BY <4>1, ImageIsFinite
    <3>3. {h[t] : t \in metadata[s]} = NamesOf(metadata[s])
      BY DEF NamesOf
    <3> QED BY <3>1, <3>2, <3>3
  <2>4. IsFiniteSet(UNION sets)
    <3> HIDE DEF sets
    <3> QED BY <2>2, <2>3, FS_UNION
  <2>5. names \subseteq UNION sets
    OBVIOUS
  <2> HIDE DEF names, sets
  <2> QED BY <2>4, <2>5, FS_Subset
<1>3. IsFiniteSet(E)
  <2> DEFINE h == [n \in names |-> entry(n)]
  <2>1. IsFiniteSet({h[n] : n \in names})
    <3>1. DOMAIN h = names
      OBVIOUS
    <3> HIDE DEF h, names
    <3> QED BY <1>2, <3>1, ImageIsFinite
  <2>2. {h[n] : n \in names} = E
    <3> HIDE DEF entry, names
    <3> QED OBVIOUS
  <2> QED BY <2>1, <2>2
<1>4. ASSUME NEW n \in names PROVE entry(n) \in Entry /\ entry(n).server = "router"
  <2> DEFINE I == {i \in 1..Len(instances) : n \in NamesOf(metadata[instances[i]])}
             at == SelectInSeq(instances, LAMBDA s : n \in NamesOf(metadata[s]))
             t == CHOOSE t \in metadata[from(n)] : t.name = n
  <2>1. at = IF I # {} THEN Min(I) ELSE 0
    BY DEF SelectInSeq
  <2>2. DOMAIN instances = 1..Len(instances) /\ Len(instances) \in Nat
    BY <1>1
  <2>3. I \in SUBSET Nat /\ I # {}
    <3>1. PICK s \in ToSet(instances) : n \in NamesOf(metadata[s])
      OBVIOUS
    <3>2. PICK i \in DOMAIN instances : instances[i] = s
      BY <3>1 DEF ToSet
    <3> QED BY <2>2, <3>1, <3>2
  <2>4. Min(I) \in I
    <3> HIDE DEF I
    <3> QED BY <2>3, MinIs
  <2>5. at \in DOMAIN instances /\ n \in NamesOf(metadata[instances[at]])
    BY <2>1, <2>2, <2>3, <2>4
  <2>6. from(n) \in Mailboxes /\ n \in NamesOf(metadata[from(n)])
    <3>1. from(n) = instances[at]
      OBVIOUS
    <3> HIDE DEF at, from
    <3> QED BY <1>1, <2>5, <3>1, ElementIs
  <2> HIDE DEF at, I, from
  <2>7. t \in metadata[from(n)]
    BY <2>6 DEF NamesOf
  <2>8. t \in ToolMetadata /\ n \in STRING
    <3>1. metadata[from(n)] \in SUBSET ToolMetadata
      BY <1>1, <2>6
    <3> QED BY <2>6, <2>7, <3>1, NamesAre
  <2> DEFINE x == [name |-> n, uploads |-> t.uploads, privileged |-> t.privileged,
                   declares |-> t.declares, server |-> "router"]
  <2>9. entry(n) = x
    OBVIOUS
  <2> HIDE DEF t, entry
  <2> QED BY <2>8, <2>9 DEF Entry, ToolMetadata
<1>5. RoutedTools = SetToSeq(E)
  BY DEF RoutedTools
<1>6. \A x \in E : x \in Entry /\ x.server = "router"
  <2> HIDE DEF entry, names
  <2> QED BY <1>4
<1> HIDE DEF E
<1>7. SetToSeq(E) \in Seq(E)
  BY <1>3, SetToSeqIs
<1>8. \A i \in DOMAIN SetToSeq(E) : SetToSeq(E)[i] \in E
  BY <1>7, ElementIs
<1>9. SetToSeq(E) \in Seq(Entry)
  BY <1>6, <1>7
<1> QED BY <1>5, <1>6, <1>8, <1>9

\* With another phase, and all else as it was.
LEMMA PhaseKeeps ==
  ASSUME RoutingInv, routing' \in {"probing", "running"}, routing # "running",
         \A s \in Servers : asked[s] \in {"told", "failed"},
         asked' = asked, metadata' = metadata, instances' = instances, offers' = offers,
         allTools' = allTools, toolRegistry' = toolRegistry, namesBy' = namesBy,
         statuses' = statuses, lastCall' = lastCall
  PROVE  RoutingInv'
<1>1. RoutingTypes'
  BY DEF RoutingInv, RoutingTypes
<1>2. OfTold(allTools', routing', asked') /\ OfTold(toolRegistry', routing', asked')
  BY DEF RoutingInv, OfTold
<1>3. InOrder(allTools', namesBy') /\ InOrder(toolRegistry', namesBy') /\ RouterLast(toolRegistry')
  BY DEF RoutingInv
<1>4. EntriesFollow'
  <2>1. EntriesFollow
    BY DEF RoutingInv
  <2> QED BY <2>1 DEF EntriesFollow
<1>5. ToldIsKept'
  <2>1. ToldIsKept
    BY DEF RoutingInv
  <2> QED BY <2>1 DEF ToldIsKept
<1>6. CallCorrect' /\ lastCall' = NoToolCall
  BY NoCallYet DEF RoutingInv
<1>7. PhasesFollow'
  <2>1. PhasesFollow
    BY DEF RoutingInv
  <2> QED BY <1>6, <2>1 DEF PhasesFollow
<1>8. StatusTrue'
  <2>1. StatusTrue
    BY DEF RoutingInv
  <2> QED BY <2>1 DEF StatusTrue
<1> QED BY <1>1, <1>2, <1>3, <1>4, <1>5, <1>6, <1>7, <1>8 DEF RoutingInv

\* What the router adds lies behind all that is there.
LEMMA DiscoveredKeeps ==
  ASSUME RoutingInv, Discovered
  PROVE  RoutingInv'
<1> DEFINE names == {RoutedTools[i].name : i \in DOMAIN RoutedTools}
           M == [i \in DOMAIN instances |-> [server |-> instances[i], names |-> names]]
           B == RoutedTools
<1>1. /\ routing = "discovering" /\ routing' = "probing"
      /\ \A s \in Servers : asked[s] \in {"told", "failed"}
      /\ asked' = asked /\ metadata' = metadata /\ instances' = instances /\ offers' = offers
      /\ lastCall' = lastCall
  BY DEF Discovered
<1>2. CASE instances = << >>
  <2>1. allTools' = allTools /\ toolRegistry' = toolRegistry /\ namesBy' = namesBy /\ statuses' = statuses
    BY <1>2 DEF Discovered
  <2> QED BY <1>1, <2>1, PhaseKeeps
<1>3. CASE instances # << >>
  <2>1. /\ allTools' = allTools \o B /\ toolRegistry' = toolRegistry \o B /\ namesBy' = namesBy \o M
        /\ statuses' = [s \in Servers |-> IF s \in ToSet(instances) THEN Status(TRUE, names) ELSE statuses[s]]
    BY <1>3 DEF Discovered
  <2>2. RoutingTypes
    BY DEF RoutingInv
  <2>3. B \in Seq(Entry) /\ \A i \in DOMAIN B : B[i].server = "router"
    BY <2>2, RoutedToolsIs
  <2>4. names \in SUBSET STRING
    <3> HIDE DEF B
    <3>1. \A i \in DOMAIN B : B[i].name \in STRING
      BY <2>3, EntryIs
    <3> QED BY <3>1 DEF B
  <2> HIDE DEF names, B
  <2>5. /\ allTools \in Seq(Entry) /\ toolRegistry \in Seq(Entry) /\ namesBy \in Seq(Named)
        /\ instances \in Seq(Mailboxes)
    BY <2>2 DEF RoutingTypes
  <2>6. \A i \in DOMAIN instances : instances[i] \in Mailboxes
    BY <2>5, ElementIs
  <2>7. /\ M \in Seq(Named)
        /\ \A k \in DOMAIN M : k \in DOMAIN instances /\ M[k].server = instances[k] /\ M[k].names = names
    <3>1. \A i \in DOMAIN instances : [server |-> instances[i], names |-> names] \in Named
      BY <2>4, <2>6 DEF Named, Servers
    <3>2. DOMAIN instances = 1..Len(instances) /\ Len(instances) \in Nat
      BY <2>5
    <3>3. M \in [1..Len(instances) -> Named]
      BY <3>1, <3>2
    <3> QED BY <3>2, <3>3
  <2> HIDE DEF M
  <2>8. allTools \o B \in Seq(Entry) /\ toolRegistry \o B \in Seq(Entry) /\ namesBy \o M \in Seq(Named)
    BY <2>3, <2>5, <2>7
  <2>9. /\ \A t \in Servers : t \in ToSet(instances) => statuses'[t] = Status(TRUE, names)
        /\ \A t \in Servers : t \notin ToSet(instances) => statuses'[t] = statuses[t]
        /\ \A t \in Plains : t \in Servers /\ t \notin ToSet(instances)
        /\ ToSet(instances) \subseteq Mailboxes
    BY <2>1, <2>6, RoutingAssumption DEF ToSet, Servers
  <2>10. /\ \A k \in DOMAIN namesBy : k \in DOMAIN (namesBy \o M) /\ (namesBy \o M)[k] = namesBy[k]
         /\ \A k \in DOMAIN (namesBy \o M) : k \in DOMAIN namesBy \/
              (k > Len(namesBy) /\ k - Len(namesBy) \in DOMAIN M /\ (namesBy \o M)[k] = M[k - Len(namesBy)])
         /\ DOMAIN namesBy = 1..Len(namesBy) /\ Len(namesBy) \in Nat
    BY <2>5, <2>7
  <2>11. /\ \A k \in DOMAIN toolRegistry : k \in DOMAIN (toolRegistry \o B) /\ (toolRegistry \o B)[k] = toolRegistry[k]
         /\ \A k \in DOMAIN (toolRegistry \o B) :
              \/ k \in DOMAIN toolRegistry
              \/ (k > Len(toolRegistry) /\ (toolRegistry \o B)[k].server = "router")
         /\ DOMAIN toolRegistry = 1..Len(toolRegistry) /\ Len(toolRegistry) \in Nat
    <3>1. \A k \in DOMAIN (toolRegistry \o B) : k \in DOMAIN toolRegistry \/
            (k > Len(toolRegistry) /\ k - Len(toolRegistry) \in DOMAIN B /\ (toolRegistry \o B)[k] = B[k - Len(toolRegistry)])
      BY <2>3, <2>5
    <3> QED BY <2>3, <2>5, <3>1
  <2>12. \A k \in DOMAIN (allTools \o B) :
           \/ (k \in DOMAIN allTools /\ (allTools \o B)[k] = allTools[k])
           \/ (allTools \o B)[k].server = "router"
    <3>1. \A k \in DOMAIN (allTools \o B) : k \in DOMAIN allTools \/
            (k - Len(allTools) \in DOMAIN B /\ (allTools \o B)[k] = B[k - Len(allTools)])
      BY <2>3, <2>5
    <3>2. \A k \in DOMAIN allTools : (allTools \o B)[k] = allTools[k]
      BY <2>3, <2>5
    <3> QED BY <2>3, <3>1, <3>2
  <2>13. /\ \A i \in DOMAIN allTools : allTools[i].server \in Plains /\ asked[allTools[i].server] = "told"
         /\ \A i \in DOMAIN toolRegistry : toolRegistry[i].server \in Plains /\ asked[toolRegistry[i].server] = "told"
    BY <1>1 DEF RoutingInv, OfTold
  <2>14. RoutingTypes'
    <3>1. statuses' \in [Servers -> [discovered : BOOLEAN, names : SUBSET STRING, healthy : {"unknown", "yes", "no"}]]
      <4>1. Status(TRUE, names) \in [discovered : BOOLEAN, names : SUBSET STRING, healthy : {"unknown", "yes", "no"}]
        BY <2>4 DEF Status
      <4>2. \A t \in Servers : statuses[t] \in [discovered : BOOLEAN, names : SUBSET STRING, healthy : {"unknown", "yes", "no"}]
        BY <2>2 DEF RoutingTypes
      <4> QED BY <2>1, <4>1, <4>2
    <3> QED BY <1>1, <2>1, <2>2, <2>8, <3>1 DEF RoutingTypes
  <2>15. OfTold(allTools', routing', asked') /\ OfTold(toolRegistry', routing', asked')
    <3>1. OfTold(allTools \o B, "probing", asked)
      BY <2>12, <2>13 DEF OfTold
    <3>2. OfTold(toolRegistry \o B, "probing", asked)
      BY <2>11, <2>13 DEF OfTold
    <3> QED BY <1>1, <2>1, <3>1, <3>2
  <2>16. InOrder(allTools', namesBy') /\ InOrder(toolRegistry', namesBy')
    <3>1. /\ \A i \in DOMAIN allTools : allTools[i].server \notin Mailboxes
          /\ \A i \in DOMAIN toolRegistry : toolRegistry[i].server \notin Mailboxes
      BY <2>13, RoutingAssumption
    <3>2. \A e \in DOMAIN M : M[e].server \in Mailboxes
      BY <2>6, <2>7
    <3>3. InOrder(allTools, namesBy) /\ InOrder(toolRegistry, namesBy)
      BY DEF RoutingInv
    <3>4. InOrder(allTools \o B, namesBy \o M)
      BY <2>3, <2>5, <2>7, <3>1, <3>2, <3>3, OrderStays
    <3>5. InOrder(toolRegistry \o B, namesBy \o M)
      BY <2>3, <2>5, <2>7, <3>1, <3>2, <3>3, OrderStays
    <3> QED BY <2>1, <3>4, <3>5
  <2>17. RouterLast(toolRegistry')
    <3>1. SUFFICES ASSUME NEW i \in DOMAIN (toolRegistry \o B), NEW j \in DOMAIN (toolRegistry \o B),
                          (toolRegistry \o B)[i].server = "router", (toolRegistry \o B)[j].server # "router"
                   PROVE  j < i
      BY <2>1 DEF RouterLast
    <3>2. i \notin DOMAIN toolRegistry
      <4>1. \A k \in DOMAIN toolRegistry : toolRegistry[k].server # "router"
        BY <2>13, RoutingAssumption DEF Servers
      <4> QED BY <2>11, <3>1, <4>1
    <3>3. j \in DOMAIN toolRegistry /\ i > Len(toolRegistry)
      BY <2>11, <3>1, <3>2
    <3>4. i \in Nat
      BY <2>8
    <3> QED BY <2>11, <3>3, <3>4
  <2>18. EntriesFollow'
    <3>1. SUFFICES ASSUME NEW e \in DOMAIN (namesBy \o M)
          PROVE LET t == (namesBy \o M)[e].server IN
            /\ asked[t] \in {"told", "failed"}
            /\ t \in Plains => (namesBy \o M)[e].names = statuses'[t].names
            /\ t \in Mailboxes => (namesBy \o M)[e].names \subseteq statuses'[t].names
            /\ t \in Mailboxes /\ (namesBy \o M)[e].names # {} =>
                 \A d \in DOMAIN (namesBy \o M) : (namesBy \o M)[d].server \in Plains => d < e
      BY <1>1, <2>1 DEF EntriesFollow
    <3>2. CASE e \in DOMAIN namesBy
      <4> DEFINE t == namesBy[e].server
                 given == namesBy[e].names
      <4>1. t \in Servers /\ (namesBy \o M)[e] = namesBy[e]
        BY <2>5, <2>10, <3>2, NamedIs
      <4>2. /\ asked[t] \in {"told", "failed"}
            /\ t \in Plains => given = statuses[t].names
            /\ t \in Mailboxes => given = {}
        BY <1>1, <3>2 DEF RoutingInv, EntriesFollow
      <4>3. t \in Plains => given = statuses'[t].names
        BY <2>9, <4>1, <4>2
      <4> QED BY <4>1, <4>2, <4>3
    <3>3. CASE e \notin DOMAIN namesBy
      <4> DEFINE k == e - Len(namesBy)
      <4>1. e > Len(namesBy) /\ k \in DOMAIN M /\ (namesBy \o M)[e] = M[k] /\ e \in Nat
        BY <2>8, <2>10, <3>3
      <4>2. k \in DOMAIN instances /\ M[k].server = instances[k] /\ M[k].names = names
        BY <2>7, <4>1
      <4>3. instances[k] \in Mailboxes /\ instances[k] \in Servers /\ instances[k] \notin Plains
        BY <2>6, <4>2, RoutingAssumption DEF Servers
      <4>4. asked[instances[k]] = "told"
        BY <4>2 DEF RoutingInv, PhasesFollow
      <4>5. statuses'[instances[k]] = Status(TRUE, names)
        BY <2>9, <4>2, <4>3 DEF ToSet
      <4>6. \A d \in DOMAIN (namesBy \o M) : (namesBy \o M)[d].server \in Plains => d < e
        <5>1. SUFFICES ASSUME NEW d \in DOMAIN (namesBy \o M), (namesBy \o M)[d].server \in Plains
                       PROVE  d \in DOMAIN namesBy
          BY <2>10, <4>1
        <5>2. \A c \in DOMAIN M : M[c].server \notin Plains
          BY <2>6, <2>7, RoutingAssumption
        <5> QED BY <2>10, <5>1, <5>2
      <4> HIDE DEF k
      <4>7. (namesBy \o M)[e].server = instances[k] /\ (namesBy \o M)[e].names = names
        BY <4>1, <4>2
      <4>8. statuses'[instances[k]].names = names
        BY <4>5 DEF Status
      <4> QED BY <4>3, <4>4, <4>6, <4>7, <4>8
    <3> QED BY <3>2, <3>3
  <2>19. ToldIsKept'
    <3>1. ToldIsKept
      BY DEF RoutingInv
    <3>2. \A t \in Plains : statuses'[t] = statuses[t]
      BY <2>9
    <3>3. ASSUME NEW t \in Plains, asked[t] = "told"
          PROVE  /\ \E e \in DOMAIN (namesBy \o M) : (namesBy \o M)[e].server = t
                 /\ \A n \in NamesOf(metadata[t]) : \E k \in DOMAIN (toolRegistry \o B) :
                      (toolRegistry \o B)[k].server = t /\ (toolRegistry \o B)[k].name = n
      <4>1. /\ \E e \in DOMAIN namesBy : namesBy[e].server = t
            /\ \A n \in NamesOf(metadata[t]) : \E k \in DOMAIN toolRegistry : toolRegistry[k].server = t /\ toolRegistry[k].name = n
        BY <3>1, <3>3 DEF ToldIsKept
      <4>2. \E e \in DOMAIN (namesBy \o M) : (namesBy \o M)[e].server = t
        BY <2>10, <4>1
      <4>3. ASSUME NEW n \in NamesOf(metadata[t])
            PROVE  \E k \in DOMAIN (toolRegistry \o B) : (toolRegistry \o B)[k].server = t /\ (toolRegistry \o B)[k].name = n
        <5>1. PICK k \in DOMAIN toolRegistry : toolRegistry[k].server = t /\ toolRegistry[k].name = n
          BY <4>1, <4>3
        <5> QED BY <2>11, <5>1
      <4> QED BY <4>2, <4>3
    <3>4. \A k \in DOMAIN (toolRegistry \o B) : (toolRegistry \o B)[k].server # "router" =>
            (toolRegistry \o B)[k].name \in NamesOf(metadata[(toolRegistry \o B)[k].server])
      <4>1. \A k \in DOMAIN toolRegistry : toolRegistry[k].server # "router" =>
              toolRegistry[k].name \in NamesOf(metadata[toolRegistry[k].server])
        BY <3>1 DEF ToldIsKept
      <4> QED BY <2>11, <4>1
    <3>5. \A t \in Plains : statuses'[t].discovered <=> asked[t] = "told"
      BY <3>1, <3>2 DEF ToldIsKept
    <3>6. metadata' = metadata /\ asked' = asked /\ namesBy' = namesBy \o M /\ toolRegistry' = toolRegistry \o B
      BY <1>1, <2>1
    <3>7. ASSUME NEW t \in Plains, asked'[t] = "told"
          PROVE  /\ \E e \in DOMAIN namesBy' : namesBy'[e].server = t
                 /\ \A n \in NamesOf(metadata'[t]) : \E k \in DOMAIN toolRegistry' :
                      toolRegistry'[k].server = t /\ toolRegistry'[k].name = n
      <4>1. asked[t] = "told"
        BY <3>6, <3>7
      <4> QED BY <3>3, <3>6, <4>1, ZenonT(60)
    <3>8. \A k \in DOMAIN toolRegistry' : toolRegistry'[k].server # "router" =>
            toolRegistry'[k].name \in NamesOf(metadata'[toolRegistry'[k].server])
      BY <3>4, <3>6
    <3>9. \A t \in Plains : statuses'[t].discovered <=> asked'[t] = "told"
      BY <3>5, <3>6
    <3> QED BY <3>7, <3>8, <3>9 DEF ToldIsKept
  <2>20. CallCorrect' /\ lastCall' = NoToolCall
    BY <1>1, NoCallYet DEF RoutingInv
  <2>21. PhasesFollow'
    <3>1. PhasesFollow
      BY DEF RoutingInv
    <3> QED BY <1>1, <2>20, <3>1 DEF PhasesFollow
  <2>22. StatusTrue'
    <3>1. SUFFICES ASSUME NEW t \in Servers
          PROVE  /\ t \in Plains => statuses'[t].names = NamesFrom(allTools', t)
                 /\ ~statuses'[t].discovered =>
                      NamesFrom(allTools', t) = {} /\ NamesFrom(toolRegistry', t) = {} /\ statuses'[t].healthy = "unknown"
      BY DEF StatusTrue
    <3>2. CASE t \in ToSet(instances)
      <4>1. statuses'[t].discovered = TRUE
        BY <2>9, <3>2 DEF Status
      <4> QED BY <2>9, <3>2, <4>1
    <3>3. CASE t \notin ToSet(instances)
      <4>1. \A i \in DOMAIN B : B[i].server # t
        BY <2>3, RoutingAssumption
      <4>2. NamesFrom(allTools \o B, t) = NamesFrom(allTools, t)
        BY <2>3, <2>5, <4>1, GivenGrows
      <4>3. NamesFrom(toolRegistry \o B, t) = NamesFrom(toolRegistry, t)
        BY <2>3, <2>5, <4>1, GivenGrows
      <4>4. StatusTrue
        BY DEF RoutingInv
      <4>5. statuses'[t] = statuses[t]
        BY <2>9, <3>3
      <4> QED BY <2>1, <4>2, <4>3, <4>4, <4>5 DEF StatusTrue
    <3> QED BY <3>2, <3>3
  <2> QED BY <2>14, <2>15, <2>16, <2>17, <2>18, <2>19, <2>20, <2>21, <2>22 DEF RoutingInv
<1> QED BY <1>2, <1>3

LEMMA ProbeKeeps ==
  ASSUME RoutingInv, NEW s \in Servers, ProbeServers(s)
  PROVE  RoutingInv'
<1> DEFINE health == IF offers[s] = {} \/ s \in Ailing THEN "no" ELSE "yes"
<1>1. /\ routing' = routing /\ asked' = asked /\ metadata' = metadata /\ instances' = instances
      /\ offers' = offers /\ allTools' = allTools /\ toolRegistry' = toolRegistry
      /\ namesBy' = namesBy /\ lastCall' = lastCall
      /\ routing = "probing" /\ statuses[s].discovered
      /\ statuses' = [statuses EXCEPT ![s].healthy = health]
  BY DEF ProbeServers
<1>2. RoutingTypes
  BY DEF RoutingInv
<1> DEFINE R == [discovered : BOOLEAN, names : SUBSET STRING, healthy : {"unknown", "yes", "no"}]
<1>3. health \in {"unknown", "yes", "no"} /\ statuses \in [Servers -> R]
  BY <1>2 DEF RoutingTypes
<1> HIDE DEF health
<1>4. /\ statuses' \in [Servers -> R]
      /\ \A t \in Servers : statuses'[t].discovered = statuses[t].discovered /\ statuses'[t].names = statuses[t].names
      /\ \A t \in Servers : t # s => statuses'[t] = statuses[t]
  BY <1>1, <1>3
<1> HIDE DEF R
<1>5. RoutingTypes'
  BY <1>1, <1>2, <1>4 DEF RoutingTypes, R
<1>6. OfTold(allTools', routing', asked') /\ OfTold(toolRegistry', routing', asked')
  BY <1>1 DEF RoutingInv
<1>7. InOrder(allTools', namesBy') /\ InOrder(toolRegistry', namesBy') /\ RouterLast(toolRegistry')
  BY <1>1 DEF RoutingInv
<1>8. EntriesFollow'
  <2>1. EntriesFollow
    BY DEF RoutingInv
  <2>2. namesBy \in Seq(Named)
    BY <1>2 DEF RoutingTypes
  <2>3. \A e \in DOMAIN namesBy : statuses'[namesBy[e].server].names = statuses[namesBy[e].server].names
    BY <1>4, <2>2, NamedIs
  <2>4. routing' = routing /\ asked' = asked /\ namesBy' = namesBy
    BY <1>1
  <2> QED BY <2>1, <2>3, <2>4 DEF EntriesFollow
<1>9. ToldIsKept'
  <2>1. ToldIsKept
    BY DEF RoutingInv
  <2>2. \A t \in Plains : statuses'[t].discovered = statuses[t].discovered
    BY <1>4 DEF Servers
  <2>3. metadata' = metadata /\ toolRegistry' = toolRegistry /\ asked' = asked /\ namesBy' = namesBy
    BY <1>1
  <2> QED BY <2>1, <2>2, <2>3 DEF ToldIsKept
<1>10. PhasesFollow'
  BY <1>1 DEF RoutingInv, PhasesFollow
<1>11. StatusTrue'
  <2>1. StatusTrue
    BY DEF RoutingInv
  <2>2. allTools' = allTools /\ toolRegistry' = toolRegistry
    BY <1>1
  <2> QED BY <1>1, <1>4, <2>1, <2>2 DEF StatusTrue
<1>12. CallCorrect'
  BY <1>1, NoCallYet DEF RoutingInv
<1> QED BY <1>5, <1>6, <1>7, <1>8, <1>9, <1>10, <1>11, <1>12 DEF RoutingInv

\* When the lists stay, so does what is said of them.
LEMMA ListsStay ==
  ASSUME RoutingInv, UNCHANGED discoveryVars
  PROVE  /\ OfTold(allTools', routing', asked') /\ OfTold(toolRegistry', routing', asked')
         /\ InOrder(allTools', namesBy') /\ InOrder(toolRegistry', namesBy') /\ RouterLast(toolRegistry')
         /\ EntriesFollow' /\ ToldIsKept' /\ StatusTrue'
<1>1. /\ routing' = routing /\ asked' = asked /\ metadata' = metadata /\ allTools' = allTools
      /\ toolRegistry' = toolRegistry /\ namesBy' = namesBy /\ statuses' = statuses
  BY DEF discoveryVars
<1>2. EntriesFollow'
  <2>1. EntriesFollow
    BY DEF RoutingInv
  <2> QED BY <1>1, <2>1 DEF EntriesFollow
<1>3. ToldIsKept'
  <2>1. ToldIsKept
    BY DEF RoutingInv
  <2> QED BY <1>1, <2>1 DEF ToldIsKept
<1>4. StatusTrue'
  <2>1. StatusTrue
    BY DEF RoutingInv
  <2> QED BY <1>1, <2>1 DEF StatusTrue
<1> QED BY <1>1, <1>2, <1>3, <1>4 DEF RoutingInv

LEMMA AuthStays ==
  ASSUME namesBy' = namesBy, toolRegistry' = toolRegistry, NEW n, NEW c
  PROVE  UploadAuth(n, c)' = UploadAuth(n, c)
<1>1. ServerEntryFor(n)' = ServerEntryFor(n)
  BY DEF ServerEntryFor, SelectInSeq
<1> QED BY <1>1 DEF UploadAuth

LEMMA RestartKeeps ==
  ASSUME RoutingInv, UNCHANGED <<discoveryVars, lastCall>>,
         offers' \in [Servers -> SUBSET ToolMetadata], \A s \in Servers : IsFiniteSet(offers'[s])
  PROVE  RoutingInv'
<1>1. RoutingTypes'
  BY DEF RoutingInv, RoutingTypes, discoveryVars
<1>2. PhasesFollow'
  BY DEF RoutingInv, PhasesFollow, discoveryVars
<1>3. CallCorrect'
  <2>1. CallCorrect
    BY DEF RoutingInv
  <2>2. /\ lastCall' = lastCall /\ metadata' = metadata /\ toolRegistry' = toolRegistry
        /\ namesBy' = namesBy /\ statuses' = statuses
    BY DEF discoveryVars
  <2>3. OwnContext' /\ InlineBounded' /\ WithinAllowList'
    BY <2>1, <2>2 DEF CallCorrect, OwnContext, InlineBounded, WithinAllowList
  <2>4. OwnUploadAuth'
    <3>1. UploadAuth(lastCall.tool.name, lastCall.turn.conversation)' = UploadAuth(lastCall.tool.name, lastCall.turn.conversation)
      <4> DEFINE n == lastCall.tool.name
                 c == lastCall.turn.conversation
      <4>1. ServerEntryFor(n)' = ServerEntryFor(n)
        BY <2>2 DEF ServerEntryFor, SelectInSeq
      <4> QED BY <2>2, <4>1 DEF UploadAuth
    <3> QED BY <2>1, <2>2, <3>1 DEF CallCorrect, OwnUploadAuth
  <2>5. ShownDefinition'
    BY <2>1, <2>2 DEF CallCorrect, ShownDefinition
  <2> QED BY <2>3, <2>4, <2>5 DEF CallCorrect
<1>4. UNCHANGED discoveryVars
  OBVIOUS
<1> QED BY <1>1, <1>2, <1>3, <1>4, ListsStay DEF RoutingInv

\* Of a tool that a server offers and a list holds: the first entry that names it is of
\* the server of the first tool of the name.
LEMMA EntryIsOfTool ==
  ASSUME RoutingInv, NEW k \in DOMAIN allTools, NEW n, allTools[k].name = n,
         \A i \in DOMAIN allTools : allTools[i].name = n => k <= i,
         allTools[k].server # "router"
  PROVE  ServerEntryFor(n) = allTools[k].server
<1> DEFINE s == allTools[k].server
<1>1. /\ allTools \in Seq(Entry) /\ namesBy \in Seq(Named)
      /\ EntriesFollow /\ ToldIsKept /\ StatusTrue /\ InOrder(allTools, namesBy)
  BY DEF RoutingInv, RoutingTypes
<1>2. s \in Plains /\ s \in Servers /\ asked[s] = "told"
  BY DEF RoutingInv, OfTold, Servers
<1>3. PICK e \in DOMAIN namesBy : namesBy[e].server = s
  BY <1>1, <1>2 DEF ToldIsKept
<1>4. n \in NamesFrom(allTools, s)
  BY DEF NamesFrom
<1>5. n \in namesBy[e].names
  BY <1>1, <1>2, <1>3, <1>4 DEF EntriesFollow, StatusTrue
<1>6. PICK d \in DOMAIN namesBy :
        /\ n \in namesBy[d].names /\ ServerEntryFor(n) = namesBy[d].server
        /\ \A c \in DOMAIN namesBy : n \in namesBy[c].names => d <= c
  BY <1>1, <1>5, ServerEntryForIs
<1> DEFINE t == namesBy[d].server
<1>7. t \in Servers /\ d \in Nat /\ e \in Nat /\ d <= e
  BY <1>1, <1>3, <1>5, <1>6, NamedIs
<1>8. t \in Plains
  <2>1. SUFFICES ASSUME t \in Mailboxes PROVE FALSE
    BY <1>7 DEF Servers
  <2>2. e < d
    BY <1>1, <1>2, <1>3, <1>6, <2>1 DEF EntriesFollow
  <2> QED BY <1>7, <2>2
<1>9. t = s
  <2>1. SUFFICES ASSUME t # s PROVE FALSE
    OBVIOUS
  <2>2. n \in NamesFrom(allTools, t)
    BY <1>1, <1>6, <1>7, <1>8 DEF EntriesFollow, StatusTrue
  <2>3. PICK j \in DOMAIN allTools : allTools[j].server = t /\ allTools[j].name = n
    BY <2>2 DEF NamesFrom
  <2>4. j \in Nat /\ k \in Nat /\ k < j
    <3>1. k <= j /\ k # j
      BY <2>1, <2>3
    <3>2. j \in Nat /\ k \in Nat
      BY <1>1
    <3> QED BY <3>1, <3>2
  <2>5. e < d
    BY <1>1, <1>3, <2>1, <2>3, <2>4 DEF InOrder
  <2> QED BY <1>7, <2>5
<1> QED BY <1>6, <1>9

\* The first definition of the name is of that server too.
LEMMA DefinitionIsOfTool ==
  ASSUME RoutingInv, NEW k \in DOMAIN allTools, NEW n, allTools[k].name = n,
         \A i \in DOMAIN allTools : allTools[i].name = n => k <= i,
         allTools[k].server # "router", n \in NamesOf(metadata[allTools[k].server]),
         \A s \in Plains : statuses[s].discovered => NamesOf(metadata[s]) \subseteq statuses[s].names
  PROVE  toolRegistry[FirstNamed(toolRegistry, n)].server = allTools[k].server
<1> DEFINE s == allTools[k].server
           f == FirstNamed(toolRegistry, n)
<1>1. /\ allTools \in Seq(Entry) /\ toolRegistry \in Seq(Entry) /\ namesBy \in Seq(Named)
      /\ ToldIsKept /\ StatusTrue /\ RouterLast(toolRegistry)
      /\ InOrder(allTools, namesBy) /\ InOrder(toolRegistry, namesBy)
      /\ OfTold(toolRegistry, routing, asked)
  BY DEF RoutingInv, RoutingTypes
<1>2. s \in Plains /\ s \in Servers /\ asked[s] = "told"
  BY DEF RoutingInv, OfTold, Servers
<1>3. PICK p \in DOMAIN toolRegistry : toolRegistry[p].server = s /\ toolRegistry[p].name = n
  BY <1>1, <1>2, SMTT(30) DEF ToldIsKept
<1>4. /\ f \in DOMAIN toolRegistry /\ toolRegistry[f].name = n
      /\ \A i \in DOMAIN toolRegistry : toolRegistry[i].name = n => f <= i
  BY <1>1, <1>3, FirstNamedIs
<1> HIDE DEF f
<1>5. f \in Nat /\ p \in Nat /\ f <= p
  <2>1. f \in Nat /\ p \in Nat
    BY <1>1, <1>4
  <2> QED BY <1>3, <1>4, <2>1
<1> DEFINE t == toolRegistry[f].server
<1>6. t # "router"
  <2>1. SUFFICES ASSUME t = "router" PROVE FALSE
    OBVIOUS
  <2>2. p < f
    BY <1>1, <1>3, <1>4, <2>1 DEF RouterLast
  <2> QED BY <1>5, <2>2
<1>7. t \in Plains /\ t \in Servers /\ asked[t] = "told" /\ n \in NamesOf(metadata[t])
  BY <1>1, <1>4, <1>6 DEF OfTold, ToldIsKept, Servers
<1>8. t = s
  <2>1. SUFFICES ASSUME t # s PROVE FALSE
    OBVIOUS
  <2>2. statuses[t].discovered
    BY <1>1, <1>7 DEF ToldIsKept
  <2>3. n \in NamesFrom(allTools, t)
    BY <1>1, <1>7, <2>2 DEF StatusTrue
  <2>4. PICK j \in DOMAIN allTools : allTools[j].server = t /\ allTools[j].name = n
    BY <2>3 DEF NamesFrom
  <2>5. k < j
    <3>1. k <= j /\ k # j
      BY <2>1, <2>4
    <3>2. j \in Nat /\ k \in Nat
      BY <1>1
    <3> QED BY <3>1, <3>2
  <2>6. f < p
    BY <1>3, <1>5, <2>1
  <2>7. PICK d \in DOMAIN namesBy : namesBy[d].server = s
    BY <1>1, <1>2 DEF ToldIsKept
  <2>8. PICK e \in DOMAIN namesBy : namesBy[e].server = t
    BY <1>1, <1>7 DEF ToldIsKept
  <2>9. d < e
    BY <1>1, <2>1, <2>4, <2>5, <2>7, <2>8 DEF InOrder
  <2>10. e < d
    BY <1>1, <1>3, <1>4, <2>1, <2>6, <2>7, <2>8 DEF InOrder
  <2>11. d \in Nat /\ e \in Nat
    BY <1>1
  <2> QED BY <2>9, <2>10, <2>11
<1> QED BY <1>8 DEF f

\* What a call of a tool that is not the router's reaches its server with, and returns.
LEMMA CallToolKeeps ==
  ASSUME RoutingInv, NEW agent, NEW turn, NEW name, NEW args, NEW m, CallTool(agent, turn, name, args, m)
  PROVE  RoutingInv'
<1> DEFINE k == FirstNamed(allTools, name)
           tool == allTools[k]
           context == TurnContext(turn, name)
           parsed == Parsed(tool, Injected(allTools[LastNamed(allTools, name)], args, context))
<1>1. /\ routing = "running" /\ k # 0 /\ Scoped(agent, name)
      /\ UNCHANGED discoveryVars /\ offers' = offers
  BY DEF CallTool
<1>2. PICK result \in ToolResults :
        lastCall' = [server |-> IF tool.server = "router" THEN m ELSE tool.server,
                     tool |-> tool, agent |-> agent, turn |-> turn,
                     args |-> IF tool.server = "router" THEN parsed ELSE Overridden(tool, parsed, context),
                     result |-> result,
                     returned |-> Returned(tool, IF tool.server = "router" THEN m ELSE tool.server, result)]
  BY DEF CallTool
<1>3. /\ routing' = routing /\ metadata' = metadata /\ toolRegistry' = toolRegistry
      /\ namesBy' = namesBy /\ statuses' = statuses /\ asked' = asked /\ instances' = instances
      /\ allTools' = allTools
  BY <1>1 DEF discoveryVars
<1>4. allTools \in Seq(Entry) /\ namesBy \in Seq(Named)
  BY DEF RoutingInv, RoutingTypes
<1>5. /\ k \in DOMAIN allTools /\ allTools[k].name = name
      /\ \A i \in DOMAIN allTools : allTools[i].name = name => k <= i
  BY <1>1, <1>4, FirstNamedIs
<1>6. /\ lastCall'.tool = tool /\ lastCall'.agent = agent /\ lastCall'.turn = turn
      /\ lastCall'.result = result
      /\ tool.server # "router" =>
           /\ lastCall'.server = tool.server
           /\ lastCall'.args = Overridden(tool, parsed, context)
           /\ lastCall'.returned = Returned(tool, tool.server, result)
  BY <1>2
<1> HIDE DEF k, parsed
<1>7. tool.name = name
  BY <1>5
<1> HIDE DEF tool
<1>8. RoutingTypes'
  <2>1. RoutingTypes
    BY DEF RoutingInv
  <2> QED BY <1>1, <1>3, <2>1 DEF RoutingTypes
<1>9. PhasesFollow'
  BY <1>1, <1>3 DEF RoutingInv, PhasesFollow
<1>10. OwnContext'
  <2>1. SUFFICES ASSUME tool.server # "router", tool.privileged
                 PROVE  /\ lastCall'.args.conversationId = <<turn.conversation>>
                        /\ turn.grant # Absent => lastCall'.args.privilegeGrantId = turn.grant
    BY <1>6 DEF OwnContext
  <2>2. lastCall'.args = Overridden(tool, parsed, context)
    BY <1>6, <2>1
  <2>3. context.conversationId = <<turn.conversation>> /\ context.privilegeGrantId = turn.grant
    BY DEF TurnContext
  <2>4. <<turn.conversation>> # Absent
    BY DEF Absent
  <2> HIDE DEF context
  <2> QED BY <2>1, <2>2, <2>3, <2>4 DEF Overridden, ContextArgs, Takes
<1>11. OwnUploadAuth'
  <2>1. UploadAuth(name, turn.conversation)' = UploadAuth(name, turn.conversation)
    BY <1>3, AuthStays
  <2>2. SUFFICES ASSUME tool.server # "router", tool.uploads, UploadAuth(name, turn.conversation) # Absent
                 PROVE  lastCall'.args.contentUploadAuth = <<turn.conversation, name, Transport[tool.server]>>
    BY <1>6, <1>7, <2>1 DEF OwnUploadAuth
  <2>3. ServerEntryFor(name) = tool.server
    BY <1>5, <2>2, EntryIsOfTool DEF tool
  <2>4. UploadAuth(name, turn.conversation) = <<turn.conversation, name, Transport[tool.server]>>
    BY <2>2, <2>3 DEF UploadAuth
  <2>5. context.contentUploadAuth = UploadAuth(name, turn.conversation)
    BY DEF TurnContext
  <2>6. lastCall'.args = Overridden(tool, parsed, context)
    BY <1>6, <2>2
  <2> HIDE DEF context
  <2> QED BY <2>2, <2>4, <2>5, <2>6 DEF Overridden, ContextArgs, Takes
<1>12. ShownDefinition'
  <2>1. SUFFICES ASSUME tool.server # "router", name \in NamesOf(metadata[tool.server]),
                        \A s \in Plains : statuses[s].discovered => NamesOf(metadata[s]) \subseteq statuses[s].names
                 PROVE  toolRegistry[FirstNamed(toolRegistry, name)].server = tool.server
    BY <1>3, <1>6, <1>7 DEF ShownDefinition
  <2> QED BY <1>5, <2>1, DefinitionIsOfTool DEF tool
<1>13. InlineBounded'
  <2>1. SUFFICES ASSUME tool.server # "router", Returned(tool, tool.server, result) # "throws"
                 PROVE  Returned(tool, tool.server, result) = "whole" <=> result.size <= MaxInline
    BY <1>6 DEF InlineBounded
  <2>2. Returned(tool, tool.server, result) = Inlined(result) /\ Inlined(result) # "throws"
    BY <2>1 DEF Returned
  <2>3. MaxInline \in Nat
    BY RoutingAssumption
  <2>4. CASE \E n \in MaxInline..MaxInline + 1 : result = [kind |-> "text", size |-> n, data |-> 0]
    BY <2>2, <2>3, <2>4 DEF Inlined
  <2>5. CASE /\ result \in [kind : {"object"}, size : MaxInline..MaxInline + 2, data : {0, MaxInline, MaxInline + 1}]
             /\ result.data < result.size
    <3>1. /\ result.kind = "object" /\ result.size \in Nat /\ result.data \in Nat
          /\ result.data < result.size
      BY <2>3, <2>5
    <3>2. Inlined(result) = IF result.data > MaxInline THEN "without data"
                            ELSE IF result.size > MaxInline THEN "replaced" ELSE "whole"
      BY <3>1 DEF Inlined
    <3>3. result.size <= MaxInline => ~(result.data > MaxInline) /\ ~(result.size > MaxInline)
      BY <2>3, <3>1
    <3>4. ~(result.size <= MaxInline) => result.size > MaxInline
      BY <2>3, <3>1
    <3> QED BY <2>2, <3>2, <3>3, <3>4
  <2>6. CASE result = [kind |-> "nothing", size |-> 0, data |-> 0]
    BY <2>2, <2>6 DEF Inlined
  <2> QED BY <2>4, <2>5, <2>6 DEF ToolResults
<1>14. WithinAllowList'
  <2>1. SUFFICES ASSUME ~agent.all
                 PROVE  \/ name \in agent.tools
                        \/ \E s \in agent.discovers : name \in statuses[s].names
    BY <1>3, <1>6, <1>7 DEF WithinAllowList
  <2>2. CASE name \in agent.tools
    BY <2>2
  <2>3. CASE \E i \in DOMAIN namesBy : namesBy[i].server \in agent.discovers /\ name \in namesBy[i].names
    <3>1. PICK i \in DOMAIN namesBy : namesBy[i].server \in agent.discovers /\ name \in namesBy[i].names
      BY <2>3
    <3>2. namesBy[i].server \in Servers
      BY <1>4, NamedIs
    <3>3. namesBy[i].names \subseteq statuses[namesBy[i].server].names
      BY <3>2 DEF RoutingInv, EntriesFollow, Servers
    <3> QED BY <3>1, <3>3
  <2> QED BY <1>1, <2>1, <2>2, <2>3 DEF Scoped
<1>15. CallCorrect'
  BY <1>10, <1>11, <1>12, <1>13, <1>14 DEF CallCorrect
<1> QED BY <1>1, <1>8, <1>9, <1>15, ListsStay DEF RoutingInv

LEMMA RoutingStarts ==
  ASSUME RoutingInit
  PROVE  RoutingInv
<1>1. /\ routing = "discovering"
      /\ offers \in [Servers -> UNION {Offerings[s] : s \in Servers}] /\ \A s \in Servers : offers[s] \in Offerings[s]
      /\ asked = [s \in Servers |-> "connecting"]
      /\ metadata = [s \in Servers |-> {}]
      /\ allTools = << >> /\ toolRegistry = << >> /\ namesBy = << >> /\ instances = << >>
      /\ statuses = [s \in Servers |-> Status(FALSE, {})]
      /\ lastCall = NoToolCall
  BY DEF RoutingInit
<1>2. RoutingTypes
  <2>1. \A s \in Servers : offers[s] \in SUBSET ToolMetadata /\ IsFiniteSet(offers[s])
    BY <1>1, RoutingAssumption
  <2>2. offers \in [Servers -> SUBSET ToolMetadata]
    BY <1>1, <2>1
  <2>3. Status(FALSE, {}) \in [discovered : BOOLEAN, names : SUBSET STRING, healthy : {"unknown", "yes", "no"}]
    BY DEF Status
  <2>4. \A s \in Servers : metadata[s] = {} /\ IsFiniteSet(metadata[s])
    BY <1>1, FS_EmptySet
  <2>5. metadata \in [Servers -> SUBSET ToolMetadata]
    BY <1>1
  <2>6. asked \in [Servers -> {"connecting", "asked", "told", "failed"}]
    BY <1>1
  <2>7. statuses \in [Servers -> [discovered : BOOLEAN, names : SUBSET STRING, healthy : {"unknown", "yes", "no"}]]
    BY <1>1, <2>3
  <2>8. allTools \in Seq(Entry) /\ toolRegistry \in Seq(Entry) /\ namesBy \in Seq(Named) /\ instances \in Seq(Mailboxes)
    BY <1>1
  <2> QED BY <1>1, <2>1, <2>2, <2>4, <2>5, <2>6, <2>7, <2>8 DEF RoutingTypes
<1>3. OfTold(allTools, routing, asked) /\ OfTold(toolRegistry, routing, asked)
  BY <1>1 DEF OfTold
<1>4. InOrder(allTools, namesBy) /\ InOrder(toolRegistry, namesBy) /\ RouterLast(toolRegistry)
  BY <1>1 DEF InOrder, RouterLast
<1>5. EntriesFollow
  BY <1>1 DEF EntriesFollow
<1>6. ToldIsKept
  BY <1>1 DEF ToldIsKept, Status, Servers
<1>7. PhasesFollow
  BY <1>1 DEF PhasesFollow, Servers
<1>8. StatusTrue
  BY <1>1 DEF StatusTrue, Status, NamesFrom
<1>9. CallCorrect
  BY <1>1 DEF CallCorrect, OwnContext, OwnUploadAuth, ShownDefinition, InlineBounded, WithinAllowList
<1> QED BY <1>2, <1>3, <1>4, <1>5, <1>6, <1>7, <1>8, <1>9 DEF RoutingInv

\* Whatever the servers offer, in whatever order they answer and whenever they restart:
\* the statuses shown are those of the tools agents are given, a privileged call runs in
\* the turn's conversation under its grant, an upload token is for the server called, the
\* definition shown is that server's, a result is handed on whole exactly when it fits,
\* and an agent reaches only what it is allowed.
THEOREM RoutingIsCorrect == RoutingSpec => []RoutingCorrect
<1>1. RoutingInit => RoutingInv
  BY RoutingStarts
<1>2. RoutingInv /\ [RoutingNext]_routingVars => RoutingInv'
  <2>1. SUFFICES ASSUME RoutingInv, [RoutingNext]_routingVars PROVE RoutingInv'
    OBVIOUS
  <2>2. ASSUME NEW s \in Servers, ListTools(s) PROVE RoutingInv'
    BY <2>1, <2>2, ListToolsKeeps
  <2>3. ASSUME NEW s \in Servers, FromServer(s) PROVE RoutingInv'
    BY <2>1, <2>3, FromServerKeeps
  <2>4. ASSUME NEW s \in Servers, DiscoveryFails(s) PROVE RoutingInv'
    BY <2>1, <2>4, DiscoveryFailsKeeps
  <2>5. ASSUME NEW s \in Servers, ProbeServers(s) PROVE RoutingInv'
    BY <2>1, <2>5, ProbeKeeps
  <2>6. ASSUME NEW s \in Servers, ServerRestarts(s) PROVE RoutingInv'
    <3>1. PICK o \in Offerings[s] \cup {{}} : offers' = [offers EXCEPT ![s] = o]
      BY <2>6 DEF ServerRestarts
    <3>2. o \in SUBSET ToolMetadata /\ IsFiniteSet(o)
      BY RoutingAssumption, FS_EmptySet
    <3>3. /\ offers \in [Servers -> SUBSET ToolMetadata] /\ \A t \in Servers : IsFiniteSet(offers[t])
      BY <2>1 DEF RoutingInv, RoutingTypes
    <3>4. offers' \in [Servers -> SUBSET ToolMetadata] /\ \A t \in Servers : IsFiniteSet(offers'[t])
      BY <3>1, <3>2, <3>3
    <3>5. UNCHANGED <<discoveryVars, lastCall>>
      BY <2>6 DEF ServerRestarts
    <3> QED BY <2>1, <3>4, <3>5, RestartKeeps
  <2>7. ASSUME Discovered PROVE RoutingInv'
    BY <2>1, <2>7, DiscoveredKeeps
  <2>8. ASSUME Probed PROVE RoutingInv'
    <3>1. /\ routing = "probing" /\ routing' = "running"
          /\ UNCHANGED <<asked, metadata, allTools, toolRegistry, namesBy, statuses, instances, offers, lastCall>>
      BY <2>8 DEF Probed
    <3>2. \A s \in Servers : asked[s] \in {"told", "failed"}
      BY <2>1, <3>1 DEF RoutingInv, PhasesFollow
    <3> QED BY <2>1, <3>1, <3>2, PhaseKeeps
  <2>9. ASSUME NEW agent, NEW turn, NEW name, NEW args, NEW m, CallTool(agent, turn, name, args, m)
        PROVE  RoutingInv'
    BY <2>1, <2>9, CallToolKeeps
  <2>10. ASSUME UNCHANGED routingVars PROVE RoutingInv'
    <3>1. UNCHANGED <<discoveryVars, lastCall>> /\ offers' = offers
      BY <2>10 DEF routingVars
    <3>2. /\ offers \in [Servers -> SUBSET ToolMetadata] /\ \A t \in Servers : IsFiniteSet(offers[t])
      BY <2>1 DEF RoutingInv, RoutingTypes
    <3> QED BY <2>1, <3>1, <3>2, RestartKeeps
  <2> QED BY <2>1, <2>2, <2>3, <2>4, <2>5, <2>6, <2>7, <2>8, <2>9, <2>10 DEF RoutingNext
<1>3. RoutingInv => RoutingCorrect
  BY DEF RoutingInv, CallCorrect, RoutingCorrect
<1> QED BY <1>1, <1>2, <1>3, PTL DEF RoutingSpec
=============================================================================
