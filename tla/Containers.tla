----------------------------- MODULE Containers -----------------------------
(***************************************************************************)
(* tool-docker: the containers that ContainerManager keeps, each with a    *)
(* record and, unless it is to live on, a timer; the calls that create,    *)
(* list, look at, use and stop them; and the files docker_exec uploads.    *)
(* Every command of the docker client is awaited, and calls overlap.       *)
(*                                                                         *)
(* Docker is external: a container, named by the order of creation, runs   *)
(* until it ends by itself or is removed, a command answers or fails.  All *)
(* containers are of one image, and a compose file has one service.  A     *)
(* record is named by the container that was created for it.               *)
(***************************************************************************)
EXTENDS Naturals, FiniteSets

CONSTANTS
  DockerCalls,    \* the calls that may be underway
  MaxContainers,  \* bound: containers created
  UploadPaths,    \* how many files a command leaves to upload
  MaxFiles,       \* uploadMaxFiles
  MaxBytes        \* uploadMaxBytes; a file has one more at most

ASSUME DockerAssumption ==
  MaxContainers \in Nat /\ UploadPaths \in Nat /\ MaxFiles \in Nat /\ MaxBytes \in Nat

VARIABLES
  up,        \* the containers docker has
  created,   \* how many have been created
  records,   \* containers: each record's container, and whether it expires
  ttlTimers, \* timers: the records with one
  removing,  \* the containers that "docker rm" has been called for
  docking,   \* what each call is doing
  server,    \* "on", "stopping" (removeAll) or "off"
  forsaken,  \* history: containers a command failed for, or that nobody came to know
  mistaken   \* history: a call took the container of another for its own

dockerVars == <<up, created, records, ttlTimers, removing, docking, server, forsaken, mistaken>>

Container == 1..MaxContainers
NoDocking == [phase |-> "none", container |-> 0, expires |-> FALSE, files |-> 0, bytes |-> 0,
              stale |-> {}]
Ids == {r.id : r \in records}
Named(id) == CHOOSE r \in records : r.id = id
Doing(c, phase) == docking[c].phase = phase
Go(c, r) == docking' = [docking EXCEPT ![c] = r]
Latest == CHOOSE d \in up : \A e \in up : e <= d

-----------------------------------------------------------------------------
(* ContainerManager                                                        *)

\* Variant for mutation: the timer is set only when asked for.
RegisterUntimed(id, d, expires) ==
  /\ records' = records \cup {[id |-> id, container |-> d, expires |-> expires]}
  /\ UNCHANGED ttlTimers

\* register
Register(id, d, expires) ==
  /\ records' = records \cup {[id |-> id, container |-> d, expires |-> expires]}
  /\ ttlTimers' = IF expires THEN ttlTimers \cup {id} ELSE ttlTimers

\* Variant for mutation: the timer goes on.
RemoveRecord(some) ==
  /\ records' = {r \in records : r.id \notin some}
  /\ removing' = removing \cup {r.container : r \in records \ records'}
  /\ UNCHANGED ttlTimers

\* Variant for mutation: docker is not asked.
RemoveTracked(some) ==
  /\ records' = {r \in records : r.id \notin some}
  /\ ttlTimers' = ttlTimers \ some
  /\ UNCHANGED removing

\* remove, of some records: record and timer go at once, the container once docker
\* has been asked.
RemoveContainers(some) ==
  /\ records' = {r \in records : r.id \notin some}
  /\ removing' = removing \cup {r.container : r \in records \ records'}
  /\ ttlTimers' = ttlTimers \ some

\* docker rm --force; an error is nobody's business.
Removed(d) ==
  /\ d \in removing
  /\ removing' = removing \ {d}
  /\ \/ up' = up \ {d} /\ UNCHANGED forsaken
     \/ forsaken' = forsaken \cup {d} /\ UNCHANGED up
  /\ UNCHANGED <<created, records, ttlTimers, docking, server, mistaken>>

TtlExpires(id) ==
  /\ id \in ttlTimers
  /\ RemoveContainers({id})
  /\ UNCHANGED <<up, created, docking, server, forsaken, mistaken>>

\* A container ends by itself (--rm), or is removed by somebody else.
Ends(d) ==
  /\ d \in up
  /\ up' = up \ {d}
  /\ UNCHANGED <<created, records, ttlTimers, removing, docking, server, forsaken, mistaken>>

-----------------------------------------------------------------------------
(* docker_create_container                                                 *)

Create(c, way, expires) ==
  /\ Doing(c, "none")
  /\ created < MaxContainers
  /\ created' = created + 1
  /\ up' = up \cup {created + 1}
  /\ Go(c, [NoDocking EXCEPT !.phase = way, !.container = created + 1, !.expires = expires])
  /\ UNCHANGED <<records, ttlTimers, removing, server, forsaken, mistaken>>

\* runContainer: docker inspect finds the container, or it does not, or fails:
\* then the call does, and the container, if it runs, is nobody's.
Inspected(c) ==
  LET d == docking[c].container IN
  /\ Doing(c, "inspecting")
  /\ \/ /\ d \in up
        /\ Register(d, d, docking[c].expires)
        /\ forsaken' = IF server = "on" THEN forsaken ELSE forsaken \cup {d}
     \/ /\ forsaken' = forsaken \cup {d}
        /\ UNCHANGED <<records, ttlTimers>>
  /\ Go(c, NoDocking)
  /\ UNCHANGED <<up, created, removing, server, mistaken>>

\* runWithCompose: the container is the latest of the image.
ComposeIsUp(c) ==
  /\ Doing(c, "composing")
  /\ \/ /\ up # {}
        /\ Register(docking[c].container, Latest, docking[c].expires)
        /\ mistaken' = (mistaken \/ Latest # docking[c].container)
        /\ forsaken' = IF server = "on" /\ Latest = docking[c].container THEN forsaken
                       ELSE forsaken \cup {docking[c].container}
     \/ /\ forsaken' = forsaken \cup {docking[c].container}
        /\ UNCHANGED <<records, ttlTimers, mistaken>>
  /\ Go(c, NoDocking)
  /\ UNCHANGED <<up, created, removing, server>>

-----------------------------------------------------------------------------
(* The other tools                                                         *)

\* docker_stop_container
StopContainer(id) ==
  /\ id \in Ids
  /\ RemoveContainers({id})
  /\ UNCHANGED <<up, created, docking, server, forsaken, mistaken>>

\* docker_list_containers and docker_container_ttl: what cannot be inspected is
\* stale, and once all have answered the stale ones are removed.
Look(c, some) ==
  /\ Doing(c, "none")
  /\ some # {}
  /\ \E failed \in {{}} \cup {{id} : id \in some} :
       Go(c, [NoDocking EXCEPT !.phase = "looking",
                !.stale = {id \in some : Named(id).container \notin up} \cup failed])
  /\ UNCHANGED <<up, created, records, ttlTimers, removing, server, forsaken, mistaken>>

Looked(c) ==
  /\ Doing(c, "looking")
  /\ RemoveContainers(docking[c].stale)
  /\ Go(c, NoDocking)
  /\ UNCHANGED <<up, created, server, forsaken, mistaken>>

\* docker_exec: the command runs, whatever becomes of the record.
Exec(c, r) ==
  /\ Doing(c, "none")
  /\ Go(c, [NoDocking EXCEPT !.phase = "executing", !.container = r.container, !.stale = {r.id}])
  /\ UNCHANGED <<up, created, records, ttlTimers, removing, server, forsaken, mistaken>>

\* It ends, or runs out of time; there is no such container; or it leaves files,
\* the first of which are to be uploaded.
Executed(c) ==
  LET d == docking[c].container IN
  /\ Doing(c, "executing")
  /\ \/ Go(c, NoDocking) /\ UNCHANGED <<records, ttlTimers, removing>>
     \/ d \notin up /\ RemoveContainers(docking[c].stale) /\ Go(c, NoDocking)
     \/ /\ d \in up
        /\ Go(c, [docking[c] EXCEPT !.phase = "uploading",
                    !.files = IF UploadPaths < MaxFiles THEN UploadPaths ELSE MaxFiles])
        /\ UNCHANGED <<records, ttlTimers, removing>>
  /\ UNCHANGED <<up, created, server, forsaken, mistaken>>

\* Variant for mutation: what has been uploaded is looked at, not what is to be.
FitsLate(c, size) == docking[c].bytes < MaxBytes
Fits(c, size) == docking[c].bytes + size <= MaxBytes

\* uploadArtifactsFromContainer, one file: it cannot be copied, is too large, or
\* cannot be uploaded, and is skipped; or it is uploaded.
UploadOne(c, size) ==
  LET d == docking[c].container IN
  /\ Doing(c, "uploading")
  /\ docking[c].files > 0
  /\ \/ Go(c, [docking[c] EXCEPT !.files = @ - 1])
     \/ /\ d \in up
        /\ Fits(c, size)
        /\ Go(c, [docking[c] EXCEPT !.files = @ - 1, !.bytes = @ + size])
  /\ UNCHANGED <<up, created, records, ttlTimers, removing, server, forsaken, mistaken>>

ExecEnds(c) ==
  /\ Doing(c, "uploading")
  /\ docking[c].files = 0
  /\ Go(c, NoDocking)
  /\ UNCHANGED <<up, created, records, ttlTimers, removing, server, forsaken, mistaken>>

\* The server stops: all that is recorded is removed; when docker has answered
\* the process ends, with the calls underway and what they have registered since.
StopServer ==
  /\ \/ /\ server = "on"
        /\ server' = "stopping"
        /\ RemoveContainers(Ids)
        /\ UNCHANGED <<docking, forsaken>>
     \/ /\ server = "stopping"
        /\ removing = {}
        /\ server' = "off"
        /\ forsaken' = forsaken \cup {docking[c].container : c \in DockerCalls}
        /\ docking' = [c \in DockerCalls |-> NoDocking]
        /\ records' = {} /\ ttlTimers' = {} /\ UNCHANGED removing
  /\ UNCHANGED <<up, created, mistaken>>

-----------------------------------------------------------------------------
DockerInit ==
  /\ up = {} /\ created = 0 /\ records = {} /\ ttlTimers = {} /\ removing = {}
  /\ docking = [c \in DockerCalls |-> NoDocking]
  /\ server = "on" /\ forsaken = {} /\ mistaken = FALSE

DockerNext ==
  /\ server # "off"
  /\ \/ \E c \in DockerCalls :
          \/ \E way \in {"inspecting", "composing"}, e \in BOOLEAN : Create(c, way, e)
          \/ Inspected(c) \/ ComposeIsUp(c)
          \/ \E r \in records : Look(c, {r.id}) \/ Exec(c, r)
          \/ Look(c, Ids) \/ Looked(c) \/ Executed(c)
          \/ (\E size \in 1..(MaxBytes + 1) : UploadOne(c, size)) \/ ExecEnds(c)
     \/ \E d \in up : Ends(d)
     \/ \E d \in Container : Removed(d) \/ TtlExpires(d) \/ StopContainer(d)
     \/ StopServer

DockerSpec == DockerInit /\ [][DockerNext]_dockerVars

\* Time passes, and docker answers.
DockerFair == \A d \in Container : WF_dockerVars(TtlExpires(d)) /\ WF_dockerVars(Removed(d))

-----------------------------------------------------------------------------
(* Properties                                                              *)

DockerTypeOK ==
  /\ created \in 0..MaxContainers /\ up \subseteq 1..created /\ removing \subseteq 1..created
  /\ records \subseteq [id : 1..created, container : 1..created, expires : BOOLEAN]
  /\ docking \in [DockerCalls ->
       [phase : {"none", "inspecting", "composing", "looking", "executing", "uploading"},
        container : 0..created, expires : BOOLEAN, files : Nat, bytes : Nat, stale : SUBSET (1..created)]]
  /\ server \in {"on", "stopping", "off"}

\* A container that runs is recorded, or a call is about it, or its removal is
\* underway, unless a command failed for it: none is left behind.
ContainersAreManaged ==
  \A d \in up \ forsaken :
    (\E r \in records : r.container = d) \/ d \in removing \/ \E c \in DockerCalls : docking[c].container = d

\* The timers are those of the records that expire: a record that has gone leaves
\* none, and one that is there has its own.
TimersAreOfRecords == ttlTimers = {r.id : r \in {r \in records : r.expires}}

\* What is uploaded for one command stays within the cap.
UploadsAreCapped == \A c \in DockerCalls : docking[c].bytes <= MaxBytes

\* A container that is to expire is gone in the end.
ExpiredIsGone ==
  \A d \in Container :
    (\E r \in records : r.expires /\ r.container = d) ~> (d \notin up \/ d \in forsaken \/ server = "off")

\* What runs is known, what is known expires, what is copied is bounded.
DockerCorrect == DockerTypeOK /\ ContainersAreManaged /\ TimersAreOfRecords /\ UploadsAreCapped
=============================================================================
