-------------------------- MODULE SharedHandshake --------------------------
(***************************************************************************)
(* The two processes of the shared-memory proof: the creator               *)
(* (src/shm_creator_main.cpp) and the verifier that launches it            *)
(* (tests/shared_memory_proof.cpp).  They share a named mapping and three  *)
(* coordination files, and wait for each other for a bounded time.         *)
(*                                                                         *)
(* Each process is a straight line; a step is one access to the mapping's  *)
(* name or to a file.  A bounded wait may end at any moment.  Either       *)
(* process may be killed; what it leaves behind stays.                     *)
(***************************************************************************)
EXTENDS FiniteSets

VARIABLES creator,   \* where the creator is, and how it ended
          verifier,  \* where the verifier is, and how it ended
          handles,   \* processes with the mapping open; it goes with the last
          region,    \* the mapping has: "nothing", "pattern", "published"
          files,     \* the coordination files there are
          meta,      \* what the meta file says: "nothing", "place"
          hurried,   \* (history) a bounded wait ended without what it waited for
          killed     \* (history) a process was killed

hvars == <<creator, verifier, handles, region, files, meta, hurried, killed>>

File == {"ready", "meta", "release"}
Ended == {"passed", "failed", "killed"}

Init ==
  /\ creator = "create" /\ verifier = "find"
  /\ handles = {} /\ region = "nothing"
  /\ files = {} /\ meta = "nothing"
  /\ hurried = FALSE /\ killed = FALSE

Closes(p) ==
  /\ handles' = handles \ {p}
  /\ region' = IF handles \subseteq {p} THEN "nothing" ELSE region

(* Files that the verifier has open.                                       *)
InUse == CASE verifier = "reading" -> {"meta"} [] verifier = "writing" -> {"release"}
           [] OTHER -> {}

(* The system does not remove a file in use; the error is ignored.         *)
Removes(f) ==
  IF f \in InUse THEN UNCHANGED <<files, meta>>
  ELSE /\ files' = files \ {f}
       /\ meta' = IF f = "meta" THEN "nothing" ELSE meta

-----------------------------------------------------------------------------
(* The creator.                                                            *)

CreatorGoes(from, to) == creator = from /\ creator' = to

Create ==
  /\ CreatorGoes("create", "allocate")
  /\ handles' = handles \cup {"creator"}
  /\ UNCHANGED <<verifier, region, files, meta, hurried, killed>>

(* allocate() and write_pattern().                                         *)
Allocate ==
  /\ CreatorGoes("allocate", "publish") /\ region' = "pattern"
  /\ UNCHANGED <<verifier, handles, files, meta, hurried, killed>>

Publish ==
  /\ CreatorGoes("publish", "meta") /\ region' = "published"
  /\ UNCHANGED <<verifier, handles, files, meta, hurried, killed>>

(* No mapping, no memory: the process ends before it wrote any file.       *)
CreatorFails ==
  /\ creator \in {"create", "allocate"} /\ creator' = "failed"
  /\ Closes("creator")
  /\ UNCHANGED <<verifier, files, meta, hurried, killed>>

(* A file exists from its opening on, and has its contents when closed.    *)
OpenMeta ==
  /\ CreatorGoes("meta", "close meta") /\ files' = files \cup {"meta"}
  /\ UNCHANGED <<verifier, handles, region, meta, hurried, killed>>

CloseMeta ==
  /\ CreatorGoes("close meta", "ready") /\ meta' = "place"
  /\ UNCHANGED <<verifier, handles, region, files, hurried, killed>>

WriteReady ==
  /\ CreatorGoes("ready", "wait") /\ files' = files \cup {"ready"}
  /\ UNCHANGED <<verifier, handles, region, meta, hurried, killed>>

SeeRelease ==
  /\ CreatorGoes("wait", "close") /\ "release" \in files
  /\ UNCHANGED <<verifier, handles, region, files, meta, hurried, killed>>

StopWaiting ==
  /\ CreatorGoes("wait", "close") /\ "release" \notin files
  /\ hurried' = TRUE
  /\ UNCHANGED <<verifier, handles, region, files, meta, killed>>

Shutdown ==
  /\ CreatorGoes("close", "remove ready") /\ Closes("creator")
  /\ UNCHANGED <<verifier, files, meta, hurried, killed>>

CreatorRemoves ==
  /\ \/ CreatorGoes("remove ready", "remove meta") /\ Removes("ready")
     \/ CreatorGoes("remove meta", "remove release") /\ Removes("meta")
     \/ CreatorGoes("remove release", "passed") /\ Removes("release")
  /\ UNCHANGED <<verifier, handles, region, hurried, killed>>

-----------------------------------------------------------------------------
(* The verifier.                                                           *)

VerifierGoes(from, to) == verifier = from /\ verifier' = to

(* Mutant of FindFiles: the meta file is enough.                           *)
FindFilesByMeta ==
  /\ VerifierGoes("find", "read") /\ "meta" \in files
  /\ UNCHANGED <<creator, handles, region, files, meta, hurried, killed>>

FindFiles ==
  /\ VerifierGoes("find", "read") /\ {"ready", "meta"} \subseteq files
  /\ UNCHANGED <<creator, handles, region, files, meta, hurried, killed>>

StopLooking ==
  /\ VerifierGoes("find", "failed") /\ ~ {"ready", "meta"} \subseteq files
  /\ hurried' = TRUE
  /\ UNCHANGED <<creator, handles, region, files, meta, killed>>

(* A missing meta file reads as an empty one does.                         *)
OpenToRead ==
  /\ VerifierGoes("read", IF "meta" \in files THEN "reading" ELSE "failed")
  /\ UNCHANGED <<creator, handles, region, files, meta, hurried, killed>>

ReadMeta ==
  /\ VerifierGoes("reading", IF meta = "place" THEN "open" ELSE "failed")
  /\ UNCHANGED <<creator, handles, region, files, meta, hurried, killed>>

Open ==
  /\ IF handles = {} THEN VerifierGoes("open", "failed") /\ UNCHANGED handles
     ELSE VerifierGoes("open", "verify") /\ handles' = handles \cup {"verifier"}
  /\ UNCHANGED <<creator, region, files, meta, hurried, killed>>

(* The pattern is or is not there; the mapping is closed in either case.   *)
Verify ==
  /\ VerifierGoes("verify", IF region = "published" THEN "release" ELSE "failed")
  /\ Closes("verifier")
  /\ UNCHANGED <<creator, files, meta, hurried, killed>>

OpenRelease ==
  /\ VerifierGoes("release", "writing") /\ files' = files \cup {"release"}
  /\ UNCHANGED <<creator, handles, region, meta, hurried, killed>>

CloseRelease ==
  /\ VerifierGoes("writing", "wait")
  /\ UNCHANGED <<creator, handles, region, files, meta, hurried, killed>>

(* WaitForSingleObject(), for longer than the creator can wait itself; the *)
(* exit code must be 0.                                                    *)
SeeCreatorEnd ==
  /\ creator \in Ended
  /\ VerifierGoes("wait", IF creator = "passed" THEN "remove ready" ELSE "failed")
  /\ UNCHANGED <<creator, handles, region, files, meta, hurried, killed>>

VerifierRemoves ==
  /\ \/ VerifierGoes("remove ready", "remove meta") /\ Removes("ready")
     \/ VerifierGoes("remove meta", "remove release") /\ Removes("meta")
     \/ VerifierGoes("remove release", "passed") /\ Removes("release")
  /\ UNCHANGED <<creator, handles, region, hurried, killed>>

-----------------------------------------------------------------------------
KillCreator ==
  /\ creator \notin Ended /\ creator' = "killed"
  /\ Closes("creator") /\ killed' = TRUE
  /\ UNCHANGED <<verifier, files, meta, hurried>>

KillVerifier ==
  /\ verifier \notin Ended /\ verifier' = "killed"
  /\ Closes("verifier") /\ killed' = TRUE
  /\ UNCHANGED <<creator, files, meta, hurried>>

CreatorStep ==
  \/ Create \/ Allocate \/ Publish \/ CreatorFails \/ OpenMeta \/ CloseMeta \/ WriteReady
  \/ SeeRelease \/ StopWaiting \/ Shutdown \/ CreatorRemoves

VerifierStep ==
  \/ FindFiles \/ StopLooking \/ OpenToRead \/ ReadMeta \/ Open \/ Verify
  \/ OpenRelease \/ CloseRelease \/ SeeCreatorEnd \/ VerifierRemoves

Next == CreatorStep \/ VerifierStep \/ KillCreator \/ KillVerifier

(* Both are processes the system schedules.                                *)
Spec == Init /\ [][Next]_hvars /\ WF_hvars(CreatorStep) /\ WF_hvars(VerifierStep)

-----------------------------------------------------------------------------
(* Properties.                                                             *)

(* Type invariant, the first part of HandshakeSound.                       *)
TypeOK ==
  /\ handles \subseteq {"creator", "verifier"} /\ files \subseteq File
  /\ region \in {"nothing", "pattern", "published"}
  /\ meta \in {"nothing", "place"} /\ (meta = "place" => "meta" \in files)
  /\ {hurried, killed} \subseteq BOOLEAN

(* A verifier that gets at the mapping finds the pattern there, the        *)
(* creator having come to its end or not; it fails only if one of the two  *)
(* did not wait long enough, the creator failed, or one was killed; and    *)
(* the two leave neither the mapping nor a file behind, however late a     *)
(* release comes, unless one was killed, or the creator gave up waiting    *)
(* and could not remove what a verifier that fails later was reading.      *)
HandshakeSound ==
  /\ TypeOK
  /\ verifier = "verify" => region = "published"
  /\ verifier = "failed" => hurried \/ killed \/ creator = "failed"
  /\ {creator, verifier} \subseteq Ended =>
       /\ handles = {}
       /\ files = {} \/ killed \/ (hurried /\ verifier = "failed")

(* Both come to an end, though each waits for the other.                   *)
HandshakeEnds == <>[]({creator, verifier} \subseteq Ended)
=============================================================================
