----------------------------- MODULE MCRegions -----------------------------
(***************************************************************************)
(* Memory that processes share: a named mapping, a mapped file, and the    *)
(* two processes of the proof.  `part` says which one runs, and every step *)
(* is a step of that one.  The first two are never there together, so the  *)
(* variables of one name serve both.                                       *)
(***************************************************************************)
EXTENDS RegionAllocator

VARIABLES part,
          creator, verifier, handles, region, files, meta, hurried, killed

Ask(n, a) == [size |-> n, alignment |-> a]

(* Zero, more than a grain by its alignment, and one that is refused.      *)
MCRequest == {Ask(0, 0), Ask(20, 32), Ask(1, 3)}

(* A file of three grains behind a header taken as large as the mapping's  *)
(* (it has two fields, not four), two lives of each process, and one of    *)
(* the openers that never comes.                                           *)
Mapped == INSTANCE RegionAllocator WITH FileBacked <- TRUE, MaxLives <- 2, Total <- 80
Absent == CHOOSE p \in Openers : TRUE

Proof == INSTANCE SharedHandshake

ASSUME RegionAssumptions == Assumptions /\ Mapped!Assumptions

of_regions == <<object, announced, phase, cur, asked, live, result, lives, past, early>>
of_proof == <<creator, verifier, handles, region, files, meta, hurried, killed>>
all == <<part, of_regions, of_proof>>

RegionsInit ==
  /\ part \in {"shared", "mapped", "proof"}
  /\ IF part = "mapped" THEN Mapped!Init ELSE Init
  /\ Proof!Init

SharedStep == part = "shared" /\ Next /\ UNCHANGED <<part, of_proof>>
MappedStep ==
  part = "mapped" /\ Mapped!Next /\ phase'[Absent] = "outside" /\ UNCHANGED <<part, of_proof>>
ProofStep == part = "proof" /\ Proof!Next /\ UNCHANGED <<part, of_regions>>

RegionsNext == SharedStep \/ MappedStep \/ ProofStep

Runs(A) == A /\ UNCHANGED <<part, of_proof>>

(* The fairness of each part.                                              *)
RegionsSpec ==
  /\ RegionsInit /\ [][RegionsNext]_all
  /\ \A p \in Process : WF_all(part = "shared" /\ Runs(Reserve(p) \/ Retry(p)))
  /\ \A p \in Mapped!Process : WF_all(part = "mapped" /\ Runs(Mapped!Reserve(p) \/ Mapped!Retry(p)))
  /\ WF_all(part = "proof" /\ Proof!CreatorStep /\ UNCHANGED <<part, of_regions>>)
  /\ WF_all(part = "proof" /\ Proof!VerifierStep /\ UNCHANGED <<part, of_regions>>)

-----------------------------------------------------------------------------
(* Properties: NoByteTwice and AnnouncedStaysPut of RegionAllocator hold   *)
(* in every part (a file ends before a mapping does, and has nothing       *)
(* announced), and what SharedHandshake states.                            *)

(* A verifier that gets at the mapping finds the pattern, fails only for a *)
(* cause, and nothing is left behind (SharedHandshake's).                  *)
HandshakeSound == Proof!HandshakeSound

Reserving(p) == p \in DOMAIN phase /\ phase[p] = "reserving"

(* An allocate() that keeps losing the race for the bump pointer returns,  *)
(* and the two processes of the proof, each waiting for the other, end.    *)
EveryoneEnds ==
  /\ \A p \in Process : Reserving(p) ~> ~ Reserving(p)
  /\ part = "proof" => Proof!HandshakeEnds
=============================================================================
