-------------------------- MODULE ReleasePipeline --------------------------
(* The job artifacts of .github/workflows/release.yml, with the recorder and
   verifier scripts/image-digests.py and the part of
   scripts/release-manifest.sh that describes the images.

   An image is built under a tag, and every later step names the tag: what it
   works on is the image that is tagged so by then.  Beside the job anything
   may move a tag to another image, or remove it.  An identity is a digest
   of the image's configuration: a later build usually has another, and one
   from the cache, or a tag set by hand, brings an earlier one back. *)
EXTENDS Naturals, Sequences, FiniteSets

CONSTANTS
  Core, Hub,     \* the product images, which the recorder names so
  Containers,    \* the services of the stack that run the Core's image
  Ids,           \* identities of images
  None,
  MaxMoves       \* bound: moves of the tags beside the job

VARIABLES
  tag,           \* for each product image, the identity tagged, or None
  left, back,    \* history: what each tag has been moved off, and the images
                 \* whose tag has come back to one of these
  moves,
  pc, outcome,   \* the next step; "running", "passed" or "failed"
  built,         \* built.json, or None: an identity for each product image
  stack,         \* for each container that was made, the identity it runs
  tested,        \* the identities that the scenarios passed on
  scanned, sbom, \* for each image that was scanned or listed, its identity
  provenance, described  \* the images of provenance.json and of the manifest

daemon == <<tag, left, back, moves>>
evidence == <<tested, scanned, sbom, provenance, described>>
vars == <<daemon, pc, outcome, built, stack, evidence>>

Products == {Core, Hub}

Steps == <<"build core", "build hub", "record", "up", "scenarios", "down", "scan core",
           "scan hub", "sbom core", "sbom hub", "provenance", "manifest", "verify",
           "compare", "publish">>

ASSUME ReleaseAssumption ==
  /\ Core # Hub /\ None \notin Ids
  /\ Containers # {} /\ IsFiniteSet(Containers)
  /\ MaxMoves \in Nat

Init ==
  /\ tag = [n \in Products |-> None] /\ left = [n \in Products |-> {}]
  /\ back = {} /\ moves = 0
  /\ pc = 1 /\ outcome = "running" /\ built = None
  /\ stack = <<>> /\ tested = {} /\ scanned = <<>> /\ sbom = <<>>
  /\ provenance = None /\ described = None

\* f with one more value.
With(f, x, v) == [y \in DOMAIN f \cup {x} |-> IF y = x THEN v ELSE f[y]]

\* What n's tag has been moved off once it names id, and who has come back.
Moved(n, id) ==
  /\ tag' = [tag EXCEPT ![n] = id]
  /\ left' = [left EXCEPT ![n] = (left[n] \cup {tag[n]}) \ {None}]
  /\ back' = IF id \in left[n] THEN back \cup {n} ELSE back

\* docker build, tag or image rm, by anybody.
Move ==
  /\ outcome = "running" /\ moves < MaxMoves /\ moves' = moves + 1
  /\ \E n \in Products, id \in Ids \cup {None} : id # tag[n] /\ Moved(n, id)
  /\ UNCHANGED <<pc, outcome, built, stack, evidence>>

(***************************************************************************)
(* The steps of the job.                                                   *)
(***************************************************************************)
At(step) == outcome = "running" /\ Steps[pc] = step

Advance ==
  /\ pc' = pc + 1
  /\ outcome' = IF pc = Len(Steps) THEN "passed" ELSE "running"

\* Mistake: the step that failed is passed over.
FailPast == outcome' = "failed" /\ pc' = pc + 1

Fail == outcome' = "failed" /\ pc' = pc

Build(n) ==
  /\ At(IF n = Core THEN "build core" ELSE "build hub")
  /\ Advance /\ \E id \in Ids : Moved(n, id)
  /\ UNCHANGED <<moves, built, stack, evidence>>

Inspect(n) == tag[n]

\* What record writes of the images it was given, None when it refuses.
Recorded(names) ==
  IF names = {} \/ \E n \in names : Inspect(n) = None THEN None
  ELSE [n \in names |-> Inspect(n)]

Record ==
  /\ At("record")
  /\ built' = Recorded(Products)
  /\ IF built' = None THEN Fail ELSE Advance
  /\ UNCHANGED <<daemon, stack, evidence>>

\* Compose is given no --build: it makes a container of what is tagged, one
\* service after the other.
Up ==
  /\ At("up")
  /\ \/ /\ tag[Core] = None /\ Fail /\ UNCHANGED stack
     \/ /\ tag[Core] # None
        /\ \E c \in Containers \ DOMAIN stack : stack' = With(stack, c, tag[Core])
        /\ IF DOMAIN stack' = Containers THEN Advance ELSE UNCHANGED <<pc, outcome>>
  /\ UNCHANGED <<daemon, built, evidence>>

\* The scenarios stop, start and restart containers, and make none.
Scenarios ==
  /\ At("scenarios") /\ Advance
  /\ tested' = {stack[c] : c \in DOMAIN stack}
  /\ UNCHANGED <<daemon, built, stack, scanned, sbom, provenance, described>>

\* Mistake: the stack is torn down when the scenarios have passed.
DownPassed ==
  /\ At("down") /\ Advance /\ stack' = <<>>
  /\ UNCHANGED <<daemon, built, evidence>>

\* if: always()
Down ==
  /\ \/ At("down") /\ Advance
     \/ outcome = "failed" /\ stack # <<>> /\ UNCHANGED <<pc, outcome>>
  /\ stack' = <<>>
  /\ UNCHANGED <<daemon, built, evidence>>

\* The image by its reference.
ScanImage(n) ==
  /\ At(IF n = Core THEN "scan core" ELSE "scan hub")
  /\ IF tag[n] = None THEN Fail /\ UNCHANGED scanned
     ELSE Advance /\ scanned' = With(scanned, n, tag[n])
  /\ UNCHANGED <<daemon, built, stack, tested, sbom, provenance, described>>

ListImage(n) ==
  /\ At(IF n = Core THEN "sbom core" ELSE "sbom hub")
  /\ IF tag[n] = None THEN Fail /\ UNCHANGED sbom
     ELSE Advance /\ sbom' = With(sbom, n, tag[n])
  /\ UNCHANGED <<daemon, built, stack, tested, scanned, provenance, described>>

Provenance ==
  /\ At("provenance") /\ Advance
  /\ provenance' = built
  /\ UNCHANGED <<daemon, built, stack, tested, scanned, sbom, described>>

\* RELEASE_IMAGES: the recorded file, as it is.
Manifest ==
  /\ At("manifest") /\ Advance
  /\ described' = built
  /\ UNCHANGED <<daemon, built, stack, tested, scanned, sbom, provenance>>

\* Mistake: an image that is tagged is taken for the one that was recorded.
ThereStill(recorded) ==
  DOMAIN recorded # {} /\ \A n \in DOMAIN recorded : Inspect(n) # None

Unchanged(recorded) ==
  DOMAIN recorded # {} /\ \A n \in DOMAIN recorded : Inspect(n) = recorded[n]

Verify ==
  /\ At("verify")
  /\ IF Unchanged(built) THEN Advance ELSE Fail
  /\ UNCHANGED <<daemon, built, stack, evidence>>

CompareFiles ==
  /\ At("compare")
  /\ IF described = built THEN Advance ELSE Fail
  /\ UNCHANGED <<daemon, built, stack, evidence>>

Publish ==
  /\ At("publish") /\ Advance
  /\ UNCHANGED <<daemon, built, stack, evidence>>

\* The network, a build, a scenario or a scan fails, or an upload.
Break ==
  /\ \E step \in {"build core", "build hub", "up", "scenarios", "scan core", "scan hub",
                  "sbom core", "sbom hub", "publish"} : At(step)
  /\ Fail
  /\ UNCHANGED <<daemon, built, stack, evidence>>

JobStep ==
  \/ Record \/ Up \/ Scenarios \/ Down
  \/ \E n \in Products : Build(n) \/ ScanImage(n) \/ ListImage(n)
  \/ Provenance \/ Manifest \/ Verify \/ CompareFiles \/ Publish \/ Break

Next == JobStep \/ Move

\* The runner takes the steps one after the other, within timeout-minutes.
Spec == Init /\ [][Next]_vars /\ WF_vars(JobStep)

(***************************************************************************)
(* Properties.                                                             *)
(***************************************************************************)
IdsOf(names) == [names -> Ids]

TypeOK ==
  /\ tag \in [Products -> Ids \cup {None}] /\ left \in [Products -> SUBSET Ids]
  /\ back \subseteq Products /\ moves \in 0 .. MaxMoves
  /\ outcome \in {"running", "passed", "failed"}
  /\ pc \in 1 .. IF outcome = "passed" THEN Len(Steps) + 1 ELSE Len(Steps)
  /\ built \in IdsOf(Products) \cup {None}
  /\ DOMAIN stack \subseteq Containers /\ stack \in IdsOf(DOMAIN stack)
  /\ tested \subseteq Ids
  /\ DOMAIN scanned \subseteq Products /\ scanned \in IdsOf(DOMAIN scanned)
  /\ DOMAIN sbom \subseteq Products /\ sbom \in IdsOf(DOMAIN sbom)
  /\ provenance \in IdsOf(Products) \cup {None}
  /\ described \in IdsOf(Products) \cup {None}

\* What was tested is what was scanned, listed and described: the evidence of
\* a release candidate is about one build of each image, whatever happened to
\* the tags meanwhile, but for an image whose tag has come back, at any time
\* and in any way, to an identity it had been moved off: to the recorded one,
\* which verify cannot notice, or to another, for which nothing is said
\* either.  The HUB's image is in no stack, and nothing tests it.
OneArtifact ==
  outcome = "passed" =>
    /\ DOMAIN built = Products /\ described = built /\ provenance = built
    /\ \A n \in Products \ back : n \in DOMAIN scanned /\ n \in DOMAIN sbom
                                  /\ scanned[n] = built[n] /\ sbom[n] = built[n]
    /\ Core \notin back => tested = {built[Core]}

\* The job ends and leaves no container behind, passed or failed.
PipelineEnds == <>[](outcome # "running" /\ stack = <<>>)
=============================================================================
