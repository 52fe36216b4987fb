------------------------ MODULE ReleasePipelineProofs ------------------------
(* The evidence of a release candidate is about one build of each image, for
   any number of identities, containers and moves of the tags.

   Why: what a step reads of a tag is on the tag's trail, and so is the
   recorded identity.  A tag that has left the recorded image can only be on
   it again by coming back.  So while the tag is on the recorded image and
   has not come back, all that was read since is the recorded image; and this
   is what verify looks at, last. *)
EXTENDS ReleasePipeline, TLAPS

Agrees(n) ==
  /\ n \in DOMAIN scanned => scanned[n] = built[n]
  /\ n \in DOMAIN sbom => sbom[n] = built[n]
  /\ n = Core => /\ \A id \in tested : id = built[Core]
                 /\ \A c \in DOMAIN stack : stack[c] = built[Core]

Traced ==
  built # None => \A n \in Products :
    /\ built[n] \in {tag[n]} \cup left[n]
    /\ n \notin back /\ tag[n] = built[n] => Agrees(n)
    /\ n \notin back /\ pc > 13 => Agrees(n)

\* What the steps so far have left.
Done ==
  /\ pc <= 3 => /\ built = None /\ DOMAIN stack = {} /\ tested = {}
                /\ DOMAIN scanned = {} /\ DOMAIN sbom = {}
  /\ pc > 3 => built # None
  /\ pc = 5 => DOMAIN stack = Containers \/ outcome = "failed"
  /\ pc > 5 => tested # {}
  /\ pc > 7 => Core \in DOMAIN scanned
  /\ pc > 8 => Hub \in DOMAIN scanned
  /\ pc > 9 => Core \in DOMAIN sbom
  /\ pc > 10 => Hub \in DOMAIN sbom
  /\ pc > 11 => provenance = built
  /\ pc > 12 => described = built
  /\ outcome = "passed" => pc = 16

IndInv == TypeOK /\ Traced /\ Done

LEMMA StepsLong == Len(Steps) = 15
BY DEF Steps

LEMMA StepAt ==
  ASSUME NEW p \in 1 .. 15
  PROVE  /\ Steps[p] = "build core" => p = 1
         /\ Steps[p] = "build hub" => p = 2
         /\ Steps[p] = "record" => p = 3
         /\ Steps[p] = "up" => p = 4
         /\ Steps[p] = "scenarios" => p = 5
         /\ Steps[p] = "down" => p = 6
         /\ Steps[p] = "scan core" => p = 7
         /\ Steps[p] = "scan hub" => p = 8
         /\ Steps[p] = "sbom core" => p = 9
         /\ Steps[p] = "sbom hub" => p = 10
         /\ Steps[p] = "provenance" => p = 11
         /\ Steps[p] = "manifest" => p = 12
         /\ Steps[p] = "verify" => p = 13
         /\ Steps[p] = "compare" => p = 14
         /\ Steps[p] = "publish" => p = 15
<1>1. /\ Steps[1] = "build core"
      /\ Steps[2] = "build hub"
      /\ Steps[3] = "record"
      /\ Steps[4] = "up"
      /\ Steps[5] = "scenarios"
      /\ Steps[6] = "down"
      /\ Steps[7] = "scan core"
      /\ Steps[8] = "scan hub"
      /\ Steps[9] = "sbom core"
      /\ Steps[10] = "sbom hub"
      /\ Steps[11] = "provenance"
      /\ Steps[12] = "manifest"
      /\ Steps[13] = "verify"
      /\ Steps[14] = "compare"
      /\ Steps[15] = "publish"
  BY DEF Steps
<1>2. \/ p = 1 \/ p = 2 \/ p = 3 \/ p = 4 \/ p = 5
      \/ p = 6 \/ p = 7 \/ p = 8 \/ p = 9 \/ p = 10
      \/ p = 11 \/ p = 12 \/ p = 13 \/ p = 14 \/ p = 15
  OBVIOUS
<1> QED BY <1>1, <1>2

\* Where a running job is.
LEMMA AtStep ==
  ASSUME TypeOK, NEW step, At(step)
  PROVE  /\ outcome = "running" /\ pc \in 1 .. 15
         /\ step = "build core" => pc = 1
         /\ step = "build hub" => pc = 2
         /\ step = "record" => pc = 3
         /\ step = "up" => pc = 4
         /\ step = "scenarios" => pc = 5
         /\ step = "down" => pc = 6
         /\ step = "scan core" => pc = 7
         /\ step = "scan hub" => pc = 8
         /\ step = "sbom core" => pc = 9
         /\ step = "sbom hub" => pc = 10
         /\ step = "provenance" => pc = 11
         /\ step = "manifest" => pc = 12
         /\ step = "verify" => pc = 13
         /\ step = "compare" => pc = 14
         /\ step = "publish" => pc = 15
<1>1. outcome = "running" /\ pc \in 1 .. 15 /\ Steps[pc] = step
  BY StepsLong DEF TypeOK, At
<1> QED BY <1>1, StepAt

LEMMA WithIs ==
  ASSUME NEW f, NEW x, NEW v
  PROVE  /\ DOMAIN With(f, x, v) = DOMAIN f \cup {x}
         /\ With(f, x, v)[x] = v
         /\ \A y \in DOMAIN f : y # x => With(f, x, v)[y] = f[y]
BY DEF With

LEMMA WithTyped ==
  ASSUME NEW X, NEW f, DOMAIN f \subseteq X, f \in IdsOf(DOMAIN f), NEW x \in X, NEW v \in Ids
  PROVE  /\ DOMAIN With(f, x, v) \subseteq X
         /\ With(f, x, v) \in IdsOf(DOMAIN With(f, x, v))
<1>1. DOMAIN With(f, x, v) = DOMAIN f \cup {x}
  BY WithIs
<1>2. With(f, x, v) \in IdsOf(DOMAIN f \cup {x})
  BY DEF With, IdsOf
<1> QED BY <1>1, <1>2

\* A step that is over, well or not, is in its place.
LEMMA PcTyped ==
  ASSUME TypeOK, outcome = "running", Advance \/ Fail \/ UNCHANGED <<pc, outcome>>
  PROVE  /\ outcome' \in {"running", "passed", "failed"}
         /\ pc' \in 1 .. IF outcome' = "passed" THEN Len(Steps) + 1 ELSE Len(Steps)
         /\ outcome' = "passed" => pc' = 16
<1>1. pc \in 1 .. 15
  BY StepsLong DEF TypeOK
<1> QED BY <1>1, StepsLong DEF Advance, Fail

LEMMA Start == Init => IndInv
<1> SUFFICES ASSUME Init PROVE IndInv
  OBVIOUS
<1> USE DEF Init
<1>1. TypeOK
  BY StepsLong, ReleaseAssumption DEF TypeOK, IdsOf
<1>2. Traced
  BY DEF Traced
<1>3. Done
  BY DEF Done
<1> QED BY <1>1, <1>2, <1>3 DEF IndInv

\* The tags move, and nothing else does.
LEMMA MovedTyped ==
  ASSUME TypeOK, NEW n \in Products, NEW id \in Ids \cup {None}, Moved(n, id)
  PROVE  /\ tag' \in [Products -> Ids \cup {None}] /\ left' \in [Products -> SUBSET Ids]
         /\ back' \subseteq Products
<1>1. tag[n] \in Ids \cup {None} /\ left[n] \subseteq Ids
  BY DEF TypeOK
<1> QED BY <1>1 DEF TypeOK, Moved

LEMMA MovedTraced ==
  ASSUME TypeOK, Traced, NEW n \in Products, NEW id \in Ids \cup {None}, id # tag[n],
         Moved(n, id), UNCHANGED <<built, stack, tested, scanned, sbom, pc>>
  PROVE  Traced'
<1> SUFFICES ASSUME built # None, NEW m \in Products
             PROVE  /\ built[m] \in {tag'[m]} \cup left'[m]
                    /\ m \notin back' /\ tag'[m] = built[m] => Agrees(m)
                    /\ m \notin back' /\ pc > 13 => Agrees(m)
  <2>1. \A m : Agrees(m)' <=> Agrees(m)
    BY DEF Agrees
  <2> QED BY <2>1 DEF Traced
<1>1. /\ built[m] \in {tag[m]} \cup left[m]
      /\ m \notin back /\ tag[m] = built[m] => Agrees(m)
      /\ m \notin back /\ pc > 13 => Agrees(m)
  BY DEF Traced
<1>2. built[m] # None
  BY ReleaseAssumption DEF TypeOK, IdsOf
<1>3. back \subseteq back'
  BY DEF Moved
<1>4. CASE m # n
  <2>1. tag'[m] = tag[m] /\ left'[m] = left[m]
    BY <1>4 DEF Moved, TypeOK
  <2> QED BY <1>1, <1>3, <2>1
<1>5. CASE m = n
  <2>1. /\ tag'[m] = id /\ left'[m] = (left[m] \cup {tag[m]}) \ {None}
        /\ id \in left[m] => m \in back'
    BY <1>5 DEF Moved, TypeOK
  <2>2. built[m] \in left'[m]
    BY <1>1, <1>2, <2>1
  <2>3. m \notin back' => id # built[m]
    BY <1>1, <1>2, <1>5, <2>1
  <2> QED BY <1>1, <1>3, <2>1, <2>2, <2>3
<1> QED BY <1>4, <1>5

LEMMA MoveKeeps == IndInv /\ Move => IndInv'
<1> SUFFICES ASSUME IndInv, Move PROVE IndInv'
  OBVIOUS
<1>1. PICK n \in Products, id \in Ids \cup {None} : id # tag[n] /\ Moved(n, id)
  BY DEF Move
<1>2. /\ moves < MaxMoves /\ moves' = moves + 1
      /\ UNCHANGED <<pc, outcome, built, stack, tested, scanned, sbom, provenance, described>>
  BY DEF Move, evidence
<1>3. TypeOK'
  <2>1. moves' \in 0 .. MaxMoves
    BY <1>2, ReleaseAssumption DEF IndInv, TypeOK
  <2> QED BY <1>1, <1>2, <2>1, MovedTyped DEF IndInv, TypeOK
<1>4. Traced'
  BY <1>1, <1>2, MovedTraced DEF IndInv
<1>5. Done'
  BY <1>2 DEF IndInv, Done
<1> QED BY <1>3, <1>4, <1>5 DEF IndInv

(***************************************************************************)
(* The steps of the job.                                                   *)
(***************************************************************************)
\* What a step reads of a tag agrees when the tag is on the recorded image.
LEMMA StaysTraced ==
  ASSUME Traced, UNCHANGED <<tag, left, back, built>>,
         \A n \in Products : tag[n] = built[n] /\ Agrees(n) => Agrees(n)',
         pc' > 13 => /\ pc > 13 \/ \A n \in Products : tag[n] = built[n]
                     /\ \A n \in Products : Agrees(n) => Agrees(n)'
  PROVE  Traced'
<1> SUFFICES ASSUME built # None, NEW n \in Products
             PROVE  /\ built[n] \in {tag[n]} \cup left[n]
                    /\ n \notin back /\ tag[n] = built[n] => Agrees(n)'
                    /\ n \notin back /\ pc' > 13 => Agrees(n)'
  BY DEF Traced
<1>1. /\ built[n] \in {tag[n]} \cup left[n]
      /\ n \notin back /\ tag[n] = built[n] => Agrees(n)
      /\ n \notin back /\ pc > 13 => Agrees(n)
  BY DEF Traced
<1> HIDE DEF Agrees
<1> QED BY <1>1

\* A step that reads no tag.
LEMMA Reads ==
  ASSUME UNCHANGED <<built, stack, tested, scanned, sbom>>, NEW n
  PROVE  Agrees(n) <=> Agrees(n)'
BY DEF Agrees

LEMMA BuildKeeps == IndInv /\ (\E n \in Products : Build(n)) => IndInv'
<1> SUFFICES ASSUME IndInv, NEW n \in Products, Build(n) PROVE IndInv'
  OBVIOUS
<1>1. PICK id \in Ids : Moved(n, id)
  BY DEF Build
<1>2. /\ outcome = "running" /\ pc \in 1 .. 2 /\ Advance
      /\ UNCHANGED <<moves, built, stack, tested, scanned, sbom, provenance, described>>
  <2>1. /\ Advance
        /\ UNCHANGED <<moves, built, stack, tested, scanned, sbom, provenance, described>>
        /\ At("build core") \/ At("build hub")
    BY DEF Build, evidence
  <2>2. At("build core") => outcome = "running" /\ pc = 1
    BY AtStep DEF IndInv
  <2>3. At("build hub") => outcome = "running" /\ pc = 2
    BY AtStep DEF IndInv
  <2>4. outcome = "running" /\ (pc = 1 \/ pc = 2)
    BY <2>1, <2>2, <2>3, Zenon
  <2>5. pc \in 1 .. 2
    BY <2>4
  <2> QED BY <2>1, <2>4, <2>5, Zenon
<1>3. pc' \in 1 .. 3 /\ outcome' = "running"
  BY <1>2, StepsLong DEF Advance
<1>4. TypeOK'
  BY <1>1, <1>2, <1>3, MovedTyped, StepsLong DEF IndInv, TypeOK
<1>5. built' = None
  BY <1>2 DEF IndInv, Done
<1>6. Done'
  BY <1>2, <1>3 DEF IndInv, Done
<1> QED BY <1>4, <1>5, <1>6 DEF IndInv, Traced

LEMMA RecordKeeps == IndInv /\ Record => IndInv'
<1> SUFFICES ASSUME IndInv, Record PROVE IndInv'
  OBVIOUS
<1>1. /\ outcome = "running" /\ pc = 3
      /\ built' = Recorded(Products)
      /\ IF built' = None THEN Fail ELSE Advance
      /\ UNCHANGED <<tag, left, back, moves, stack, tested, scanned, sbom, provenance, described>>
  BY AtStep DEF IndInv, Record, daemon, evidence
<1>2. /\ outcome' \in {"running", "passed", "failed"}
      /\ pc' \in 1 .. IF outcome' = "passed" THEN Len(Steps) + 1 ELSE Len(Steps)
      /\ outcome' = "passed" => pc' = 16
  BY <1>1, PcTyped DEF IndInv
<1>3. built' # None => built' \in IdsOf(Products) /\ \A n \in Products : built'[n] = tag[n]
  BY <1>1 DEF IndInv, TypeOK, Recorded, Inspect, IdsOf
<1>4. TypeOK'
  BY <1>1, <1>2, <1>3 DEF IndInv, TypeOK
<1>5. /\ DOMAIN stack' = {} /\ tested' = {} /\ DOMAIN scanned' = {} /\ DOMAIN sbom' = {}
      /\ pc' = IF built' = None THEN 3 ELSE 4
  BY <1>1 DEF IndInv, Done, Fail, Advance
<1>6. Traced'
  <2>1. \A n : Agrees(n)'
    BY <1>5 DEF Agrees
  <2> QED BY <1>1, <1>3, <2>1 DEF Traced
<1>7. Done'
  BY <1>2, <1>5 DEF Done
<1> QED BY <1>4, <1>6, <1>7 DEF IndInv

LEMMA UpKeeps == IndInv /\ Up => IndInv'
<1> SUFFICES ASSUME IndInv, Up PROVE IndInv'
  OBVIOUS
<1>1. /\ outcome = "running" /\ pc = 4
      /\ UNCHANGED <<tag, left, back, moves, built, tested, scanned, sbom, provenance, described>>
  BY AtStep DEF IndInv, Up, daemon, evidence
<1>2. CASE tag[Core] = None /\ Fail /\ UNCHANGED stack
  <2>1. pc' = 4 /\ outcome' = "failed"
    BY <1>1, <1>2 DEF Fail
  <2>2. TypeOK'
    BY <1>1, <1>2, <2>1, StepsLong DEF IndInv, TypeOK
  <2>3. Traced'
    BY <1>1, <1>2, <2>1, Reads, StaysTraced DEF IndInv
  <2>4. Done'
    BY <1>1, <2>1 DEF IndInv, Done
  <2> QED BY <2>2, <2>3, <2>4 DEF IndInv
<1>3. CASE /\ tag[Core] # None
           /\ \E c \in Containers \ DOMAIN stack : stack' = With(stack, c, tag[Core])
           /\ IF DOMAIN stack' = Containers THEN Advance ELSE UNCHANGED <<pc, outcome>>
  <2>1. PICK c \in Containers \ DOMAIN stack : stack' = With(stack, c, tag[Core])
    BY <1>3
  <2>2. /\ outcome' = "running"
        /\ \/ pc' = 5 /\ DOMAIN stack' = Containers
           \/ pc' = 4
    BY <1>1, <1>3, StepsLong DEF Advance
  <2>3. tag[Core] \in Ids
    BY <1>3 DEF IndInv, TypeOK, Products
  <2>4. TypeOK'
    <3>1. DOMAIN stack' \subseteq Containers /\ stack' \in IdsOf(DOMAIN stack')
      BY <2>1, <2>3, WithTyped DEF IndInv, TypeOK
    <3> QED BY <1>1, <2>2, <3>1, StepsLong DEF IndInv, TypeOK
  <2>5. Traced'
    <3>1. ASSUME NEW n \in Products, tag[n] = built[n], Agrees(n) PROVE Agrees(n)'
      <4>1. n = Core => \A x \in DOMAIN stack' : stack'[x] = built[Core]
        <5>1. n = Core => \A x \in DOMAIN stack : stack[x] = built[Core]
          BY <3>1 DEF Agrees
        <5>2. /\ DOMAIN stack' = DOMAIN stack \cup {c} /\ stack'[c] = tag[Core]
              /\ \A x \in DOMAIN stack : x # c => stack'[x] = stack[x]
          BY <2>1 DEF With
        <5>3. n = Core => tag[Core] = built[Core]
          BY <3>1
        <5> HIDE <2>1, <3>1
        <5> QED BY <5>1, <5>2, <5>3, Zenon
      <4> QED BY <1>1, <3>1, <4>1 DEF Agrees
    <3>2. ~(pc' > 13)
      BY <2>2
    <3> QED BY <1>1, <3>1, <3>2, StaysTraced DEF IndInv
  <2>6. Done'
    BY <1>1, <2>2 DEF IndInv, Done
  <2> QED BY <2>4, <2>5, <2>6 DEF IndInv
<1> QED BY <1>2, <1>3 DEF Up

LEMMA ScenariosKeeps == IndInv /\ Scenarios => IndInv'
<1> SUFFICES ASSUME IndInv, Scenarios PROVE IndInv'
  OBVIOUS
<1>1. /\ outcome = "running" /\ pc = 5 /\ Advance
      /\ tested' = {stack[c] : c \in DOMAIN stack}
      /\ UNCHANGED <<tag, left, back, moves, built, stack, scanned, sbom, provenance, described>>
  BY AtStep DEF IndInv, Scenarios, daemon
<1>2. pc' = 6 /\ outcome' = "running"
  BY <1>1, StepsLong DEF Advance
<1>3. TypeOK'
  <2>1. tested' \subseteq Ids
    BY <1>1 DEF IndInv, TypeOK, IdsOf
  <2> QED BY <1>1, <1>2, <2>1, StepsLong DEF IndInv, TypeOK
<1>4. Traced'
  <2>1. \A n \in Products : Agrees(n) => Agrees(n)'
    BY <1>1 DEF Agrees
  <2>2. ~(pc' > 13)
    BY <1>2
  <2> QED BY <1>1, <2>1, <2>2, StaysTraced DEF IndInv
<1>5. Done'
  <2>1. tested' # {}
    BY <1>1, ReleaseAssumption DEF IndInv, Done
  <2> QED BY <1>1, <1>2, <2>1 DEF IndInv, Done
<1> QED BY <1>3, <1>4, <1>5 DEF IndInv

LEMMA DownKeeps == IndInv /\ Down => IndInv'
<1> SUFFICES ASSUME IndInv, Down PROVE IndInv'
  OBVIOUS
<1>1. /\ stack' = <<>>
      /\ UNCHANGED <<tag, left, back, moves, built, tested, scanned, sbom, provenance, described>>
      /\ \/ outcome = "running" /\ pc = 6 /\ pc' = 7 /\ outcome' = "running"
         \/ outcome = "failed" /\ UNCHANGED <<pc, outcome>>
  <2>1. CASE At("down") /\ Advance
    <3>1. outcome = "running" /\ pc = 6
      BY <2>1, AtStep DEF IndInv
    <3> QED BY <2>1, <3>1, StepsLong DEF Down, Advance, daemon, evidence
  <2>2. CASE outcome = "failed" /\ UNCHANGED <<pc, outcome>>
    BY <2>2 DEF Down, daemon, evidence
  <2> QED BY <2>1, <2>2 DEF Down
<1>2. DOMAIN stack' = {}
  BY <1>1
<1>3. TypeOK'
  <2>1. DOMAIN stack' \subseteq Containers /\ stack' \in IdsOf(DOMAIN stack')
    BY <1>1 DEF IdsOf
  <2> QED BY <1>1, <2>1, StepsLong DEF IndInv, TypeOK
<1>4. Traced'
  <2>1. \A n \in Products : Agrees(n) => Agrees(n)'
    BY <1>1, <1>2 DEF Agrees
  <2>2. pc' > 13 => pc > 13
    BY <1>1
  <2> QED BY <1>1, <2>1, <2>2, StaysTraced DEF IndInv
<1>5. Done'
  BY <1>1, <1>2 DEF IndInv, Done
<1> QED BY <1>3, <1>4, <1>5 DEF IndInv

LEMMA ScanKeeps == IndInv /\ (\E n \in Products : ScanImage(n)) => IndInv'
<1> SUFFICES ASSUME IndInv, NEW n \in Products, ScanImage(n) PROVE IndInv'
  OBVIOUS
<1>1. /\ outcome = "running" /\ pc = (IF n = Core THEN 7 ELSE 8)
      /\ UNCHANGED <<tag, left, back, moves, built, stack, tested, sbom, provenance, described>>
      /\ IF tag[n] = None THEN Fail /\ UNCHANGED scanned
         ELSE Advance /\ scanned' = With(scanned, n, tag[n])
  <2>1. At("scan core") => outcome = "running" /\ pc = 7
    BY AtStep DEF IndInv
  <2>2. At("scan hub") => outcome = "running" /\ pc = 8
    BY AtStep DEF IndInv
  <2>3. At(IF n = Core THEN "scan core" ELSE "scan hub")
    BY DEF ScanImage
  <2>4. outcome = "running" /\ pc = (IF n = Core THEN 7 ELSE 8)
    <3>1. CASE n = Core
      <4>1. At("scan core")
        BY <2>3, <3>1
      <4> QED BY <2>1, <3>1, <4>1
    <3>2. CASE n # Core
      <4>1. At("scan hub")
        BY <2>3, <3>2
      <4> QED BY <2>2, <3>2, <4>1
    <3> QED BY <3>1, <3>2
  <2> QED BY <2>4 DEF ScanImage, daemon
<1>2. CASE tag[n] = None
  <2>1. pc' = pc /\ outcome' = "failed" /\ UNCHANGED scanned
    BY <1>1, <1>2 DEF Fail
  <2>2. TypeOK'
    BY <1>1, <2>1, StepsLong DEF IndInv, TypeOK
  <2>3. Traced'
    BY <1>1, <2>1, Reads, StaysTraced DEF IndInv
  <2>4. Done'
    BY <1>1, <2>1 DEF IndInv, Done
  <2> QED BY <2>2, <2>3, <2>4 DEF IndInv
<1>3. CASE tag[n] # None
  <2>1. /\ pc' = pc + 1 /\ outcome' = "running" /\ pc \in {7, 8}
        /\ scanned' = With(scanned, n, tag[n])
    BY <1>1, <1>3, StepsLong DEF Advance
  <2>2. tag[n] \in Ids
    BY <1>3 DEF IndInv, TypeOK
  <2>3. /\ DOMAIN scanned' = DOMAIN scanned \cup {n} /\ scanned'[n] = tag[n]
        /\ \A x \in DOMAIN scanned : x # n => scanned'[x] = scanned[x]
    BY <2>1 DEF With
  <2>4. TypeOK'
    <3>1. DOMAIN scanned' \subseteq Products /\ scanned' \in IdsOf(DOMAIN scanned')
      BY <2>1, <2>2, WithTyped DEF IndInv, TypeOK
    <3> QED BY <1>1, <2>1, <3>1, StepsLong DEF IndInv, TypeOK
  <2>5. Traced'
    <3>1. ASSUME NEW m \in Products, tag[m] = built[m], Agrees(m) PROVE Agrees(m)'
      <4>1. m \in DOMAIN scanned' => scanned'[m] = built[m]
        BY <2>3, <3>1 DEF Agrees
      <4> QED BY <1>1, <3>1, <4>1 DEF Agrees
    <3>2. ~(pc' > 13)
      BY <2>1
    <3> QED BY <1>1, <3>1, <3>2, StaysTraced DEF IndInv
  <2>6. Done'
    <3>1. n = Core \/ n = Hub
      BY DEF Products
    <3> QED BY <1>1, <2>1, <2>3, <3>1, ReleaseAssumption DEF IndInv, Done
  <2> QED BY <2>4, <2>5, <2>6 DEF IndInv
<1> QED BY <1>2, <1>3

LEMMA ListKeeps == IndInv /\ (\E n \in Products : ListImage(n)) => IndInv'
<1> SUFFICES ASSUME IndInv, NEW n \in Products, ListImage(n) PROVE IndInv'
  OBVIOUS
<1>1. /\ outcome = "running" /\ pc = (IF n = Core THEN 9 ELSE 10)
      /\ UNCHANGED <<tag, left, back, moves, built, stack, tested, scanned, provenance, described>>
      /\ IF tag[n] = None THEN Fail /\ UNCHANGED sbom
         ELSE Advance /\ sbom' = With(sbom, n, tag[n])
  <2>1. At("sbom core") => outcome = "running" /\ pc = 9
    BY AtStep DEF IndInv
  <2>2. At("sbom hub") => outcome = "running" /\ pc = 10
    BY AtStep DEF IndInv
  <2>3. At(IF n = Core THEN "sbom core" ELSE "sbom hub")
    BY DEF ListImage
  <2>4. outcome = "running" /\ pc = (IF n = Core THEN 9 ELSE 10)
    <3>1. CASE n = Core
      <4>1. At("sbom core")
        BY <2>3, <3>1
      <4> QED BY <2>1, <3>1, <4>1
    <3>2. CASE n # Core
      <4>1. At("sbom hub")
        BY <2>3, <3>2
      <4> QED BY <2>2, <3>2, <4>1
    <3> QED BY <3>1, <3>2
  <2> QED BY <2>4 DEF ListImage, daemon
<1>2. CASE tag[n] = None
  <2>1. pc' = pc /\ outcome' = "failed" /\ UNCHANGED sbom
    BY <1>1, <1>2 DEF Fail
  <2>2. TypeOK'
    BY <1>1, <2>1, StepsLong DEF IndInv, TypeOK
  <2>3. Traced'
    BY <1>1, <2>1, Reads, StaysTraced DEF IndInv
  <2>4. Done'
    BY <1>1, <2>1 DEF IndInv, Done
  <2> QED BY <2>2, <2>3, <2>4 DEF IndInv
<1>3. CASE tag[n] # None
  <2>1. /\ pc' = pc + 1 /\ outcome' = "running" /\ pc \in {9, 10}
        /\ sbom' = With(sbom, n, tag[n])
    BY <1>1, <1>3, StepsLong DEF Advance
  <2>2. tag[n] \in Ids
    BY <1>3 DEF IndInv, TypeOK
  <2>3. /\ DOMAIN sbom' = DOMAIN sbom \cup {n} /\ sbom'[n] = tag[n]
        /\ \A x \in DOMAIN sbom : x # n => sbom'[x] = sbom[x]
    BY <2>1 DEF With
  <2>4. TypeOK'
    <3>1. DOMAIN sbom' \subseteq Products /\ sbom' \in IdsOf(DOMAIN sbom')
      BY <2>1, <2>2, WithTyped DEF IndInv, TypeOK
    <3> QED BY <1>1, <2>1, <3>1, StepsLong DEF IndInv, TypeOK
  <2>5. Traced'
    <3>1. ASSUME NEW m \in Products, tag[m] = built[m], Agrees(m) PROVE Agrees(m)'
      <4>1. m \in DOMAIN sbom' => sbom'[m] = built[m]
        BY <2>3, <3>1 DEF Agrees
      <4> QED BY <1>1, <3>1, <4>1 DEF Agrees
    <3>2. ~(pc' > 13)
      BY <2>1
    <3> QED BY <1>1, <3>1, <3>2, StaysTraced DEF IndInv
  <2>6. Done'
    <3>1. n = Core \/ n = Hub
      BY DEF Products
    <3> QED BY <1>1, <2>1, <2>3, <3>1, ReleaseAssumption DEF IndInv, Done
  <2> QED BY <2>4, <2>5, <2>6 DEF IndInv
<1> QED BY <1>2, <1>3

LEMMA ProvenanceKeeps == IndInv /\ Provenance => IndInv'
<1> SUFFICES ASSUME IndInv, Provenance PROVE IndInv'
  OBVIOUS
<1>1. /\ outcome = "running" /\ pc = 11 /\ Advance /\ provenance' = built
      /\ UNCHANGED <<tag, left, back, moves, built, stack, tested, scanned, sbom, described>>
  BY AtStep DEF IndInv, Provenance, daemon
<1>2. pc' = 11 + 1 /\ outcome' = "running"
  BY <1>1, StepsLong DEF Advance
<1>3. TypeOK'
  BY <1>1, <1>2, StepsLong DEF IndInv, TypeOK
<1>4. Traced'
  <2>1. ~(pc' > 13)
    BY <1>2
  <2> QED BY <1>1, <2>1, Reads, StaysTraced DEF IndInv
<1>5. Done'
  BY <1>1, <1>2 DEF IndInv, Done
<1> QED BY <1>3, <1>4, <1>5 DEF IndInv

LEMMA ManifestKeeps == IndInv /\ Manifest => IndInv'
<1> SUFFICES ASSUME IndInv, Manifest PROVE IndInv'
  OBVIOUS
<1>1. /\ outcome = "running" /\ pc = 12 /\ Advance /\ described' = built
      /\ UNCHANGED <<tag, left, back, moves, built, stack, tested, scanned, sbom, provenance>>
  BY AtStep DEF IndInv, Manifest, daemon
<1>2. pc' = 12 + 1 /\ outcome' = "running"
  BY <1>1, StepsLong DEF Advance
<1>3. TypeOK'
  BY <1>1, <1>2, StepsLong DEF IndInv, TypeOK
<1>4. Traced'
  <2>1. ~(pc' > 13)
    BY <1>2
  <2> QED BY <1>1, <2>1, Reads, StaysTraced DEF IndInv
<1>5. Done'
  BY <1>1, <1>2 DEF IndInv, Done
<1> QED BY <1>3, <1>4, <1>5 DEF IndInv

\* The tags are on the recorded images when verify has looked at them all.
LEMMA VerifyKeeps == IndInv /\ Verify => IndInv'
<1> SUFFICES ASSUME IndInv, Verify PROVE IndInv'
  OBVIOUS
<1>1. /\ outcome = "running" /\ pc = 13
      /\ IF Unchanged(built) THEN Advance ELSE Fail
      /\ UNCHANGED <<tag, left, back, moves, built, stack, tested, scanned, sbom, provenance,
                     described>>
  BY AtStep DEF IndInv, Verify, daemon, evidence
<1>2. pc' \in {13, 14} /\ outcome' \in {"running", "failed"}
  BY <1>1, StepsLong DEF Advance, Fail
<1>3. TypeOK'
  BY <1>1, <1>2, StepsLong DEF IndInv, TypeOK
<1>4. Traced'
  <2>1. pc' > 13 => \A n \in Products : tag[n] = built[n]
    <3>1. pc' > 13 => Unchanged(built)
      BY <1>1 DEF Fail
    <3>2. DOMAIN built = Products
      <4>1. built # None
        BY <1>1 DEF IndInv, Done
      <4> QED BY <4>1 DEF IndInv, TypeOK, IdsOf
    <3> QED BY <3>1, <3>2 DEF Unchanged, Inspect
  <2> QED BY <1>1, <2>1, Reads, StaysTraced DEF IndInv
<1>5. Done'
  BY <1>1, <1>2 DEF IndInv, Done
<1> QED BY <1>3, <1>4, <1>5 DEF IndInv

\* A step after verify, and a step that breaks.
LEMMA RestKeeps == IndInv /\ (CompareFiles \/ Publish \/ Break) => IndInv'
<1> SUFFICES ASSUME IndInv, CompareFiles \/ Publish \/ Break PROVE IndInv'
  OBVIOUS
<1>1. UNCHANGED <<tag, left, back, moves, built, stack, tested, scanned, sbom, provenance,
                  described>>
  BY DEF CompareFiles, Publish, Break, daemon, evidence
<1>2. /\ outcome = "running" /\ pc \in 1 .. 15
      /\ \/ pc \in {14, 15} /\ (Advance \/ Fail)
         \/ Fail
  <2>1. At("compare") => pc = 14
    BY AtStep DEF IndInv
  <2>2. At("publish") => pc = 15
    BY AtStep DEF IndInv
  <2>3. outcome = "running"
    BY DEF CompareFiles, Publish, Break, At
  <2>4. pc \in 1 .. 15
    BY <2>3, StepsLong DEF IndInv, TypeOK
  <2> QED BY <2>1, <2>2, <2>3, <2>4 DEF CompareFiles, Publish, Break
<1>3. /\ outcome' \in {"running", "passed", "failed"}
      /\ pc' \in 1 .. IF outcome' = "passed" THEN Len(Steps) + 1 ELSE Len(Steps)
      /\ outcome' = "passed" => pc' = 16
  BY <1>2, PcTyped DEF IndInv
<1>4. \/ pc' = pc /\ outcome' = "failed"
      \/ pc \in {14, 15} /\ pc' = pc + 1
  BY <1>2 DEF Advance, Fail
<1>5. TypeOK'
  BY <1>1, <1>3 DEF IndInv, TypeOK
<1>6. Traced'
  <2>1. pc' > 13 => pc > 13
    BY <1>2, <1>4
  <2> QED BY <1>1, <2>1, Reads, StaysTraced DEF IndInv
<1>7. Done'
  BY <1>1, <1>2, <1>3, <1>4 DEF IndInv, Done
<1> QED BY <1>5, <1>6, <1>7 DEF IndInv

LEMMA NextKeeps == IndInv /\ [Next]_vars => IndInv'
<1> SUFFICES ASSUME IndInv, [Next]_vars PROVE IndInv'
  OBVIOUS
<1>1. CASE UNCHANGED vars
  <2>1. UNCHANGED <<tag, left, back, moves, pc, outcome, built, stack, tested, scanned, sbom,
                    provenance, described>>
    BY <1>1 DEF vars, daemon, evidence
  <2>2. Traced'
    BY <2>1, Reads, StaysTraced DEF IndInv
  <2>3. TypeOK'
    BY <2>1 DEF IndInv, TypeOK
  <2>4. Done'
    BY <2>1 DEF IndInv, Done
  <2> QED BY <2>2, <2>3, <2>4 DEF IndInv
<1>2. CASE Next
  BY <1>2, MoveKeeps, BuildKeeps, RecordKeeps, UpKeeps, ScenariosKeeps, DownKeeps, ScanKeeps,
     ListKeeps, ProvenanceKeeps, ManifestKeeps, VerifyKeeps, RestKeeps DEF Next, JobStep
<1> QED BY <1>1, <1>2

LEMMA Inductive == Spec => []IndInv
BY Start, NextKeeps, PTL DEF Spec

LEMMA EvidenceAgrees == IndInv => OneArtifact
<1> SUFFICES ASSUME IndInv, outcome = "passed"
             PROVE  /\ DOMAIN built = Products /\ described = built /\ provenance = built
                    /\ \A n \in Products \ back : n \in DOMAIN scanned /\ n \in DOMAIN sbom
                                                  /\ scanned[n] = built[n] /\ sbom[n] = built[n]
                    /\ Core \notin back => tested = {built[Core]}
  BY DEF OneArtifact
<1>1. /\ pc = 16 /\ built # None /\ tested # {} /\ described = built /\ provenance = built
      /\ Core \in DOMAIN scanned /\ Hub \in DOMAIN scanned
      /\ Core \in DOMAIN sbom /\ Hub \in DOMAIN sbom
  BY DEF IndInv, Done
<1>2. DOMAIN built = Products
  BY <1>1 DEF IndInv, TypeOK, IdsOf
<1>3. \A n \in Products \ back : Agrees(n)
  BY <1>1 DEF IndInv, Traced
<1>4. ASSUME NEW n \in Products \ back
      PROVE  n \in DOMAIN scanned /\ n \in DOMAIN sbom
             /\ scanned[n] = built[n] /\ sbom[n] = built[n]
  BY <1>1, <1>3 DEF Agrees, Products
<1>5. Core \notin back => tested = {built[Core]}
  BY <1>1, <1>3 DEF Agrees, Products
<1> QED BY <1>1, <1>2, <1>4, <1>5

\* Every variable stays in its type: what is recorded, run, scanned or listed
\* is an identity, and the job is at one of its steps or past the last.
THEOREM TypeCorrect == Spec => []TypeOK
<1>1. IndInv => TypeOK
  BY DEF IndInv
<1> QED BY <1>1, Inductive, PTL

\* The artifact that was tested is the artifact that was scanned and the
\* artifact that is described (release.yml:3): a tag that moves between two
\* steps is on another image at the last, or has come back.
THEOREM OneArtifactThroughout == Spec => []OneArtifact
BY EvidenceAgrees, Inductive, PTL
=============================================================================
