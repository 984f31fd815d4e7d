--------------------------- MODULE FatVolumeProofs ---------------------------
(***************************************************************************)
(* Proofs about FatVolume, for a volume of any size, files of any length   *)
(* and any number of replacements: the shape of the state; and, when the   *)
(* volume is checked after a replacement was cut off, that a replacement   *)
(* tears no other file and loses no cluster.                               *)
(***************************************************************************)
EXTENDS FatVolume, WellFoundedInduction, TLAPS

\* The run of clusters the replacement in progress has found.
Run == job.first .. LastOfRun

\* What the stages of a replacement have in common.
JobInRange ==
  /\ job.stage = "idle" <=> job = Idle
  /\ job.stage # "idle" => job.file \in Files /\ job.length \in 1 .. MaxLength
  /\ job.stage = "free" => job.at \in Clusters
  /\ job.stage \in {"link", "write", "commit"} =>
       job.first \in Clusters /\ LastOfRun \in Clusters
  /\ job.stage \in {"link", "write"} => job.at \in Run

TInv == TypeOK /\ JobInRange

------------------------------------------------------------------------------
LEMMA VolumeFacts ==
  /\ Size \in Nat /\ Size >= 1 /\ MaxLength \in Nat /\ MaxLength >= 1 /\ MaxMade \in Nat
  /\ "none" \notin Files /\ Free \notin Clusters /\ EndOfChain \notin Clusters
  /\ \A f \in Files : Lengths(f) \subseteq 1 .. MaxLength
BY VolumeAssumption DEF Lengths, Clusters, Free, EndOfChain

LEMMA ClusterFacts ==
  /\ Clusters \subseteq 0 .. Size /\ Clusters \subseteq 0 .. (Size + 1) /\ Clusters \subseteq Int
  /\ EndOfChain \in 0 .. (Size + 1) /\ Free \in 0 .. (Size + 1)
BY VolumeFacts DEF Clusters, EndOfChain, Free

Jobs == [file : Files \cup {"none"}, stage : Stages, length : 0 .. MaxLength,
         first : 0 .. Size, at : 0 .. (Size + 1)]

LEMMA TypeBegin ==
  ASSUME TInv, NEW f \in Files, NEW n \in Lengths(f), Begin(f, n)
  PROVE  TInv'
<1>1. n \in 1 .. MaxLength /\ made + 1 \in 0 .. MaxMade
  BY VolumeFacts DEF TInv, TypeOK, Begin
<1>2. dir[f].first \in 0 .. Size
  BY DEF TInv, TypeOK
<1>3. job' = [file |-> f, length |-> n, first |-> 0, at |-> dir[f].first,
              stage |-> IF dir[f].first \in Clusters THEN "free" ELSE "find"]
  BY DEF Begin
<1>4. TypeOK'
  BY <1>1, <1>2, <1>3, VolumeFacts DEF TInv, TypeOK, Begin, Stages
<1>5. JobInRange'
  BY <1>1, <1>3, VolumeFacts DEF JobInRange, Idle
<1> QED
  BY <1>4, <1>5 DEF TInv

\* What free_chain does to the job, and find_free_run, link_run, the caller.
LEMMA FreeStep ==
  ASSUME TInv, FreeOne
  PROVE  /\ job.stage = "free" /\ job.at \in Clusters
         /\ job.file \in Files /\ job.length \in 1 .. MaxLength
         /\ job' \in Jobs /\ job'.stage \in {"free", "find"} /\ job'.at = fat[job.at]
         /\ job'.stage = "free" <=> fat[job.at] \in Clusters
         /\ job'.file = job.file /\ job'.length = job.length
<1> DEFINE next == FollowedBy(job.at)
<1>1. /\ job \in Jobs /\ job.stage = "free" /\ job.at \in Clusters /\ next \in 0 .. (Size + 1)
      /\ job.file \in Files /\ job.length \in 1 .. MaxLength
  BY DEF TInv, TypeOK, JobInRange, FreeOne, FollowedBy, Jobs
<1>2. job' = [job EXCEPT !.at = next,
                         !.stage = IF next \in Clusters THEN "free" ELSE "find"]
  BY DEF FreeOne
<1>3. next = fat[job.at]
  BY DEF FollowedBy
<1> HIDE DEF next
<1> QED
  BY <1>1, <1>2, <1>3 DEF Jobs, Stages

LEMMA TypeFree ==
  ASSUME TInv, FreeOne
  PROVE  TInv'
<1>1. fat' \in [Clusters -> 0 .. (Size + 1)]
  BY FreeStep, VolumeFacts DEF TInv, TypeOK, FreeOne, Free
<1>2. TypeOK'
  BY <1>1, FreeStep DEF TInv, TypeOK, FreeOne, Jobs
<1>3. JobInRange'
  BY FreeStep DEF JobInRange, Idle
<1> QED
  BY <1>2, <1>3 DEF TInv

LEMMA FindStep ==
  ASSUME TInv, Find
  PROVE  /\ job.stage = "find" /\ job.file \in Files /\ job.length \in 1 .. MaxLength
         /\ job' \in Jobs /\ job'.stage = "link" /\ job'.at = job'.first
         /\ job'.file = job.file /\ job'.length = job.length
         /\ job'.first \in Clusters /\ job'.first + job.length - 1 \in Clusters
         /\ \A c \in job'.first .. (job'.first + job.length - 1) : fat[c] = Free
<1>1. PICK r \in Runs(job.length) :
        job' = [job EXCEPT !.first = r, !.at = r, !.stage = "link"]
  BY DEF Find
<1>2. job \in Jobs /\ job.length \in 1 .. MaxLength /\ job.file \in Files
  BY DEF TInv, TypeOK, JobInRange, Find, Jobs
<1>3. r \in Clusters /\ r + job.length - 1 \in Clusters
  BY <1>2, VolumeFacts DEF Runs, IsRun, Clusters
<1>4. /\ job' \in Jobs /\ job'.stage = "link" /\ job'.at = r /\ job'.first = r
      /\ job'.file = job.file /\ job'.length = job.length
  <2>1. r \in 0 .. Size /\ r \in 0 .. (Size + 1)
    BY <1>3, ClusterFacts
  <2> QED
    BY <1>1, <1>2, <2>1 DEF Jobs, Stages
<1>5. \A c \in r .. (r + job.length - 1) : fat[c] = Free
  <2> TAKE c \in r .. (r + job.length - 1)
  <2>1. c - r \in 0 .. (job.length - 1) /\ r + (c - r) = c
    BY <1>2, <1>3, ClusterFacts
  <2> QED
    BY <2>1 DEF Runs, IsRun
<1> QED
  BY <1>2, <1>3, <1>4, <1>5 DEF Find

LEMMA TypeFind ==
  ASSUME TInv, Find
  PROVE  TInv'
<1>1. TypeOK'
  BY FindStep DEF TInv, TypeOK, Find, Jobs
<1>2. JobInRange'
  BY FindStep, VolumeFacts DEF JobInRange, Idle, Run, LastOfRun, Clusters
<1> QED
  BY <1>1, <1>2 DEF TInv

LEMMA RunShape ==
  ASSUME TInv, job.stage \in {"link", "write"}
  PROVE  /\ job \in Jobs /\ job.length \in 1 .. MaxLength /\ job.file \in Files
         /\ job.first \in Clusters /\ LastOfRun \in Clusters
         /\ job.at \in Run /\ job.at \in Clusters
         /\ job.at # LastOfRun => job.at + 1 \in Run /\ job.at + 1 \in Clusters
         /\ job.first \in Run
         /\ job.at - job.first + 1 \in 1 .. job.length
<1>1. /\ job \in Jobs /\ job.length \in 1 .. MaxLength /\ job.file \in Files
      /\ job.first \in Clusters /\ LastOfRun \in Clusters /\ job.at \in Run
  BY DEF TInv, TypeOK, JobInRange, Jobs
<1> QED
  BY <1>1, VolumeFacts DEF Run, LastOfRun, Clusters

LEMMA LinkStep ==
  ASSUME TInv, LinkOne
  PROVE  /\ job.stage = "link"
         /\ job' \in Jobs /\ job'.stage = IF job.at = LastOfRun THEN "write" ELSE "link"
         /\ job'.at = IF job.at = LastOfRun THEN job.first ELSE job.at + 1
         /\ job'.first = job.first /\ job'.length = job.length /\ job'.file = job.file
         /\ LastOfRun' = LastOfRun /\ Run' = Run
         /\ fat' \in [Clusters -> 0 .. (Size + 1)]
         /\ fat'[job.at] = IF job.at = LastOfRun THEN EndOfChain ELSE job.at + 1
         /\ \A c \in Clusters \ {job.at} : fat'[c] = fat[c]
<1>1. job.stage = "link" /\ job \in Jobs
  BY RunShape DEF LinkOne
<1>2. fat' = [fat EXCEPT ![job.at] = IF job.at = LastOfRun THEN EndOfChain ELSE job.at + 1]
  BY DEF LinkOne
<1>3. (IF job.at = LastOfRun THEN EndOfChain ELSE job.at + 1) \in 0 .. (Size + 1)
  BY <1>1, RunShape, ClusterFacts
<1>4. /\ fat' \in [Clusters -> 0 .. (Size + 1)]
      /\ fat'[job.at] = IF job.at = LastOfRun THEN EndOfChain ELSE job.at + 1
      /\ \A c \in Clusters \ {job.at} : fat'[c] = fat[c]
  BY <1>1, <1>2, <1>3, RunShape DEF TInv, TypeOK
<1>5. /\ job' \in Jobs /\ job'.stage = IF job.at = LastOfRun THEN "write" ELSE "link"
      /\ job'.at = IF job.at = LastOfRun THEN job.first ELSE job.at + 1
      /\ job'.first = job.first /\ job'.length = job.length /\ job'.file = job.file
  <2>1. CASE job.at = LastOfRun
    <3>1. job' = [job EXCEPT !.at = job.first, !.stage = "write"]
      BY <2>1 DEF LinkOne
    <3> QED
      BY <1>1, <2>1, <3>1, RunShape, ClusterFacts DEF Jobs, Stages
  <2>2. CASE job.at # LastOfRun
    <3>1. job' = [job EXCEPT !.at = job.at + 1]
      BY <2>2 DEF LinkOne
    <3> QED
      BY <1>1, <2>2, <3>1, RunShape, ClusterFacts DEF Jobs
  <2> QED
    BY <2>1, <2>2
<1> QED
  BY <1>1, <1>4, <1>5 DEF LastOfRun, Run

LEMMA TypeLink ==
  ASSUME TInv, LinkOne
  PROVE  TInv'
<1>1. TypeOK'
  BY LinkStep DEF TInv, TypeOK, LinkOne, Jobs
<1>2. JobInRange'
  BY LinkStep, RunShape DEF JobInRange, Idle
<1> QED
  BY <1>1, <1>2 DEF TInv

LEMMA WriteStep ==
  ASSUME TInv, WriteOne
  PROVE  /\ job.stage = "write"
         /\ job' \in Jobs /\ job'.stage = IF job.at = LastOfRun THEN "commit" ELSE "write"
         /\ job'.stage = "write" => job'.at = job.at + 1
         /\ job'.first = job.first /\ job'.length = job.length /\ job'.file = job.file
         /\ LastOfRun' = LastOfRun /\ Run' = Run
         /\ data' \in [Clusters -> [file : Files \cup {"none"}, by : 0 .. MaxMade,
                                    at : 0 .. MaxLength]]
         /\ data'[job.at] = [file |-> job.file, by |-> made, at |-> job.at - job.first + 1]
         /\ \A c \in Clusters \ {job.at} : data'[c] = data[c]
<1>1. job.stage = "write" /\ job \in Jobs
  BY RunShape DEF WriteOne
<1>2. /\ data' \in [Clusters -> [file : Files \cup {"none"}, by : 0 .. MaxMade,
                                 at : 0 .. MaxLength]]
      /\ data'[job.at] = [file |-> job.file, by |-> made, at |-> job.at - job.first + 1]
      /\ \A c \in Clusters \ {job.at} : data'[c] = data[c]
  <2>1. [file |-> job.file, by |-> made, at |-> job.at - job.first + 1]
          \in [file : Files \cup {"none"}, by : 0 .. MaxMade, at : 0 .. MaxLength]
    BY <1>1, RunShape, VolumeFacts DEF TInv, TypeOK
  <2> QED
    BY <1>1, <2>1, RunShape DEF TInv, TypeOK, WriteOne
<1>3. /\ job' \in Jobs /\ job'.stage = IF job.at = LastOfRun THEN "commit" ELSE "write"
      /\ job'.stage = "write" => job'.at = job.at + 1
      /\ job'.first = job.first /\ job'.length = job.length /\ job'.file = job.file
  <2>1. CASE job.at = LastOfRun
    <3>1. job' = [job EXCEPT !.stage = "commit"]
      BY <2>1 DEF WriteOne
    <3> QED
      BY <1>1, <2>1, <3>1, RunShape DEF Jobs, Stages
  <2>2. CASE job.at # LastOfRun
    <3>1. job' = [job EXCEPT !.at = job.at + 1]
      BY <2>2 DEF WriteOne
    <3> QED
      BY <1>1, <2>2, <3>1, RunShape, ClusterFacts DEF Jobs
  <2> QED
    BY <2>1, <2>2
<1> QED
  BY <1>1, <1>2, <1>3 DEF LastOfRun, Run

LEMMA TypeWrite ==
  ASSUME TInv, WriteOne
  PROVE  TInv'
<1>1. TypeOK'
  BY WriteStep DEF TInv, TypeOK, WriteOne, Jobs
<1>2. JobInRange'
  BY WriteStep, RunShape DEF JobInRange, Idle
<1> QED
  BY <1>1, <1>2 DEF TInv

LEMMA TypeIdle ==
  ASSUME job' = Idle
  PROVE  JobInRange' /\ job' \in [file : Files \cup {"none"}, stage : Stages,
                                  length : 0 .. MaxLength, first : 0 .. Size,
                                  at : 0 .. (Size + 1)]
BY VolumeFacts DEF JobInRange, Idle, Stages

LEMMA TypeCommit ==
  ASSUME TInv, Commit
  PROVE  TInv'
<1>1. job.first \in Clusters /\ job.length \in 1 .. MaxLength /\ job.file \in Files
  BY DEF TInv, JobInRange, Commit
<1> QED
  BY <1>1, TypeIdle, VolumeFacts DEF TInv, TypeOK, Commit, Clusters

LEMMA TypeAbandon ==
  ASSUME TInv, Abandon, job # Idle
  PROVE  TInv'
BY TypeIdle DEF TInv, TypeOK, JobInRange, Abandon

LEMMA TypeCheck ==
  ASSUME TInv, Check
  PROVE  TInv'
<1>1. dir' \in [Files -> [first : 0 .. Size, length : 0 .. MaxLength, by : 0 .. MaxMade]]
  BY VolumeFacts DEF TInv, TypeOK, Check, NoEntry
<1>2. fat' \in [Clusters -> 0 .. (Size + 1)]
  BY VolumeFacts DEF TInv, TypeOK, Check, Free
<1> QED
  BY <1>1, <1>2 DEF TInv, TypeOK, JobInRange, Check, Run, LastOfRun

LEMMA TypeInduction == TInv /\ [Next]_vars => TInv'
<1> SUFFICES ASSUME TInv, [Next]_vars PROVE TInv'
  OBVIOUS
<1>1. ASSUME NEW f \in Files, NEW n \in Lengths(f), Begin(f, n) PROVE TInv'
  BY <1>1, TypeBegin
<1>2. CASE FreeOne \/ Find \/ LinkOne \/ WriteOne \/ Commit
  BY <1>2, TypeFree, TypeFind, TypeLink, TypeWrite, TypeCommit
<1>3. CASE NoSpace \/ CutOff
  BY <1>3, TypeAbandon DEF NoSpace, CutOff, Idle
<1>4. CASE CutOffBetween
  BY <1>4 DEF CutOffBetween, TInv, TypeOK, JobInRange, Run, LastOfRun
<1>5. CASE Check
  BY <1>5, TypeCheck
<1>6. CASE UNCHANGED vars
  BY <1>6 DEF vars, TInv, TypeOK, JobInRange, Run, LastOfRun
<1> QED
  BY <1>1, <1>2, <1>3, <1>4, <1>5, <1>6 DEF Next

LEMMA TypeInit == Init => TInv
<1> SUFFICES ASSUME Init PROVE TInv
  OBVIOUS
<1>1. TypeOK
  <2>1. NoEntry \in [first : 0 .. Size, length : 0 .. MaxLength, by : 0 .. MaxMade]
    BY VolumeFacts DEF NoEntry
  <2>2. Nothing \in [file : Files \cup {"none"}, by : 0 .. MaxMade, at : 0 .. MaxLength]
    BY VolumeFacts DEF Nothing
  <2>3. Idle \in Jobs
    BY VolumeFacts DEF Idle, Jobs, Stages
  <2>4. fat \in [Clusters -> 0 .. (Size + 1)]
    BY VolumeFacts DEF Init, Free
  <2> QED
    BY <2>1, <2>2, <2>3, <2>4, VolumeFacts, 0 \in 0 .. MaxMade DEF Init, TypeOK, Jobs
<1>2. JobInRange
  BY VolumeFacts DEF Init, JobInRange, Idle
<1> QED
  BY <1>1, <1>2 DEF TInv

LEMMA TypeInvariance == Spec => []TInv
BY TypeInit, TypeInduction, PTL DEF Spec

\* The volume and the replacement in progress keep their shape, checked or
\* not: no entry of the table and no cluster is written outside of the volume.
THEOREM VolumeTypeCorrect == Spec => []TypeOK
<1>1. TInv => TypeOK
  BY DEF TInv
<1> QED
  BY <1>1, TypeInvariance, PTL

------------------------------------------------------------------------------
(***************************************************************************)
(* Chains.  Cluster(f) is defined by recursion; what it computes is proved *)
(* from the least index at which it would be something else.               *)
(***************************************************************************)

LEMMA LeastNatural ==
  ASSUME NEW T \in SUBSET Nat, T # {}
  PROVE  \E x \in T : \A y \in T : x <= y
<1>1. \E x \in T : \A y \in T : <<y, x>> \notin OpToRel(<, Nat)
  BY NatLessThanWellFounded, WFMin, Zenon
<1>2. \A x, y \in Nat : <<y, x>> \in OpToRel(<, Nat) <=> y < x
  BY DEF OpToRel
<1>3. \A x, y \in T : ~(y < x) => x <= y
  OBVIOUS
<1> QED
  BY <1>1, <1>2, <1>3

\* Steps of one along a function, as long as each follows from the one before.
LEMMA StepsOfOne ==
  ASSUME NEW g, NEW a \in Int, NEW n \in Nat,
         n > 0 => g[1] = a,
         \A i \in 1 .. (n - 1) : g[i] = a + i - 1 => g[i + 1] = a + i
  PROVE  \A i \in 1 .. n : g[i] = a + i - 1
<1> DEFINE T == {i \in 1 .. n : g[i] # a + i - 1}
<1> SUFFICES ASSUME T # {} PROVE FALSE
  OBVIOUS
<1>1. T \subseteq Nat
  OBVIOUS
<1>2. PICK m \in T : \A y \in T : m <= y
  BY <1>1, LeastNatural
<1>3. m \in 1 .. n /\ g[m] # a + m - 1
  BY <1>2
<1>4. CASE m = 1
  BY <1>3, <1>4
<1>5. CASE m # 1
  <2>1. m - 1 \in 1 .. (n - 1) /\ m - 1 \notin T
    BY <1>2, <1>3, <1>5
  <2>2. g[m - 1] = a + (m - 1) - 1
    BY <2>1
  <2>3. g[(m - 1) + 1] = a + (m - 1)
    BY <2>1, <2>2
  <2> QED
    BY <1>3, <2>3
<1> QED
  BY <1>4, <1>5

\* g walks along the table T from x for n clusters.
Walk(g, T, x, n) ==
  g = [i \in 1 .. n |-> IF i = 1 THEN x
                        ELSE IF g[i - 1] \in Clusters THEN T[g[i - 1]] ELSE Free]

LEMMA WalkExists ==
  ASSUME NEW T, NEW x, NEW n \in Nat
  PROVE  \E g : Walk(g, T, x, n)
<1> DEFINE B == {m \in Nat : ~ \E g : Walk(g, T, x, m)}
<1> SUFFICES ASSUME B # {} PROVE FALSE
  OBVIOUS
<1>1. B \subseteq Nat
  OBVIOUS
<1>2. PICK m \in B : \A y \in B : m <= y
  BY <1>1, LeastNatural
<1>3. m \in Nat /\ ~ \E g : Walk(g, T, x, m)
  BY <1>2
<1>4. CASE m = 0
  <2> DEFINE h == [i \in 1 .. 0 |-> x]
  <2>1. Walk(h, T, x, 0)
    BY DEF Walk
  <2> QED
    BY <1>3, <1>4, <2>1
<1>5. CASE m # 0
  <2>1. m - 1 \in Nat /\ m - 1 \notin B
    BY <1>2, <1>3, <1>5
  <2>2. PICK g : Walk(g, T, x, m - 1)
    BY <2>1
  <2> DEFINE last == IF m = 1 THEN x
                     ELSE IF g[m - 1] \in Clusters THEN T[g[m - 1]] ELSE Free
             h == [i \in 1 .. m |-> IF i = m THEN last ELSE g[i]]
             r == [i \in 1 .. m |-> IF i = 1 THEN x
                                    ELSE IF h[i - 1] \in Clusters THEN T[h[i - 1]] ELSE Free]
  <2>3. \A i \in 1 .. (m - 1) :
          g[i] = IF i = 1 THEN x ELSE IF g[i - 1] \in Clusters THEN T[g[i - 1]] ELSE Free
    BY <2>2 DEF Walk
  <2>4. \A i \in 1 .. m : h[i] = r[i]
    <3> TAKE i \in 1 .. m
    <3>1. CASE i = 1
      BY <2>3, <3>1, <1>3, <1>5
    <3>2. CASE i # 1
      <4>1. i - 1 \in 1 .. m /\ i - 1 # m
        BY <1>3, <3>2
      <4>2. h[i - 1] = g[i - 1]
        BY <4>1
      <4>3. r[i] = IF g[i - 1] \in Clusters THEN T[g[i - 1]] ELSE Free
        BY <3>2, <4>2
      <4>4. h[i] = IF g[i - 1] \in Clusters THEN T[g[i - 1]] ELSE Free
        BY <2>3, <3>2, <1>3
      <4> QED
        BY <4>3, <4>4
    <3> QED
      BY <3>1, <3>2
  <2>5. h = r
    BY <2>4
  <2>6. Walk(h, T, x, m)
    BY <2>5, Zenon DEF Walk
  <2> QED
    BY <1>3, <2>6
<1> QED
  BY <1>4, <1>5

LEMMA ClusterWalks ==
  ASSUME NEW f \in Files
  PROVE  Walk(Cluster(f), fat, dir[f].first, MaxLength)
<1>1. \E g : Walk(g, fat, dir[f].first, MaxLength)
  BY WalkExists, VolumeFacts
<1> QED
  BY <1>1, Zenon DEF Walk, Cluster

LEMMA ClusterValues ==
  ASSUME NEW f \in Files
  PROVE  /\ Cluster(f)[1] = dir[f].first
         /\ \A i \in 1 .. (MaxLength - 1) : Cluster(f)[i] \in Clusters =>
              Cluster(f)[i + 1] = fat[Cluster(f)[i]]
<1> DEFINE g == Cluster(f)
<1>1. \A i \in 1 .. MaxLength :
        g[i] = IF i = 1 THEN dir[f].first
               ELSE IF g[i - 1] \in Clusters THEN fat[g[i - 1]] ELSE Free
  BY ClusterWalks DEF Walk
<1> HIDE DEF g
<1>2. g[1] = dir[f].first
  BY <1>1, VolumeFacts
<1>3. \A i \in 1 .. (MaxLength - 1) : g[i] \in Clusters => g[i + 1] = fat[g[i]]
  <2> TAKE i \in 1 .. (MaxLength - 1)
  <2>1. i + 1 \in 1 .. MaxLength /\ i + 1 # 1 /\ (i + 1) - 1 = i
    BY VolumeFacts
  <2> QED
    BY <1>1, <2>1
<1> QED
  BY <1>2, <1>3 DEF g

------------------------------------------------------------------------------
(***************************************************************************)
(* The invariant of a volume that is checked.  What an entry of the        *)
(* directory claims is an interval of clusters, because chains are only    *)
(* ever made out of runs.                                                  *)
(***************************************************************************)

LastOf(f) == dir[f].first + dir[f].length - 1
Extent(f) == dir[f].first .. LastOf(f)

\* An entry names clusters of the volume, or none ...
EntriesInRange ==
  \A f \in Files : IF dir[f].length = 0 THEN dir[f].first = 0
                   ELSE dir[f].first \in Clusters /\ LastOf(f) \in Clusters

\* ... and no two entries name the same.
Apart == \A f, g \in Files : f # g => Extent(f) \cap Extent(g) = {}

\* The table knows no jumps.
NoJumps == \A c \in Clusters : fat[c] \in {Free, EndOfChain, c + 1}

\* From c on the table has the chain of f as it should be.
InPlaceFrom(f, c) ==
  \A d \in Extent(f) : d >= c => fat[d] = IF d = LastOf(f) THEN EndOfChain ELSE d + 1

InPlace(f) ==
  \A d \in Extent(f) : fat[d] = IF d = LastOf(f) THEN EndOfChain ELSE d + 1

Holds(f) ==
  \A d \in Extent(f) :
    data[d] = [file |-> f, by |-> dir[f].by, at |-> d - dir[f].first + 1]

\* Files nobody tears are as they were written; on a volume without damage
\* every chain but that of the file being replaced is in place, and nothing
\* is being replaced on another.
OthersSound == \A f \in Files \ (broken \cup {job.file}) : InPlace(f) /\ Holds(f)

CleanSound ==
  /\ ~dirty => \A f \in Files \ {job.file} : InPlace(f)
  /\ job.stage # "idle" => ~dirty

\* Where the replacement is.
JobSound ==
  /\ job.stage = "free" => job.at \in Extent(job.file) /\ InPlaceFrom(job.file, job.at)
  /\ job.stage \in {"link", "write", "commit"} =>
       \A g \in Files \ {job.file} : Run \cap Extent(g) = {}
  /\ job.stage = "link" => \A c \in Run : c < job.at => fat[c] = c + 1
  /\ job.stage \in {"write", "commit"} =>
       \A c \in Run : fat[c] = IF c = LastOfRun THEN EndOfChain ELSE c + 1
  /\ job.stage \in {"write", "commit"} =>
       \A c \in Run : (job.stage = "commit" \/ c < job.at) =>
         data[c] = [file |-> job.file, by |-> made, at |-> c - job.first + 1]

\* Who owns a cluster that is not free.
OwnedByJob(c) ==
  \/ job.stage = "free" /\ c \in Extent(job.file) /\ c >= job.at
  \/ job.stage = "link" /\ c \in Run /\ c < job.at
  \/ job.stage \in {"write", "commit"} /\ c \in Run

AllOwned ==
  ~dirty => \A c \in Clusters : fat[c] # Free =>
    OwnedByJob(c) \/ \E f \in Files \ {job.file} : c \in Extent(f)

VInv == /\ TInv /\ EntriesInRange /\ Apart /\ NoJumps
        /\ OthersSound /\ CleanSound /\ JobSound /\ AllOwned

\* What an entry's fields are.
LEMMA EntryFacts ==
  ASSUME TypeOK, EntriesInRange, NEW f \in Files
  PROVE  /\ dir[f].first \in Int /\ dir[f].length \in 0 .. MaxLength /\ LastOf(f) \in Int
         /\ Extent(f) \subseteq Clusters
         /\ dir[f].length = 0 => Extent(f) = {}
         /\ dir[f].length # 0 => dir[f].first \in Extent(f) /\ LastOf(f) \in Extent(f)
<1>1. dir[f].first \in 0 .. Size /\ dir[f].length \in 0 .. MaxLength
  BY DEF TypeOK
<1> QED
  BY <1>1, VolumeFacts DEF EntriesInRange, Extent, LastOf, Clusters

\* A chain in place is what a reader of the volume finds ...
LEMMA InPlaceRead ==
  ASSUME TypeOK, EntriesInRange, NEW f \in Files, InPlace(f)
  PROVE  \A i \in 1 .. dir[f].length : Cluster(f)[i] = dir[f].first + i - 1
<1> DEFINE a == dir[f].first
           n == dir[f].length
           g == Cluster(f)
<1>1. a \in Int /\ n \in Nat /\ n <= MaxLength /\ g[1] = a
  BY EntryFacts, VolumeFacts, ClusterValues
<1>2. ASSUME NEW i \in 1 .. (n - 1), g[i] = a + i - 1
      PROVE  g[i + 1] = a + i
  <2>1. i \in 1 .. (MaxLength - 1) /\ a + i - 1 \in Extent(f) /\ a + i - 1 # LastOf(f)
    BY <1>1, VolumeFacts DEF Extent, LastOf
  <2>2. fat[a + i - 1] = a + i
    BY <1>1, <2>1 DEF InPlace
  <2>3. g[i] \in Clusters
    BY <1>2, <2>1, EntryFacts
  <2> QED
    BY <1>2, <2>1, <2>2, <2>3, ClusterValues
<1> HIDE DEF a, n, g
<1>3. \A i \in 1 .. n : g[i] = a + i - 1
  BY <1>1, <1>2, StepsOfOne
<1> QED
  BY <1>3 DEF a, n, g

LEMMA InPlaceLinked ==
  ASSUME TypeOK, EntriesInRange, NEW f \in Files, InPlace(f)
  PROVE  Linked(f) /\ Chain(f) = Extent(f)
<1> DEFINE a == dir[f].first
           n == dir[f].length
<1>1. a \in Int /\ n \in Nat
  BY EntryFacts, VolumeFacts
<1>2. \A i \in 1 .. n : Cluster(f)[i] = a + i - 1
  BY InPlaceRead
<1>3. \A d : d \in Extent(f) <=> \E i \in 1 .. n : d = a + i - 1
  <2> TAKE d
  <2>1. ASSUME d \in Extent(f) PROVE \E i \in 1 .. n : d = a + i - 1
    <3>1. d - a + 1 \in 1 .. n /\ d = a + (d - a + 1) - 1
      BY <1>1, <2>1 DEF Extent, LastOf
    <3> QED
      BY <3>1
  <2>2. ASSUME NEW i \in 1 .. n, d = a + i - 1 PROVE d \in Extent(f)
    BY <1>1, <2>2 DEF Extent, LastOf
  <2> QED
    BY <2>1, <2>2
<1>4. Chain(f) = Extent(f)
  BY <1>2, <1>3 DEF Chain
<1>5. n # 0 => fat[Cluster(f)[n]] = EndOfChain
  <2> SUFFICES ASSUME n # 0 PROVE fat[Cluster(f)[n]] = EndOfChain
    OBVIOUS
  <2>1. n \in 1 .. n /\ a + n - 1 = LastOf(f)
    BY <1>1 DEF LastOf
  <2>2. Cluster(f)[n] = LastOf(f)
    BY <1>2, <2>1
  <2> QED
    BY <2>2, EntryFacts DEF InPlace
<1> QED
  BY <1>1, <1>4, <1>5, EntryFacts DEF Linked

\* ... and a chain a reader can follow to its end is in place.
LEMMA LinkedInPlace ==
  ASSUME TypeOK, EntriesInRange, NoJumps, NEW f \in Files, Linked(f)
  PROVE  InPlace(f)
<1> DEFINE a == dir[f].first
           n == dir[f].length
           g == Cluster(f)
<1>1. a \in Int /\ n \in Nat /\ n <= MaxLength /\ g[1] = a
  BY EntryFacts, VolumeFacts, ClusterValues
<1>2. CASE n = 0
  BY <1>2, EntryFacts DEF InPlace
<1>3. CASE n # 0
  <2>1. \A i \in 1 .. n : g[i] \in Clusters
    BY <1>1, <1>3 DEF Linked, Chain
  <2>2. fat[g[n]] = EndOfChain
    BY <1>1, <1>3 DEF Linked
  <2>3. \A i \in 1 .. (n - 1) : g[i + 1] = fat[g[i]] /\ g[i + 1] = g[i] + 1
    <3> TAKE i \in 1 .. (n - 1)
    <3>1. i \in 1 .. (MaxLength - 1) /\ i \in 1 .. n /\ i + 1 \in 1 .. n
      BY <1>1, VolumeFacts
    <3>2. g[i + 1] = fat[g[i]] /\ g[i + 1] \in Clusters /\ g[i] \in Clusters
      BY <2>1, <3>1, ClusterValues
    <3> QED
      BY <3>2, VolumeFacts DEF NoJumps
  <2> HIDE DEF g
  <2>4. \A i \in 1 .. (n - 1) : g[i] = a + i - 1 => g[i + 1] = a + i
    <3> TAKE i \in 1 .. (n - 1)
    <3> HAVE g[i] = a + i - 1
    <3>1. g[i + 1] = (a + i - 1) + 1
      BY <2>3
    <3> QED
      BY <1>1, <3>1
  <2> HIDE DEF a, n
  <2>5. \A i \in 1 .. n : g[i] = a + i - 1
    BY <1>1, <2>4, StepsOfOne
  <2> USE DEF a, n
  <2>6. \A d \in Extent(f) : fat[d] = IF d = LastOf(f) THEN EndOfChain ELSE d + 1
    <3> TAKE d \in Extent(f)
    <3>1. /\ d - a + 1 \in 1 .. n /\ d = a + (d - a + 1) - 1
          /\ d = LastOf(f) <=> d - a + 1 = n
          /\ d # LastOf(f) => d - a + 1 \in 1 .. (n - 1)
          /\ a + (d - a + 1) = d + 1
      BY <1>1 DEF Extent, LastOf
    <3>2. g[d - a + 1] = d
      BY <2>5, <3>1
    <3>3. CASE d = LastOf(f)
      BY <2>2, <3>1, <3>2, <3>3
    <3>4. CASE d # LastOf(f)
      <4>1. fat[d] = d + 1
        BY <2>3, <3>1, <3>2, <3>4
      <4> QED
        BY <3>4, <4>1
    <3> QED
      BY <3>3, <3>4
  <2> QED
    BY <2>6 DEF InPlace
<1> QED
  BY <1>2, <1>3

------------------------------------------------------------------------------
(***************************************************************************)
(* The steps.                                                              *)
(***************************************************************************)

LEMMA IdleFacts ==
  ASSUME TInv
  PROVE  /\ job = Idle <=> job.stage = "idle"
         /\ job = Idle => job.file = "none" /\ job.file \notin Files
         /\ job # Idle => job.file \in Files
BY VolumeFacts DEF TInv, JobInRange, Idle

LEMMA SameEntries ==
  ASSUME UNCHANGED dir, EntriesInRange, Apart
  PROVE  /\ \A f : LastOf(f)' = LastOf(f) /\ Extent(f)' = Extent(f)
         /\ EntriesInRange' /\ Apart'
BY DEF LastOf, Extent, EntriesInRange, Apart

\* A replacement begins, on a volume without damage.
LEMMA VolumeBegin ==
  ASSUME VInv, Checked, NEW f \in Files, NEW n \in Lengths(f), Begin(f, n)
  PROVE  VInv'
<1>1. TInv'
  BY TypeBegin DEF VInv
<1>2. job = Idle /\ ~dirty /\ UNCHANGED <<fat, dir, data, broken, dirty>>
  BY DEF Begin
<1>3. /\ job'.file = f /\ job'.at = dir[f].first
      /\ job'.stage = IF dir[f].first \in Clusters THEN "free" ELSE "find"
  BY DEF Begin
<1>4. /\ \A g : LastOf(g)' = LastOf(g) /\ Extent(g)' = Extent(g)
      /\ EntriesInRange' /\ Apart'
  BY <1>2, SameEntries DEF VInv
<1>5. \A g \in Files : InPlace(g)
  BY <1>2, IdleFacts DEF VInv, CleanSound
<1>6. \A g : /\ InPlace(g)' <=> InPlace(g)
             /\ Holds(g)' <=> Holds(g)
  BY <1>2, <1>4 DEF InPlace, Holds
<1>7. NoJumps'
  BY <1>2 DEF VInv, NoJumps
<1>8. OthersSound' /\ CleanSound'
  BY <1>2, <1>3, <1>5, <1>6, IdleFacts DEF VInv, OthersSound, CleanSound
<1>9. dir[f].first \in Clusters => dir[f].first \in Extent(f)
  BY EntryFacts, VolumeFacts DEF VInv, TInv, EntriesInRange, Free
<1>10. JobSound'
  BY <1>2, <1>3, <1>4, <1>5, <1>9 DEF JobSound, InPlaceFrom, InPlace
<1>11. AllOwned'
  <2> SUFFICES ASSUME NEW c \in Clusters, fat[c] # Free
               PROVE  OwnedByJob(c)' \/ \E g \in Files \ {f} : c \in Extent(g)
    BY <1>2, <1>3, <1>4 DEF AllOwned
  <2>1. PICK g \in Files : c \in Extent(g)
    BY <1>2, IdleFacts DEF VInv, AllOwned, OwnedByJob, Idle
  <2>2. CASE g = f
    <3>1. dir[f].first \in Clusters /\ c >= dir[f].first
      BY <2>1, <2>2, EntryFacts, ClusterFacts DEF VInv, TInv, Extent, EntriesInRange
    <3> QED
      BY <1>3, <1>4, <2>1, <2>2, <3>1 DEF OwnedByJob
  <2> QED
    BY <2>1, <2>2
<1> QED
  BY <1>1, <1>4, <1>7, <1>8, <1>10, <1>11 DEF VInv

\* free_chain takes one cluster of the old chain, and the next is behind it.
LEMMA VolumeFree ==
  ASSUME VInv, FreeOne
  PROVE  VInv'
<1> DEFINE f == job.file
<1>1. TInv'
  BY TypeFree DEF VInv
<1>2. /\ job.stage = "free" /\ f \in Files /\ job'.file = f /\ job'.at = fat[job.at]
      /\ job'.stage \in {"free", "find"}
      /\ job'.stage = "free" <=> fat[job.at] \in Clusters
  BY FreeStep DEF VInv
<1>3. UNCHANGED <<dir, data, broken, dirty>> /\ fat' = [fat EXCEPT ![job.at] = Free]
  BY DEF FreeOne
<1>4. /\ \A g : LastOf(g)' = LastOf(g) /\ Extent(g)' = Extent(g)
      /\ EntriesInRange' /\ Apart'
  BY <1>3, SameEntries DEF VInv
<1>5. job.at \in Extent(f) /\ InPlaceFrom(f, job.at) /\ Extent(f) \subseteq Clusters
      /\ LastOf(f) \in Clusters
  BY <1>2, EntryFacts DEF VInv, TInv, JobSound
<1>6. fat'[job.at] = Free /\ \A c \in Clusters \ {job.at} : fat'[c] = fat[c]
  BY <1>3, <1>5 DEF VInv, TInv, TypeOK
<1>7. \A g \in Files \ {f} : /\ Extent(g) \subseteq Clusters \ {job.at}
                             /\ InPlace(g) => InPlace(g)'
                             /\ Holds(g) => Holds(g)'
  <2> TAKE g \in Files \ {f}
  <2>1. Extent(g) \subseteq Clusters \ {job.at}
    BY <1>2, <1>5, EntryFacts DEF VInv, TInv, Apart
  <2> QED
    BY <1>3, <1>4, <1>6, <2>1 DEF InPlace, Holds
<1>8. NoJumps'
  BY <1>6 DEF VInv, NoJumps
<1>9. OthersSound' /\ CleanSound'
  BY <1>2, <1>3, <1>7 DEF VInv, OthersSound, CleanSound
<1>10. fat[job.at] = IF job.at = LastOf(f) THEN EndOfChain ELSE job.at + 1
  <2>1. job.at \in Int
    BY <1>5, ClusterFacts
  <2>2. \A d \in Int : d >= d
    OBVIOUS
  <2> QED
    BY <1>5, <2>1, <2>2 DEF InPlaceFrom
<1>11. job'.stage = "free" => job.at # LastOf(f) /\ job'.at = job.at + 1
  BY <1>2, <1>10, VolumeFacts
<1>12. job.at # LastOf(f) => job.at + 1 \in Extent(f)
  BY <1>5, ClusterFacts, <1>2, EntryFacts DEF Extent, VInv, TInv
<1>13. JobSound'
  <2>1. CASE job'.stage = "free"
    <3>1. job'.at = job.at + 1 /\ job'.at \in Extent(f)
      BY <1>11, <1>12, <2>1
    <3>2. \A d \in Extent(f) : d >= job'.at => d >= job.at /\ d # job.at /\ d \in Clusters
      <4>1. job.at \in Int /\ Extent(f) \subseteq Int
        BY <1>5, ClusterFacts
      <4> QED
        BY <1>5, <3>1, <4>1
    <3>3. \A d \in Extent(f) : d >= job'.at =>
            fat'[d] = IF d = LastOf(f) THEN EndOfChain ELSE d + 1
      BY <1>5, <1>6, <3>2 DEF InPlaceFrom
    <3> QED
      BY <1>2, <1>4, <2>1, <3>1, <3>3 DEF JobSound, InPlaceFrom
  <2>2. CASE job'.stage # "free"
    BY <1>2, <2>2 DEF JobSound
  <2> QED
    BY <2>1, <2>2
<1>14. AllOwned'
  <2> SUFFICES ASSUME ~dirty, NEW c \in Clusters, fat'[c] # Free
               PROVE  OwnedByJob(c)' \/ \E g \in Files \ {f} : c \in Extent(g)
    BY <1>2, <1>3, <1>4 DEF AllOwned
  <2>1. c # job.at /\ fat[c] # Free
    BY <1>6
  <2>2. OwnedByJob(c) \/ \E g \in Files \ {f} : c \in Extent(g)
    BY <2>1 DEF VInv, AllOwned
  <2>3. CASE OwnedByJob(c)
    <3>1. c \in Extent(f) /\ c >= job.at
      BY <1>2, <2>3 DEF OwnedByJob
    <3>2. c >= job.at + 1 /\ job.at # LastOf(f)
      BY <1>5, <2>1, <3>1, ClusterFacts DEF Extent
    <3>3. job'.stage = "free"
      BY <1>2, <1>5, <1>10, <1>12, <3>2
    <3> QED
      BY <1>2, <1>4, <1>11, <3>1, <3>2, <3>3 DEF OwnedByJob
  <2> QED
    BY <2>2, <2>3
<1> QED
  BY <1>1, <1>4, <1>8, <1>9, <1>13, <1>14 DEF VInv

\* find_free_run takes free clusters, which are on nobody's chain.
LEMMA VolumeFind ==
  ASSUME VInv, Find
  PROVE  VInv'
<1> DEFINE f == job.file
<1>1. TInv'
  BY TypeFind DEF VInv
<1>2. /\ job.stage = "find" /\ f \in Files /\ job'.file = f /\ job'.stage = "link"
      /\ job'.at = job'.first /\ job'.first \in Clusters
      /\ Run' = job'.first .. (job'.first + job.length - 1)
      /\ \A c \in Run' : fat[c] = Free
  BY FindStep DEF VInv, Run, LastOfRun
<1>3. UNCHANGED <<fat, dir, data, broken, dirty>>
  BY DEF Find
<1>4. /\ \A g : LastOf(g)' = LastOf(g) /\ Extent(g)' = Extent(g)
      /\ EntriesInRange' /\ Apart'
  BY <1>3, SameEntries DEF VInv
<1>5. \A g : (InPlace(g)' <=> InPlace(g)) /\ (Holds(g)' <=> Holds(g))
  BY <1>3, <1>4 DEF InPlace, Holds
<1>6. NoJumps' /\ OthersSound' /\ CleanSound'
  BY <1>2, <1>3, <1>5 DEF VInv, NoJumps, OthersSound, CleanSound
<1>7. \A g \in Files \ {f} : Run' \cap Extent(g) = {}
  <2> SUFFICES ASSUME NEW g \in Files \ {f}, NEW c \in Extent(g)
               PROVE  fat[c] # Free
    BY <1>2
  <2>1. InPlace(g)
    BY <1>2 DEF VInv, CleanSound
  <2>2. c \in Clusters
    BY EntryFacts DEF VInv, TInv
  <2> QED
    BY <2>1, <2>2, VolumeFacts DEF InPlace, Clusters, Free, EndOfChain
<1>8. JobSound'
  <2>1. \A c \in Run' : ~(c < job'.at)
    <3>1. job'.first \in Int
      BY <1>2, ClusterFacts
    <3> QED
      BY <1>2, <3>1
  <2> QED
    BY <1>2, <1>4, <1>7, <2>1 DEF JobSound
<1>9. AllOwned'
  BY <1>2, <1>3, <1>4 DEF VInv, AllOwned, OwnedByJob
<1> QED
  BY <1>1, <1>4, <1>6, <1>8, <1>9 DEF VInv

\* link_run and the caller's writes stay inside of the run.
LEMMA RunIsOwn ==
  ASSUME VInv, job.stage \in {"link", "write"}
  PROVE  \A g \in Files \ {job.file} : Extent(g) \subseteq Clusters \ {job.at}
<1>1. job.at \in Run /\ \A g \in Files \ {job.file} : Run \cap Extent(g) = {}
  BY RunShape DEF VInv, JobSound
<1> QED
  BY <1>1, EntryFacts DEF VInv, TInv

LEMMA VolumeLink ==
  ASSUME VInv, LinkOne
  PROVE  VInv'
<1> DEFINE f == job.file
<1>1. TInv'
  BY TypeLink DEF VInv
<1>2. /\ job.stage = "link" /\ job'.file = f
      /\ job'.stage = IF job.at = LastOfRun THEN "write" ELSE "link"
      /\ job'.at = IF job.at = LastOfRun THEN job.first ELSE job.at + 1
      /\ job'.first = job.first /\ LastOfRun' = LastOfRun /\ Run' = Run
      /\ fat'[job.at] = IF job.at = LastOfRun THEN EndOfChain ELSE job.at + 1
      /\ \A c \in Clusters \ {job.at} : fat'[c] = fat[c]
  BY LinkStep DEF VInv
<1>3. UNCHANGED <<dir, data, made, broken, dirty>>
  BY DEF LinkOne
<1>4. /\ \A g : LastOf(g)' = LastOf(g) /\ Extent(g)' = Extent(g)
      /\ EntriesInRange' /\ Apart'
  BY <1>3, SameEntries DEF VInv
<1>5. /\ job.at \in Run /\ job.first \in Clusters /\ LastOfRun \in Clusters
      /\ Run \subseteq Clusters /\ f \in Files
  BY <1>2, RunShape, VolumeFacts DEF VInv, Run, Clusters
<1>6. \A g \in Files \ {f} : /\ InPlace(g) => InPlace(g)'
                             /\ Holds(g) => Holds(g)'
  <2> TAKE g \in Files \ {f}
  <2>1. Extent(g) \subseteq Clusters \ {job.at}
    BY <1>2, RunIsOwn
  <2> QED
    BY <1>2, <1>3, <1>4, <2>1 DEF InPlace, Holds
<1>7. NoJumps'
  BY <1>2, <1>5 DEF VInv, NoJumps
<1>8. OthersSound' /\ CleanSound'
  BY <1>2, <1>3, <1>6 DEF VInv, OthersSound, CleanSound
<1>9. \A c \in Run : c < job.at => fat'[c] = c + 1
  BY <1>2, <1>5, ClusterFacts DEF VInv, JobSound
<1>10. job.at \in Int /\ job.first \in Int /\ LastOfRun \in Int /\ Run \subseteq Int
  BY <1>5, ClusterFacts
<1>11. JobSound'
  <2>1. \A g \in Files \ {f} : Run \cap Extent(g) = {}
    BY <1>2 DEF VInv, JobSound
  <2>2. CASE job.at # LastOfRun
    <3>1. \A c \in Run : c < job'.at => fat'[c] = c + 1
      <4> TAKE c \in Run
      <4> HAVE c < job'.at
      <4>1. CASE c = job.at
        BY <1>2, <2>2, <4>1
      <4>2. CASE c # job.at
        BY <1>2, <1>9, <1>10, <2>2, <4>2
      <4> QED
        BY <4>1, <4>2
    <3> QED
      BY <1>2, <1>4, <2>1, <2>2, <3>1 DEF JobSound
  <2>3. CASE job.at = LastOfRun
    <3>1. \A c \in Run : fat'[c] = IF c = LastOfRun THEN EndOfChain ELSE c + 1
      <4> TAKE c \in Run
      <4>1. CASE c = LastOfRun
        BY <1>2, <2>3, <4>1
      <4>2. CASE c # LastOfRun
        <5>1. c < job.at
          BY <1>10, <2>3, <4>2 DEF Run
        <5> QED
          BY <1>9, <4>2, <5>1
      <4> QED
        BY <4>1, <4>2
    <3>2. \A c \in Run : ~(c < job'.at)
      BY <1>2, <1>10, <2>3 DEF Run
    <3> QED
      BY <1>2, <1>4, <2>1, <2>3, <3>1, <3>2 DEF JobSound
  <2> QED
    BY <2>2, <2>3
<1>12. AllOwned'
  <2> SUFFICES ASSUME ~dirty, NEW c \in Clusters, fat'[c] # Free
               PROVE  OwnedByJob(c)' \/ \E g \in Files \ {f} : c \in Extent(g)
    BY <1>2, <1>3, <1>4 DEF AllOwned
  <2>1. CASE c = job.at
    <3>1. c \in Run /\ (job.at # LastOfRun => c < job'.at)
      BY <1>2, <1>5, <1>10, <2>1
    <3> QED
      BY <1>2, <3>1 DEF OwnedByJob
  <2>2. CASE c # job.at
    <3>1. OwnedByJob(c) \/ \E g \in Files \ {f} : c \in Extent(g)
      BY <1>2, <2>2 DEF VInv, AllOwned
    <3>2. OwnedByJob(c) => c \in Run /\ c < job.at
      BY <1>2 DEF OwnedByJob
    <3>3. OwnedByJob(c) => c < job.at + 1
      <4>1. \A d, e \in Int : d < e => d < e + 1
        OBVIOUS
      <4> QED
        BY <1>10, <3>2, <4>1
    <3>4. OwnedByJob(c) => OwnedByJob(c)'
      BY <1>2, <3>2, <3>3 DEF OwnedByJob
    <3> QED
      BY <3>1, <3>4
  <2> QED
    BY <2>1, <2>2
<1> QED
  BY <1>1, <1>4, <1>7, <1>8, <1>11, <1>12 DEF VInv

LEMMA VolumeWrite ==
  ASSUME VInv, WriteOne
  PROVE  VInv'
<1> DEFINE f == job.file
<1>1. TInv'
  BY TypeWrite DEF VInv
<1>2. /\ job.stage = "write" /\ job'.file = f
      /\ job'.stage = IF job.at = LastOfRun THEN "commit" ELSE "write"
      /\ job'.stage = "write" => job'.at = job.at + 1
      /\ job'.first = job.first /\ LastOfRun' = LastOfRun /\ Run' = Run
      /\ data'[job.at] = [file |-> f, by |-> made, at |-> job.at - job.first + 1]
      /\ \A c \in Clusters \ {job.at} : data'[c] = data[c]
  BY WriteStep DEF VInv
<1>3. UNCHANGED <<fat, dir, made, broken, dirty>>
  BY DEF WriteOne
<1>4. /\ \A g : LastOf(g)' = LastOf(g) /\ Extent(g)' = Extent(g)
      /\ EntriesInRange' /\ Apart'
  BY <1>3, SameEntries DEF VInv
<1>5. /\ job.at \in Run /\ Run \subseteq Clusters /\ Run \subseteq Int /\ job.at \in Int
      /\ LastOfRun \in Int /\ f \in Files
  BY <1>2, RunShape, VolumeFacts, ClusterFacts DEF VInv, Run, Clusters
<1>6. \A g \in Files \ {f} : /\ InPlace(g) => InPlace(g)'
                             /\ Holds(g) => Holds(g)'
  <2> TAKE g \in Files \ {f}
  <2>1. Extent(g) \subseteq Clusters \ {job.at}
    BY <1>2, RunIsOwn
  <2> QED
    BY <1>2, <1>3, <1>4, <2>1 DEF InPlace, Holds
<1>7. NoJumps' /\ OthersSound' /\ CleanSound'
  BY <1>2, <1>3, <1>6 DEF VInv, NoJumps, OthersSound, CleanSound
<1>8. JobSound'
  <2>1. \A g \in Files \ {f} : Run \cap Extent(g) = {}
    BY <1>2 DEF VInv, JobSound
  <2>2. \A c \in Run : fat[c] = IF c = LastOfRun THEN EndOfChain ELSE c + 1
    BY <1>2 DEF VInv, JobSound
  <2>3. \A c \in Run : c <= job.at =>
          data'[c] = [file |-> f, by |-> made, at |-> c - job.first + 1]
    <3> TAKE c \in Run
    <3> HAVE c <= job.at
    <3>1. CASE c = job.at
      BY <1>2, <3>1
    <3>2. CASE c # job.at
      <4>1. c < job.at /\ c \in Clusters
        BY <1>5, <3>2
      <4> QED
        BY <1>2, <3>2, <4>1 DEF VInv, JobSound
    <3> QED
      BY <3>1, <3>2
  <2>4. \A c \in Run : (job'.stage = "commit" \/ c < job'.at) => c <= job.at
    BY <1>2, <1>5 DEF Run
  <2> QED
    BY <1>2, <1>3, <1>4, <2>1, <2>2, <2>3, <2>4 DEF JobSound
<1>9. AllOwned'
  BY <1>2, <1>3, <1>4 DEF VInv, AllOwned, OwnedByJob
<1> QED
  BY <1>1, <1>4, <1>7, <1>8, <1>9 DEF VInv

\* commit_file: the run becomes the file.
LEMMA VolumeCommit ==
  ASSUME VInv, Commit
  PROVE  VInv'
<1>0. PICK f \in Files : f = job.file
  BY DEF VInv, TInv, JobInRange, Commit
<1>1. TInv'
  BY TypeCommit DEF VInv
<1>2. /\ job.stage = "commit" /\ job.length \in 1 .. MaxLength
      /\ job.first \in Clusters /\ LastOfRun \in Clusters
  BY DEF VInv, TInv, JobInRange, Commit
<1>3. /\ job' = Idle /\ job'.file = "none" /\ job'.stage = "idle"
      /\ UNCHANGED <<fat, data, made, dirty>> /\ broken' = broken \ {f}
  BY <1>0 DEF Commit, Idle
<1>4. /\ dir'[f] = [first |-> job.first, length |-> job.length, by |-> made]
      /\ \A g \in Files \ {f} : dir'[g] = dir[g]
  BY <1>0, <1>2 DEF VInv, TInv, TypeOK, Commit
<1>5. /\ LastOf(f)' = LastOfRun /\ Extent(f)' = Run /\ dir'[f].length # 0
      /\ \A g \in Files \ {f} : LastOf(g)' = LastOf(g) /\ Extent(g)' = Extent(g)
  BY <1>2, <1>4 DEF LastOf, Extent, LastOfRun, Run
<1>6. EntriesInRange'
  BY <1>2, <1>4, <1>5 DEF VInv, EntriesInRange
<1>7. \A g \in Files \ {f} : Run \cap Extent(g) = {}
  BY <1>0, <1>2 DEF VInv, JobSound
<1>8. Apart'
  BY <1>5, <1>7 DEF VInv, Apart
<1>9. InPlace(f)' /\ Holds(f)'
  BY <1>0, <1>2, <1>3, <1>4, <1>5 DEF VInv, JobSound, InPlace, Holds
<1>10. \A g \in Files \ {f} : /\ InPlace(g) => InPlace(g)'
                              /\ Holds(g) => Holds(g)'
  BY <1>3, <1>4, <1>5 DEF InPlace, Holds
<1>11. NoJumps'
  BY <1>3 DEF VInv, NoJumps
<1>12. OthersSound' /\ CleanSound'
  BY <1>0, <1>3, <1>9, <1>10 DEF VInv, OthersSound, CleanSound
<1>13. JobSound'
  BY <1>3 DEF JobSound
<1>14. AllOwned'
  <2> SUFFICES ASSUME ~dirty, NEW c \in Clusters, fat[c] # Free
               PROVE  \E g \in Files : c \in Extent(g)'
    BY <1>3, VolumeFacts DEF AllOwned
  <2>1. OwnedByJob(c) \/ \E g \in Files \ {f} : c \in Extent(g)
    BY <1>0 DEF VInv, AllOwned
  <2>2. OwnedByJob(c) => c \in Run
    BY <1>2 DEF OwnedByJob
  <2> QED
    BY <1>2, <1>5, <2>1, <2>2
<1> QED
  BY <1>1, <1>6, <1>8, <1>11, <1>12, <1>13, <1>14 DEF VInv

\* A replacement that is cut off has torn the file it replaces.
LEMMA VolumeAbandon ==
  ASSUME VInv, Abandon, job # Idle
  PROVE  VInv'
<1>1. TInv'
  BY TypeAbandon DEF VInv
<1>2. /\ job'.file = "none" /\ job'.stage = "idle" /\ dirty' = TRUE
      /\ UNCHANGED <<fat, dir, data>> /\ broken' = broken \cup {job.file}
  BY DEF Abandon, Idle
<1>3. /\ \A g : LastOf(g)' = LastOf(g) /\ Extent(g)' = Extent(g)
      /\ EntriesInRange' /\ Apart'
  BY <1>2, SameEntries DEF VInv
<1>4. \A g : (InPlace(g)' <=> InPlace(g)) /\ (Holds(g)' <=> Holds(g))
  BY <1>2, <1>3 DEF InPlace, Holds
<1>5. NoJumps' /\ OthersSound' /\ CleanSound' /\ JobSound' /\ AllOwned'
  BY <1>2, <1>4 DEF VInv, NoJumps, OthersSound, CleanSound, JobSound, AllOwned
<1> QED
  BY <1>1, <1>3, <1>5 DEF VInv

\* The check keeps what can be read to its end and frees the rest.
LEMMA VolumeCheck ==
  ASSUME VInv, Check
  PROVE  VInv'
<1> DEFINE kept == {f \in Files : Linked(f)}
           used == UNION {Chain(f) : f \in kept}
<1>1. TInv'
  BY TypeCheck DEF VInv
<1>2. job = Idle /\ job.file = "none" /\ job.stage = "idle" /\ UNCHANGED <<data, job, made, broken>>
  BY DEF Check, Idle
<1>3. /\ dir' = [f \in Files |-> IF f \in kept THEN dir[f] ELSE NoEntry]
      /\ fat' = [c \in Clusters |-> IF c \in used THEN fat[c] ELSE Free]
  BY DEF Check
<1>4. \A f \in Files : f \in kept <=> InPlace(f)
  BY InPlaceLinked, LinkedInPlace DEF VInv, TInv
<1>5. \A f \in kept : Chain(f) = Extent(f) /\ Extent(f) \subseteq Clusters
  BY <1>4, InPlaceLinked, EntryFacts DEF VInv, TInv
<1> HIDE DEF kept
<1>6. \A c : c \in used <=> \E f \in kept : c \in Extent(f)
  BY <1>5
<1> HIDE DEF used
<1>7. \A f \in Files :
        IF f \in kept THEN dir'[f] = dir[f] /\ LastOf(f)' = LastOf(f) /\ Extent(f)' = Extent(f)
        ELSE dir'[f].length = 0 /\ dir'[f].first = 0 /\ Extent(f)' = {}
  BY <1>3 DEF LastOf, Extent, NoEntry
<1>8. EntriesInRange' /\ Apart'
  BY <1>7 DEF VInv, EntriesInRange, Apart
<1>9. NoJumps'
  BY <1>3 DEF VInv, NoJumps
<1>10. \A f \in Files : InPlace(f)'
  <2> TAKE f \in Files
  <2>1. CASE f \in kept
    <3>1. \A d \in Extent(f) : fat'[d] = fat[d]
      BY <1>3, <1>5, <1>6, <2>1
    <3> QED
      BY <1>4, <1>7, <2>1, <3>1 DEF InPlace
  <2>2. CASE f \notin kept
    BY <1>7, <2>2 DEF InPlace
  <2> QED
    BY <2>1, <2>2
<1>11. \A f \in Files : Holds(f) => Holds(f)'
  BY <1>2, <1>7 DEF Holds
<1>12. OthersSound' /\ CleanSound' /\ JobSound'
  BY <1>2, <1>10, <1>11 DEF VInv, OthersSound, CleanSound, JobSound
<1>13. AllOwned'
  <2> SUFFICES ASSUME NEW c \in Clusters, fat'[c] # Free
               PROVE  \E f \in Files : c \in Extent(f)'
    BY <1>2, VolumeFacts DEF AllOwned
  <2>1. PICK f \in kept : c \in Extent(f)
    BY <1>3, <1>6
  <2>2. f \in Files
    BY DEF kept
  <2> QED
    BY <1>7, <2>1, <2>2
<1> QED
  BY <1>1, <1>8, <1>9, <1>12, <1>13 DEF VInv

LEMMA VolumeInduction == Checked /\ VInv /\ [Next]_vars => VInv'
<1> SUFFICES ASSUME Checked, VInv, [Next]_vars PROVE VInv'
  OBVIOUS
<1>1. ASSUME NEW f \in Files, NEW n \in Lengths(f), Begin(f, n) PROVE VInv'
  BY <1>1, VolumeBegin
<1>2. CASE FreeOne \/ Find \/ LinkOne \/ WriteOne \/ Commit
  BY <1>2, VolumeFree, VolumeFind, VolumeLink, VolumeWrite, VolumeCommit
<1>3. CASE NoSpace \/ CutOff
  <2>1. Abandon /\ job # Idle
    BY <1>3 DEF NoSpace, CutOff, Idle
  <2> QED
    BY <2>1, VolumeAbandon
<1>4. CASE UNCHANGED <<fat, dir, data, job, made, broken, dirty>> /\ TInv'
  <2>1. EntriesInRange' /\ Apart' /\ NoJumps'
    BY <1>4 DEF VInv, EntriesInRange, Apart, NoJumps, Extent, LastOf
  <2>2. OthersSound' /\ CleanSound'
    BY <1>4 DEF VInv, OthersSound, CleanSound, InPlace, Holds, Extent, LastOf
  <2>3. JobSound'
    BY <1>4 DEF VInv, JobSound, InPlaceFrom, Run, LastOfRun, Extent, LastOf
  <2>4. AllOwned'
    BY <1>4 DEF VInv, AllOwned, OwnedByJob, Run, LastOfRun, Extent, LastOf
  <2> QED
    BY <1>4, <2>1, <2>2, <2>3, <2>4 DEF VInv
<1>5. CASE CutOffBetween \/ UNCHANGED vars
  <2>1. TInv'
    BY <1>5, TypeInduction DEF VInv, Next
  <2> QED
    BY <1>4, <1>5, <2>1 DEF CutOffBetween, vars
<1>6. CASE Check
  BY <1>6, VolumeCheck
<1> QED
  BY <1>1, <1>2, <1>3, <1>5, <1>6 DEF Next

LEMMA VolumeInit == Init => VInv
<1> SUFFICES ASSUME Init PROVE VInv
  OBVIOUS
<1>1. TInv
  BY TypeInit
<1>2. \A f \in Files : dir[f].length = 0 /\ dir[f].first = 0 /\ Extent(f) = {}
  BY DEF Init, NoEntry, Extent, LastOf
<1>3. \A c \in Clusters : fat[c] = Free
  BY DEF Init
<1>4. job.stage = "idle"
  BY DEF Init, Idle
<1>5. EntriesInRange /\ Apart /\ NoJumps /\ OthersSound /\ CleanSound /\ JobSound /\ AllOwned
  BY <1>2, <1>3, <1>4 DEF EntriesInRange, Apart, NoJumps, OthersSound, CleanSound,
     JobSound, AllOwned, InPlace, Holds
<1> QED
  BY <1>1, <1>5 DEF VInv

LEMMA VolumeInvariance == ASSUME Checked PROVE Spec => []VInv
<1>1. VInv /\ [Next]_vars => VInv'
  BY VolumeInduction
<1> QED
  BY <1>1, VolumeInit, PTL DEF Spec

------------------------------------------------------------------------------
\* On a volume that is checked after a replacement was cut off, a replacement
\* that ends anywhere tears at most the file it replaces: every other one can
\* be read along its chain and holds what was written into it.
THEOREM OthersStayWhole == ASSUME Checked PROVE Spec => []OthersWhole
<1>1. VInv => OthersWhole
  <2> SUFFICES ASSUME VInv, NEW f \in Files \ (broken \cup {job.file}) PROVE Whole(f)
    BY DEF OthersWhole
  <2>1. InPlace(f) /\ Holds(f) /\ TypeOK /\ EntriesInRange
    BY DEF VInv, TInv, OthersSound
  <2>2. Linked(f) /\ \A i \in 1 .. dir[f].length : Cluster(f)[i] = dir[f].first + i - 1
    BY <2>1, InPlaceLinked, InPlaceRead
  <2>3. ASSUME NEW i \in 1 .. dir[f].length
        PROVE  data[Cluster(f)[i]] = [file |-> f, by |-> dir[f].by, at |-> i]
    <3>1. dir[f].first \in Int /\ dir[f].length \in Nat
      BY <2>1, EntryFacts, VolumeFacts
    <3>2. dir[f].first + i - 1 \in Extent(f) /\ (dir[f].first + i - 1) - dir[f].first + 1 = i
      BY <3>1 DEF Extent, LastOf
    <3> QED
      BY <2>1, <2>2, <3>2 DEF Holds
  <2> QED
    BY <2>2, <2>3 DEF Whole
<1> QED
  BY <1>1, VolumeInvariance, PTL

\* ... and when nothing is going on, the clusters that are not free are those
\* of the files: none is lost, whatever was cut off before the check.
THEOREM NoClusterIsLost == ASSUME Checked PROVE Spec => []NothingLost
<1>1. VInv => NothingLost
  <2> SUFFICES ASSUME VInv, job = Idle, ~dirty
               PROVE  {c \in Clusters : fat[c] # Free} = UNION {Chain(f) : f \in Files}
    BY DEF NothingLost
  <2>1. \A f \in Files : InPlace(f) /\ Chain(f) = Extent(f) /\ Extent(f) \subseteq Clusters
    BY IdleFacts, InPlaceLinked, EntryFacts DEF VInv, TInv, CleanSound
  <2>2. \A f \in Files : \A c \in Extent(f) : fat[c] # Free
    BY <2>1, VolumeFacts DEF InPlace, Clusters, Free, EndOfChain
  <2>3. \A c \in Clusters : fat[c] # Free => \E f \in Files : c \in Extent(f)
    BY DEF VInv, AllOwned, OwnedByJob, Idle
  <2> QED
    BY <2>1, <2>2, <2>3
<1> QED
  BY <1>1, VolumeInvariance, PTL
==============================================================================
