------------------------------ MODULE FatVolume -------------------------------
(***************************************************************************)
(* Replacing a file on the FAT32 volume the machine boots from             *)
(* (crates/disk/src/fat32.rs: reserve_file, the caller's writes,           *)
(* commit_file), and its two users in kernel/src/slot.rs: an update, which *)
(* replaces the kernel and then the initrd of the idle slot, and the       *)
(* settings, which replace DISPLAY.CFG.  Both hold the LAYOUT mutex, so    *)
(* one replacement runs at a time.                                         *)
(*                                                                         *)
(* The old chain is freed before the new one is found, and the directory   *)
(* entry is written last.  A replacement can end at any of its writes: the *)
(* power fails, the container turns out to be damaged, the device refuses. *)
(* The entry then names clusters that are free, and may be given away.     *)
(*                                                                         *)
(* Writes reach the medium in the order of the code.  The two copies of    *)
(* the table are one, and FSInfo is left out.                              *)
(***************************************************************************)
EXTENDS Integers, FiniteSets

CONSTANTS
  Files,      \* the files that are replaced
  Size,       \* clusters of the volume that files may use
  MaxLength,  \* bound: clusters of a kernel or an initrd
  MaxMade,    \* bound: how many replacements are begun
  Checked     \* whether a volume is checked after a replacement was cut off

ASSUME VolumeAssumption ==
  /\ {"kernel", "initrd"} \subseteq Files /\ Files \subseteq {"kernel", "initrd", "display"}
  /\ Size \in Nat \ {0} /\ MaxLength \in Nat \ {0} /\ MaxMade \in Nat
  /\ Checked \in BOOLEAN

Clusters == 1 .. Size
Free == 0
EndOfChain == Size + 1

Lengths(f) == IF f = "display" THEN {1} ELSE 1 .. MaxLength

VARIABLES
  fat,     \* the table: Free, the next cluster, or EndOfChain
  dir,     \* directory: first cluster and length; by: which replacement wrote it
  data,    \* what lies in a cluster: file, replacement, position
  job,     \* the replacement in progress
  update,  \* the file an update replaces next, or "none"
  made,    \* replacements begun so far
  broken,  \* history: files whose replacement was cut off, till the next one
  dirty    \* a replacement was cut off and nobody has checked the volume

vars == <<fat, dir, data, job, update, made, broken, dirty>>

NoEntry == [first |-> 0, length |-> 0, by |-> 0]
Nothing == [file |-> "none", by |-> 0, at |-> 0]
Idle == [file |-> "none", stage |-> "idle", length |-> 0, first |-> 0, at |-> 0]

------------------------------------------------------------------------------
\* The i-th cluster of a file, as a reader of the volume finds it.
Cluster(f) ==
  LET c[i \in 1 .. MaxLength] ==
        IF i = 1 THEN dir[f].first
        ELSE IF c[i - 1] \in Clusters THEN fat[c[i - 1]] ELSE Free
  IN  c

Chain(f) == {Cluster(f)[i] : i \in 1 .. dir[f].length}

\* As many clusters as the entry says, and then the end of the chain.
Linked(f) ==
  dir[f].length > 0 =>
    /\ Chain(f) \subseteq Clusters
    /\ fat[Cluster(f)[dir[f].length]] = EndOfChain

\* ... and in them what was written.
Whole(f) ==
  /\ Linked(f)
  /\ \A i \in 1 .. dir[f].length :
       data[Cluster(f)[i]] = [file |-> f, by |-> dir[f].by, at |-> i]

IsRun(r, n) == \A i \in 0 .. (n - 1) : r + i \in Clusters /\ fat[r + i] = Free

HeadIsFree(n) == {r \in Clusters : r + n - 1 \in Clusters /\ fat[r] = Free}

\* find_free_run: where n free clusters in a row begin.
Runs(n) == {r \in Clusters : IsRun(r, n)}

------------------------------------------------------------------------------
Init ==
  /\ fat = [c \in Clusters |-> Free]
  /\ dir = [f \in Files |-> NoEntry]
  /\ data = [c \in Clusters |-> Nothing]
  /\ job = Idle /\ update = "none" /\ made = 0
  /\ broken = {} /\ dirty = FALSE

\* reserve_file looks the name up; an update goes from the kernel to the
\* initrd.
Begin(f, n) ==
  /\ job = Idle /\ made < MaxMade
  /\ IF update = "initrd" THEN f = "initrd" ELSE f # "initrd"
  /\ Checked => ~dirty
  /\ made' = made + 1
  /\ job' = [file |-> f, length |-> n, first |-> 0, at |-> dir[f].first,
             stage |-> IF dir[f].first \in Clusters THEN "free" ELSE "find"]
  /\ update' = "none"
  /\ UNCHANGED <<fat, dir, data, broken, dirty>>

OnlyTheHead(c) == Free

\* Where free_chain goes on.
FollowedBy(c) == fat[c]

\* free_chain, one entry of the table.
FreeOne ==
  /\ job.stage = "free"
  /\ fat' = [fat EXCEPT ![job.at] = Free]
  /\ LET next == FollowedBy(job.at)
     IN  job' = [job EXCEPT !.at = next,
                            !.stage = IF next \in Clusters THEN "free" ELSE "find"]
  /\ UNCHANGED <<dir, data, update, made, broken, dirty>>

\* find_free_run: the first run that is long enough.
Find ==
  /\ job.stage = "find"
  /\ \E r \in Runs(job.length) :
       /\ \A q \in Runs(job.length) : r <= q
       /\ job' = [job EXCEPT !.first = r, !.at = r, !.stage = "link"]
  /\ UNCHANGED <<fat, dir, data, update, made, broken, dirty>>

OnePastTheRun == job.first + job.length

LastOfRun == job.first + job.length - 1

\* link_run, one entry of the table.
LinkOne ==
  /\ job.stage = "link"
  /\ LET last == job.at = LastOfRun
     IN  /\ fat' = [fat EXCEPT ![job.at] = IF last THEN EndOfChain ELSE job.at + 1]
         /\ job' = IF last THEN [job EXCEPT !.at = job.first, !.stage = "write"]
                           ELSE [job EXCEPT !.at = @ + 1]
  /\ UNCHANGED <<dir, data, update, made, broken, dirty>>

\* The caller writes one cluster of the run.
WriteOne ==
  /\ job.stage = "write"
  /\ data' = [data EXCEPT ![job.at] =
                [file |-> job.file, by |-> made, at |-> job.at - job.first + 1]]
  /\ job' = IF job.at = LastOfRun THEN [job EXCEPT !.stage = "commit"]
                                  ELSE [job EXCEPT !.at = @ + 1]
  /\ UNCHANGED <<fat, dir, update, made, broken, dirty>>

\* commit_file: the entry of the directory, the last write of all.
Commit ==
  /\ job.stage = "commit"
  /\ dir' = [dir EXCEPT ![job.file] =
               [first |-> job.first, length |-> job.length, by |-> made]]
  /\ broken' = broken \ {job.file}
  /\ update' = IF job.file = "kernel" THEN "initrd" ELSE "none"
  /\ job' = Idle
  /\ UNCHANGED <<fat, data, made, dirty>>

Abandon ==
  /\ broken' = broken \cup {job.file}
  /\ dirty' = TRUE
  /\ job' = Idle
  /\ UNCHANGED <<fat, dir, data, update, made>>

\* No run is long enough.
NoSpace == job.stage = "find" /\ Runs(job.length) = {} /\ Abandon

\* The power fails, the container cannot be read or does not match its
\* checksum, or a write is refused.
CutOff == job # Idle /\ Abandon

\* The same between the two files of an update.
CutOffBetween ==
  /\ update = "initrd"
  /\ update' = "none"
  /\ UNCHANGED <<fat, dir, data, job, made, broken, dirty>>

\* A file system check: entries that name no chain become empty, clusters
\* that no file names become free.
Check ==
  /\ job = Idle /\ dirty
  /\ LET kept == {f \in Files : Linked(f)}
         used == UNION {Chain(f) : f \in kept}
     IN  /\ dir' = [f \in Files |-> IF f \in kept THEN dir[f] ELSE NoEntry]
         /\ fat' = [c \in Clusters |-> IF c \in used THEN fat[c] ELSE Free]
  /\ dirty' = FALSE
  /\ UNCHANGED <<data, job, update, made, broken>>

Next ==
  \/ \E f \in Files : \E n \in Lengths(f) : Begin(f, n)
  \/ FreeOne \/ Find \/ LinkOne \/ WriteOne \/ Commit
  \/ NoSpace \/ CutOff \/ CutOffBetween
  \/ Check

Spec == Init /\ [][Next]_vars

------------------------------------------------------------------------------
Stages == {"idle", "free", "find", "link", "write", "commit"}

\* The shape of the state.
TypeOK ==
  /\ fat \in [Clusters -> 0 .. (Size + 1)]
  /\ dir \in [Files -> [first : 0 .. Size, length : 0 .. MaxLength, by : 0 .. MaxMade]]
  /\ data \in [Clusters -> [file : Files \cup {"none"}, by : 0 .. MaxMade,
                            at : 0 .. MaxLength]]
  /\ job \in [file : Files \cup {"none"}, stage : Stages, length : 0 .. MaxLength,
              first : 0 .. Size, at : 0 .. (Size + 1)]
  /\ update \in {"none", "initrd"}
  /\ made \in 0 .. MaxMade
  /\ broken \subseteq Files /\ dirty \in BOOLEAN

\* A replacement tears the file it replaces, and no other: everything else on
\* the volume can be read and holds what was written into it.
OthersWhole == \A f \in Files \ (broken \cup {job.file}) : Whole(f)

\* An update that has come to its end left a kernel and an initrd that are
\* what it wrote.
UpdateWhole ==
  job = Idle /\ update = "none" /\ {"kernel", "initrd"} \cap broken = {} =>
    Whole("kernel") /\ Whole("initrd")

\* No cluster is lost: when nothing is going on, every allocated one belongs
\* to a file.
NothingLost ==
  job = Idle /\ ~dirty =>
    {c \in Clusters : fat[c] # Free} = UNION {Chain(f) : f \in Files}
==============================================================================
