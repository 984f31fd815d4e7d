------------------------------ MODULE SlotUpdate ------------------------------
(***************************************************************************)
(* A/B update of the system: the record of slots (crates/slots), the boot  *)
(* loader that counts attempts and falls back (boot-uefi/src/slot.rs), the *)
(* kernel that confirms a boot and applies an update (kernel/src/slot.rs). *)
(*                                                                         *)
(* The power may fail at any step.  A sector of the record that is being   *)
(* written then holds the old copy, the new one, or neither (Damaged: its  *)
(* checksum does not match).  The loader flushes after each copy; the      *)
(* kernel flushes once, so the device may have kept either copy or both.   *)
(*                                                                         *)
(* A version is good or bad: a bad one never reaches confirm().  A slot    *)
(* whose parts are torn or of different versions may come up or not.       *)
(***************************************************************************)
EXTENDS Integers, FiniteSets

CONSTANTS
  DEFAULT_TRIES,
  Versions,      \* a set of naturals, 0 is the installed one
  Bad,           \* the versions that never come up
  MaxLosses,     \* bound: how many times the power fails
  MaxTears,      \* bound: how many of these failures tear a sector
  LoaderFaults,  \* bound: writes of the record that fail in the loader
  KernelFaults,  \* the same in the kernel
  OncePerBoot    \* whether people reboot before they apply the next update

ASSUME SlotAssumption ==
  /\ DEFAULT_TRIES \in 1 .. 255
  /\ Versions \subseteq Nat /\ 0 \in Versions
  /\ Bad \subseteq Versions /\ 0 \notin Bad
  /\ MaxLosses \in Nat /\ MaxTears \in Nat
  /\ LoaderFaults \in Nat /\ KernelFaults \in Nat
  /\ OncePerBoot \in BOOLEAN

Slot == {"A", "B"}
other(s) == CHOOSE t \in Slot : t # s
NoSlot == "-"

Parts == {"root", "kernel", "initrd"}
Partial == -1
NoVersion == -1

State == [active : Slot, previous : Slot, tries : 0 .. DEFAULT_TRIES,
          confirmed : BOOLEAN, rolled_back : BOOLEAN]
Damaged == [active |-> NoSlot, previous |-> NoSlot, tries |-> 0,
            confirmed |-> FALSE, rolled_back |-> FALSE]

VARIABLES
  primary,  \* the first sector of SLOTS.CFG
  spare,    \* the second one
  part,     \* what each slot holds: a version or Partial
  pc,       \* what the machine does
  booted,   \* the slot it was started from
  rec,      \* the state the loader or the kernel has in memory to write
  offered,  \* the version being written
  applied,  \* an update was applied since the machine started
  proved,   \* history: slots whose present content has come up
  losses, tears, loaderFaults, kernelFaults

record   == <<primary, spare>>
counters == <<losses, tears, loaderFaults, kernelFaults>>
vars == <<record, part, pc, booted, rec, offered, applied, proved, counters>>

------------------------------------------------------------------------------
(***************************************************************************)
(* The record: crate slots.                                                *)
(***************************************************************************)
fresh == [active |-> "A", previous |-> "A", tries |-> DEFAULT_TRIES,
          confirmed |-> TRUE, rolled_back |-> FALSE]

ReadPrimaryOnly == primary

\* State::parse: the primary copy, the spare one when the first is damaged.
parse == IF primary # Damaged THEN primary ELSE spare

Readable == parse # Damaged

FallBack(s) ==
  [s EXCEPT !.active = s.previous, !.previous = s.active,
            !.tries = DEFAULT_TRIES, !.rolled_back = TRUE]

NeverFallBack(s) ==
  IF s.confirmed THEN [s EXCEPT !.tries = DEFAULT_TRIES]
                 ELSE [s EXCEPT !.tries = @ - 1]

WithoutCount(s) ==
  IF s.confirmed THEN [s EXCEPT !.tries = DEFAULT_TRIES]
  ELSE IF s.tries = 0 THEN FallBack(s) ELSE s

begin_boot(s) ==
  IF s.confirmed THEN [s EXCEPT !.tries = DEFAULT_TRIES]
  ELSE LET t == IF s.tries = 0 THEN FallBack(s) ELSE s
       IN  [t EXCEPT !.tries = @ - 1]

confirm(s) ==
  [s EXCEPT !.confirmed = TRUE, !.tries = DEFAULT_TRIES, !.rolled_back = FALSE]

SwitchAndTrust(s) ==
  [active |-> other(s.active), previous |-> s.active, tries |-> DEFAULT_TRIES,
   confirmed |-> s.confirmed, rolled_back |-> FALSE]

switch_to_new(s) ==
  [active |-> other(s.active), previous |-> s.active, tries |-> DEFAULT_TRIES,
   confirmed |-> FALSE, rolled_back |-> FALSE]

------------------------------------------------------------------------------
\* Every part is there, of one version, and the version is good; or this very
\* content has come up before.
Works(s) ==
  \/ \E v \in Versions \ Bad : part[s] = [p \in Parts |-> v]
  \/ s \in proved

\* A kernel that is whole can reach confirm() when it mounts its root.
MayComeUp(s) ==
  /\ part[s]["kernel"] \notin Bad \cup {Partial}
  /\ part[s]["root"] \notin Bad

Init ==
  /\ primary = fresh /\ spare = fresh
  /\ part = [s \in Slot |-> [p \in Parts |-> IF s = "A" THEN 0 ELSE Partial]]
  /\ pc = "off" /\ booted = NoSlot
  /\ rec = fresh /\ offered = NoVersion /\ applied = FALSE
  /\ proved = {"A"}
  /\ losses = 0 /\ tears = 0 /\ loaderFaults = 0 /\ kernelFaults = 0

------------------------------------------------------------------------------
(***************************************************************************)
(* The loader: choose(), write_whole(), then the kernel of the slot.       *)
(***************************************************************************)
Choose ==
  /\ pc = "off" /\ Readable
  /\ rec' = begin_boot(parse)
  /\ booted' = rec'.active
  /\ applied' = FALSE
  /\ pc' = "spare"
  /\ UNCHANGED <<record, part, offered, proved, counters>>

\* Both copies damaged: the loader asks for \kernel.elf, which an installed
\* system does not have.
ChooseDefault ==
  /\ pc = "off" /\ ~Readable
  /\ pc' = "stuck"
  /\ UNCHANGED <<record, part, booted, rec, offered, applied, proved, counters>>

WriteSpare ==
  /\ pc = "spare"
  /\ spare' = rec
  /\ pc' = "primary"
  /\ UNCHANGED <<primary, part, booted, rec, offered, applied, proved, counters>>

WritePrimary ==
  /\ pc = "primary"
  /\ primary' = rec
  /\ pc' = "load"
  /\ UNCHANGED <<spare, part, booted, rec, offered, applied, proved, counters>>

\* A failed write is a line on the screen; the boot goes on.
LoaderFault ==
  /\ pc \in {"spare", "primary"} /\ loaderFaults < LoaderFaults
  /\ loaderFaults' = loaderFaults + 1
  /\ pc' = "load"
  /\ UNCHANGED <<record, part, booted, rec, offered, applied, proved>>
  /\ UNCHANGED <<losses, tears, kernelFaults>>

\* The boot ends nowhere: no kernel, a kernel that hangs, no root to mount.
HangUp ==
  /\ pc = "load" /\ ~Works(booted)
  /\ pc' = "stuck"
  /\ UNCHANGED <<record, part, booted, rec, offered, applied, proved, counters>>

\* Somebody switches the machine off and on again.
Reset ==
  /\ pc \in {"stuck", "up"}
  /\ pc' = "off"
  /\ UNCHANGED <<record, part, booted, rec, offered, applied, proved, counters>>

------------------------------------------------------------------------------
(***************************************************************************)
(* The kernel: confirm().                                                  *)
(***************************************************************************)

\* The root is mounted, the session is there; confirm() reads the record
\* again, and writes it when the confirmation changes anything.
ComeUp ==
  /\ pc = "load" /\ MayComeUp(booted)
  /\ proved' = proved \cup {booted}
  /\ IF Readable /\ confirm(parse) # parse
       THEN rec' = confirm(parse) /\ pc' = "confirm"
       ELSE pc' = "up" /\ UNCHANGED rec
  /\ UNCHANGED <<record, part, booted, offered, applied, counters>>

OnlyPrimary(new) == primary' = new /\ UNCHANGED spare

BothCopies(new) == primary' = new /\ spare' = new

\* write_state: both sectors of the file where they lie.
WriteState ==
  /\ pc \in {"confirm", "switch"}
  /\ BothCopies(rec)
  /\ pc' = "up"
  /\ UNCHANGED <<part, booted, rec, offered, applied, proved, counters>>

\* The device refuses the first sector, or the second one after the first.
KernelFault ==
  /\ pc \in {"confirm", "switch"} /\ kernelFaults < KernelFaults
  /\ primary' \in {primary, rec}
  /\ pc' = "up"
  /\ kernelFaults' = kernelFaults + 1
  /\ UNCHANGED <<spare, part, booted, rec, offered, applied, proved>>
  /\ UNCHANGED <<losses, tears, loaderFaults>>

------------------------------------------------------------------------------
(***************************************************************************)
(* The kernel: apply().                                                    *)
(***************************************************************************)
PreviousSlot(s) == s.previous

\* The slot the update goes to.
Target(s) == other(s.active)

\* The version in /os-release of the mounted root; a root that cannot be read
\* forbids nothing.
Newer(v) == part[booted]["root"] = Partial \/ v > part[booted]["root"]

StartPart(t, p) == [part EXCEPT ![t][p] = Partial]

Apply(v) ==
  /\ pc = "up" /\ Readable /\ Newer(v)
  /\ OncePerBoot => ~applied
  /\ LET t == Target(parse)
     IN  /\ part' = StartPart(t, "root")
         /\ proved' = proved \ {t}
  /\ rec' = parse
  /\ offered' = v /\ applied' = TRUE
  /\ pc' = "root"
  /\ UNCHANGED <<record, booted, counters>>

\* A part is written to its last sector, its checksum matched; the next one
\* begins, and after the last one the pointer is switched.
WritePart ==
  /\ pc \in Parts
  /\ LET t    == Target(rec)
         next == [root |-> "kernel", kernel |-> "initrd", initrd |-> "switch"]
     IN  /\ part' = [part EXCEPT ![t] = [p \in Parts |->
                       IF p = pc THEN offered
                       ELSE IF p = next[pc] THEN Partial ELSE @[p]]]
         /\ pc' = next[pc]
         /\ rec' = IF pc = "initrd" THEN switch_to_new(rec) ELSE rec
  /\ UNCHANGED <<record, booted, offered, applied, proved, counters>>

\* The container cannot be read, its checksum or hash does not match, or the
\* device refuses a write: apply() returns, what is written stays.
ApplyFails ==
  /\ pc \in Parts
  /\ pc' = "up"
  /\ UNCHANGED <<record, part, booted, rec, offered, applied, proved, counters>>

------------------------------------------------------------------------------
\* What a sector may hold when the power fails while it is written.
Torn(old, new) == {old, new, Damaged}

\* What the two sectors may hold after a power failure now.  Only one sector
\* is under the head, so one failure tears at most one.
Survivors ==
  CASE pc = "spare"   -> {primary} \X Torn(spare, rec)
    [] pc = "primary" -> Torn(primary, rec) \X {spare}
    [] pc \in {"confirm", "switch"} ->
         {c \in Torn(primary, rec) \X Torn(spare, rec) :
            c[1] = Damaged /\ c[2] = Damaged => primary = Damaged \/ spare = Damaged}
    [] OTHER -> {<<primary, spare>>}

NewlyTorn(after) ==
  \/ after[1] = Damaged /\ primary # Damaged
  \/ after[2] = Damaged /\ spare # Damaged

PowerLoss ==
  /\ pc # "off" /\ losses < MaxLosses
  /\ \E after \in Survivors :
       /\ NewlyTorn(after) => tears < MaxTears
       /\ tears' = tears + (IF NewlyTorn(after) THEN 1 ELSE 0)
       /\ primary' = after[1] /\ spare' = after[2]
  /\ losses' = losses + 1
  /\ pc' = "off"
  /\ UNCHANGED <<part, booted, rec, offered, applied, proved>>
  /\ UNCHANGED <<loaderFaults, kernelFaults>>

\* What the machine does by itself once it is switched on.
Machine ==
  \/ Choose \/ ChooseDefault \/ WriteSpare \/ WritePrimary
  \/ HangUp \/ ComeUp \/ WriteState \/ WritePart

Next ==
  \/ Machine
  \/ Reset
  \/ \E v \in Versions : Apply(v)
  \/ ApplyFails
  \/ LoaderFault \/ KernelFault
  \/ PowerLoss

Spec == Init /\ [][Next]_vars

\* The machine goes on, and somebody restarts one that hangs.
FairSpec == Spec /\ WF_vars(Machine) /\ WF_vars(pc = "stuck" /\ Reset)

------------------------------------------------------------------------------
\* The shape of the state.
TypeOK ==
  /\ primary \in State \cup {Damaged} /\ spare \in State \cup {Damaged}
  /\ part \in [Slot -> [Parts -> Versions \cup {Partial}]]
  /\ pc \in {"off", "spare", "primary", "load", "stuck", "confirm", "up", "switch"}
              \cup Parts
  /\ booted \in Slot \cup {NoSlot}
  /\ rec \in State
  /\ offered \in Versions \cup {NoVersion}
  /\ applied \in BOOLEAN
  /\ proved \subseteq Slot
  /\ losses \in 0 .. MaxLosses /\ tears \in 0 .. MaxTears
  /\ loaderFaults \in 0 .. LoaderFaults /\ kernelFaults \in 0 .. KernelFaults

\* What the design takes for granted: the loader's writes are not refused, and
\* no second sector is torn.  Runs without a refused write or a second tear are
\* runs of this machine too; the properties below speak of those.
AsDesigned == loaderFaults = 0 /\ tears <= 1

\* Whenever the power fails, one copy of the record can be read.
RecordReadable == tears <= 1 => Readable

\* What the next boot would read changes only to what is being written: a
\* torn or half-done update never brings an older state back.  (After a write
\* that was refused the two copies differ, and a tear can.)
OldOrNew ==
  [][AsDesigned' /\ kernelFaults = 0 => parse' \in {parse, rec}]_vars

\* There is always a way to a system that works: through the active slot when
\* it is trusted, through the active or the previous one when it is on trial.
AlwaysAWayBack ==
  AsDesigned =>
    IF parse.confirmed THEN Works(parse.active)
                       ELSE Works(parse.active) \/ Works(parse.previous)

\* Trust is earned: a slot the record calls confirmed has come up with the
\* content it has now.
ConfirmedCameUp == AsDesigned /\ parse.confirmed => parse.active \in proved

\* The slot a boot confirms is the slot that was booted.
ConfirmsItself == pc = "confirm" => rec.active = booted

\* An update is never written over the system that runs.
RunningSlotKept == AsDesigned /\ pc \in Parts => Target(rec) # booted

\* A machine that is switched on ends in a running system, whatever the
\* update was and wherever the power failed.
BackToWork == (pc = "off") ~> (pc = "up" \/ ~AsDesigned)
==============================================================================
