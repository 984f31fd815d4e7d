--------------------------- MODULE SlotUpdateProofs ---------------------------
(***************************************************************************)
(* Proofs about SlotUpdate, for any number of attempts, versions, power    *)
(* failures, torn sectors and refused writes: what the record of slots     *)
(* promises as long as the loader's writes are not refused, at most one    *)
(* sector was torn and people reboot between two updates.                  *)
(*                                                                         *)
(* The promises are about the record as the next boot would read it.  The  *)
(* invariant speaks of both copies, because a failure may uncover the      *)
(* other one, of the state in memory that is about to be written, and of   *)
(* how the copies and that state relate to the slot the machine runs from. *)
(***************************************************************************)
EXTENDS SlotUpdate, TLAPS

\* A state the machine may be started from: what it trusts has come up, and a
\* slot on trial has one behind it that has.
Earned(s) ==
  IF s.confirmed THEN s.active \in proved
                 ELSE s.active \in proved \/ s.previous \in proved

Kept(copy) == copy = Damaged \/ Earned(copy)

\* Each damaged copy was a torn sector.
Damage ==
  /\ primary = Damaged \/ spare = Damaged => tears >= 1
  /\ primary = Damaged /\ spare = Damaged => tears >= 2

\* The kernel runs and no update has been applied to the end since it started.
BeforeSwitch ==
  \/ pc \in {"load", "confirm"} \cup Parts
  \/ pc = "up" /\ ~applied

\* What is in memory, and how the record relates to the booted slot.
Memory ==
  /\ pc \in {"spare", "primary", "confirm"} \cup Parts => rec.active = booted
  /\ pc \in {"spare", "primary", "confirm", "switch"} => Earned(rec)
  /\ pc \in Parts \cup {"switch"} => applied

Medium ==
  /\ pc = "primary" => spare = rec
  /\ pc \in {"load", "confirm"} => primary = spare
  /\ kernelFaults = 0 /\ pc \in {"up", "switch"} \cup Parts => primary = spare
  /\ BeforeSwitch => primary.active = booted /\ spare.active = booted
  /\ BeforeSwitch /\ pc # "load" => booted \in proved

\* Whoever has been started knows from where.
Started == pc \notin {"off", "stuck"} => booted \in Slot

Sound == Kept(primary) /\ Kept(spare) /\ Memory /\ Medium

IInv ==
  /\ TypeOK
  /\ Started
  /\ Damage
  /\ AsDesigned => Sound

------------------------------------------------------------------------------
\* There are two slots, so the other one is another one.
LEMMA OtherSlot ==
  ASSUME NEW s \in Slot
  PROVE  other(s) \in Slot /\ other(s) # s
BY DEF Slot, other

\* A damaged copy is not a state, and a copy that reads is one.
LEMMA DamagedIsNoState == Damaged \notin State /\ NoSlot \notin Slot
BY DEF Damaged, State, Slot, NoSlot

LEMMA ReadsAsState ==
  ASSUME TypeOK, Readable
  PROVE  parse \in State
BY DEF TypeOK, Readable, parse

\* The counter's full value, and one less, are values of the counter.
LEMMA TriesRange ==
  /\ DEFAULT_TRIES \in 0 .. DEFAULT_TRIES
  /\ DEFAULT_TRIES - 1 \in 0 .. DEFAULT_TRIES
BY SlotAssumption

\* The operations of crate slots make states of states.
LEMMA RecordOperations ==
  ASSUME NEW s \in State
  PROVE  /\ begin_boot(s) \in State
         /\ confirm(s) \in State
         /\ switch_to_new(s) \in State
<1>1. begin_boot(s) \in State
  <2>1. FallBack(s) \in State /\ FallBack(s).tries = DEFAULT_TRIES
    BY TriesRange DEF FallBack, State
  <2>2. CASE s.confirmed
    BY <2>2, TriesRange DEF begin_boot, State
  <2>3. CASE ~s.confirmed /\ s.tries = 0
    BY <2>1, <2>3, TriesRange DEF begin_boot, State
  <2>4. CASE ~s.confirmed /\ s.tries # 0
    <3>1. s.tries \in 0 .. DEFAULT_TRIES
      BY DEF State
    <3>2. s.tries - 1 \in 0 .. DEFAULT_TRIES
      BY <2>4, <3>1, SlotAssumption
    <3> QED
      BY <2>4, <3>2 DEF begin_boot, State
  <2> QED
    BY <2>2, <2>3, <2>4
<1>2. confirm(s) \in State
  BY TriesRange DEF confirm, State
<1>3. switch_to_new(s) \in State
  <2>1. s.active \in Slot /\ other(s.active) \in Slot
    BY OtherSlot DEF State
  <2> QED
    BY <2>1, TriesRange DEF switch_to_new, State
<1> QED
  BY <1>1, <1>2, <1>3

\* The slot a state is confirmed for does not change with the confirmation.
LEMMA ConfirmKeepsSlot ==
  ASSUME NEW s \in State
  PROVE  confirm(s).active = s.active /\ confirm(s).confirmed
BY DEF confirm, State

\* A boot is started from the active slot, or falls back to the previous one.
LEMMA BeginBootShape ==
  ASSUME NEW s \in State
  PROVE  \/ /\ begin_boot(s).active = s.active
            /\ begin_boot(s).previous = s.previous
            /\ begin_boot(s).confirmed = s.confirmed
         \/ /\ ~s.confirmed /\ ~begin_boot(s).confirmed
            /\ begin_boot(s).active = s.previous
            /\ begin_boot(s).previous = s.active
BY DEF begin_boot, FallBack, State

\* After an update the new slot is on trial, and the old one is behind it.
LEMMA SwitchShape ==
  ASSUME NEW s \in State
  PROVE  /\ ~switch_to_new(s).confirmed
         /\ switch_to_new(s).previous = s.active
BY DEF switch_to_new, State

------------------------------------------------------------------------------
\* What a power failure leaves: the sector that was being written in one of
\* three states, and never both damaged by the same failure.
LEMMA SurvivorShape ==
  ASSUME NEW after \in Survivors
  PROVE  \/ pc = "spare" /\ after[1] = primary /\ after[2] \in {spare, rec, Damaged}
         \/ pc = "primary" /\ after[1] \in {primary, rec, Damaged} /\ after[2] = spare
         \/ /\ pc \in {"confirm", "switch"}
            /\ after[1] \in {primary, rec, Damaged}
            /\ after[2] \in {spare, rec, Damaged}
            /\ after[1] = Damaged /\ after[2] = Damaged
                 => primary = Damaged \/ spare = Damaged
         \/ after[1] = primary /\ after[2] = spare
<1>1. CASE pc = "spare"
  BY <1>1 DEF Survivors, Torn
<1>2. CASE pc = "primary"
  BY <1>2 DEF Survivors, Torn
<1>3. CASE pc \in {"confirm", "switch"}
  <2>1. after \in {c \in Torn(primary, rec) \X Torn(spare, rec) :
             c[1] = Damaged /\ c[2] = Damaged => primary = Damaged \/ spare = Damaged}
    BY <1>3 DEF Survivors
  <2> QED
    BY <1>3, <2>1 DEF Torn
<1>4. CASE pc \notin {"spare", "primary", "confirm", "switch"}
  BY <1>4 DEF Survivors
<1> QED
  BY <1>1, <1>2, <1>3, <1>4

\* What a power failure leaves in the two sectors are states or damage.
LEMMA SurvivorTypes ==
  ASSUME TypeOK, NEW after \in Survivors
  PROVE  /\ after[1] \in {primary, rec, Damaged}
         /\ after[2] \in {spare, rec, Damaged}
         /\ after[1] \in State \cup {Damaged}
         /\ after[2] \in State \cup {Damaged}
<1>1. /\ after[1] \in {primary, rec, Damaged}
      /\ after[2] \in {spare, rec, Damaged}
  BY SurvivorShape
<1> QED
  BY <1>1 DEF TypeOK

\* The state has its type, and what has been started knows from which slot.
LEMMA TypesAndStart == Spec => [](TypeOK /\ Started)
<1>1. Init => TypeOK /\ Started
  <2>0. SUFFICES ASSUME Init PROVE TypeOK /\ Started
    OBVIOUS
  <2>1. fresh \in State
    BY TriesRange DEF fresh, State, Slot
  <2>2. /\ losses \in 0 .. MaxLosses /\ tears \in 0 .. MaxTears
        /\ loaderFaults \in 0 .. LoaderFaults
        /\ kernelFaults \in 0 .. KernelFaults
    BY <2>0, SlotAssumption DEF Init
  <2>3. part \in [Slot -> [Parts -> Versions \cup {Partial}]]
    BY <2>0, SlotAssumption DEF Init
  <2> QED
    BY <2>0, <2>1, <2>2, <2>3 DEF Init, TypeOK, Started, Slot
<1>2. TypeOK /\ Started /\ [Next]_vars => TypeOK' /\ Started'
  <2> SUFFICES ASSUME TypeOK, Started, [Next]_vars PROVE TypeOK' /\ Started'
    OBVIOUS
  <2> USE DEF record, counters
  <2>1. CASE Choose
    <3>1. begin_boot(parse) \in State
      BY <2>1, ReadsAsState, RecordOperations DEF Choose
    <3> QED
      BY <2>1, <3>1 DEF Choose, TypeOK, Started, State
  <2>2. CASE ChooseDefault
    BY <2>2 DEF ChooseDefault, TypeOK, Started
  <2>3. CASE WriteSpare
    BY <2>3 DEF WriteSpare, TypeOK, Started
  <2>4. CASE WritePrimary
    BY <2>4 DEF WritePrimary, TypeOK, Started
  <2>5. CASE HangUp
    BY <2>5 DEF HangUp, TypeOK, Started
  <2>6. CASE ComeUp
    <3>1. booted \in Slot
      BY <2>6 DEF ComeUp, Started
    <3>2. Readable => confirm(parse) \in State
      BY ReadsAsState, RecordOperations
    <3> QED
      BY <2>6, <3>1, <3>2 DEF ComeUp, TypeOK, Started
  <2>7. CASE WriteState
    BY <2>7 DEF WriteState, BothCopies, TypeOK, Started
  <2>8. CASE WritePart
    <3>1. /\ switch_to_new(rec) \in State
          /\ rec.active \in Slot
      BY RecordOperations DEF TypeOK, State
    <3>2. Target(rec) \in Slot
      BY <3>1, OtherSlot DEF Target
    <3>3. offered \in Versions \cup {Partial}
      BY DEF TypeOK, NoVersion, Partial
    <3>4. pc' \in {"kernel", "initrd", "switch"}
      BY <2>8 DEF WritePart, Parts
    <3>5. rec' \in State
      BY <2>8, <3>1 DEF WritePart, TypeOK, Started
    <3>6. part' \in [Slot -> [Parts -> Versions \cup {Partial}]]
      BY <2>8, <3>2, <3>3 DEF WritePart, TypeOK, Started
    <3> QED
      BY <2>8, <3>4, <3>5, <3>6 DEF WritePart, TypeOK, Started, Parts
  <2>9. CASE Reset
    BY <2>9 DEF Reset, TypeOK, Started
  <2>10. ASSUME NEW v \in Versions, Apply(v) PROVE TypeOK' /\ Started'
    <3>1. parse \in State
      BY <2>10, ReadsAsState DEF Apply
    <3>2. Target(parse) \in Slot
      BY <3>1, OtherSlot DEF Target, State
    <3>3. part' \in [Slot -> [Parts -> Versions \cup {Partial}]]
      BY <2>10, <3>2 DEF Apply, StartPart, TypeOK, Started
    <3>4. /\ rec' = parse /\ offered' = v /\ applied' = TRUE /\ pc' = "root"
          /\ proved' \subseteq proved
          /\ pc = "up"
          /\ UNCHANGED <<primary, spare, booted, losses, tears, loaderFaults, kernelFaults>>
      BY <2>10 DEF Apply
    <3>5. Started'
      BY <3>4 DEF Started
    <3>6. proved' \subseteq Slot
      BY <3>4 DEF TypeOK
    <3>7. pc' \in Parts
      BY <3>4 DEF Parts
    <3> QED
      BY <2>10, <3>1, <3>3, <3>4, <3>5, <3>6, <3>7 DEF TypeOK
  <2>11. CASE ApplyFails
    BY <2>11 DEF ApplyFails, TypeOK, Started, Parts
  <2>12. CASE LoaderFault
    BY <2>12, SlotAssumption DEF LoaderFault, TypeOK, Started
  <2>13. CASE KernelFault
    BY <2>13, SlotAssumption DEF KernelFault, TypeOK, Started
  <2>14. CASE PowerLoss
    <3>1. PICK after \in Survivors :
            /\ NewlyTorn(after) => tears < MaxTears
            /\ tears' = tears + (IF NewlyTorn(after) THEN 1 ELSE 0)
            /\ primary' = after[1] /\ spare' = after[2]
      BY <2>14 DEF PowerLoss
    <3>2. primary' \in State \cup {Damaged} /\ spare' \in State \cup {Damaged}
      BY <3>1, SurvivorTypes
    <3>3. tears' \in 0 .. MaxTears /\ losses' \in 0 .. MaxLosses
      BY <2>14, <3>1, SlotAssumption DEF PowerLoss, TypeOK, Started
    <3> QED
      BY <2>14, <3>2, <3>3 DEF PowerLoss, TypeOK, Started
  <2>15. CASE UNCHANGED vars
    BY <2>15 DEF vars, TypeOK, Started
  <2> QED
    BY <2>1, <2>2, <2>3, <2>4, <2>5, <2>6, <2>7, <2>8, <2>9, <2>10, <2>11,
       <2>12, <2>13, <2>14, <2>15 DEF Next, Machine
<1> QED
  BY <1>1, <1>2, PTL DEF Spec

\* The state has its type, for every number of attempts, versions and failures.
THEOREM UpdateTypeCorrect == Spec => []TypeOK
BY TypesAndStart, PTL

------------------------------------------------------------------------------
\* A step that damages a copy is counted, and damages one copy only.
LEMMA DamageStep ==
  ASSUME TypeOK, Damage, [Next]_vars
  PROVE  Damage'
<1> USE DEF record, counters
<1>1. rec # Damaged /\ tears \in Nat
  BY DamagedIsNoState, SlotAssumption DEF TypeOK
<1>2. CASE primary' \in {primary, rec} /\ spare' \in {spare, rec} /\ tears' = tears
  BY <1>1, <1>2 DEF Damage
<1>3. CASE PowerLoss
  <2>1. PICK after \in Survivors :
          /\ tears' = tears + (IF NewlyTorn(after) THEN 1 ELSE 0)
          /\ primary' = after[1] /\ spare' = after[2]
    BY <1>3 DEF PowerLoss
  <2>2. /\ primary' = Damaged /\ primary # Damaged => tears' = tears + 1
        /\ spare' = Damaged /\ spare # Damaged => tears' = tears + 1
        /\ tears' \in Nat /\ tears' >= tears
    BY <1>1, <2>1 DEF NewlyTorn
  <2>3. primary' = Damaged /\ spare' = Damaged => primary = Damaged \/ spare = Damaged
    BY <1>1, <2>1, SurvivorShape
  <2> QED
    BY <1>1, <2>2, <2>3 DEF Damage
<1>4. ASSUME NEW v \in Versions, Apply(v) PROVE Damage'
  BY <1>2, <1>4 DEF Apply
<1> QED
  BY <1>2, <1>3, <1>4 DEF Next, Machine, Choose, ChooseDefault, WriteSpare,
     WritePrimary, HangUp, ComeUp, WriteState, BothCopies, WritePart, Reset,
     ApplyFails, LoaderFault, KernelFault, vars

\* The design's assumption is about the past: what holds after a step held
\* before it.
LEMMA AsDesignedBefore ==
  ASSUME TypeOK, [Next]_vars, AsDesigned'
  PROVE  AsDesigned /\ ~LoaderFault
<1> USE DEF record, counters
<1>1. tears \in Nat /\ loaderFaults \in Nat
  BY SlotAssumption DEF TypeOK
<1>2. CASE UNCHANGED counters
  <2>1. ~LoaderFault
    BY <1>1, <1>2 DEF LoaderFault
  <2> QED
    BY <1>2, <2>1 DEF AsDesigned
<1>3. CASE LoaderFault
  BY <1>1, <1>3 DEF LoaderFault, AsDesigned
<1>4. CASE KernelFault
  BY <1>1, <1>4 DEF KernelFault, LoaderFault, AsDesigned
<1>5. CASE PowerLoss
  <2>1. loaderFaults' = loaderFaults /\ (tears' = tears \/ tears' = tears + 1)
    BY <1>1, <1>5 DEF PowerLoss
  <2> QED
    BY <1>1, <2>1 DEF LoaderFault, AsDesigned
<1>6. ASSUME NEW v \in Versions, Apply(v) PROVE UNCHANGED counters
  BY <1>6 DEF Apply
<1> QED
  BY <1>2, <1>3, <1>4, <1>5, <1>6 DEF Next, Machine, Choose, ChooseDefault,
     WriteSpare, WritePrimary, HangUp, ComeUp, WriteState, WritePart, Reset,
     ApplyFails, vars

\* With at most one torn sector, the record reads, and what reads was earned.
LEMMA ReadsEarned ==
  ASSUME TypeOK, Damage, AsDesigned, Sound
  PROVE  Readable /\ Earned(parse)
<1>1. tears \in Nat /\ tears <= 1
  BY SlotAssumption DEF TypeOK, AsDesigned
<1>2. primary # Damaged \/ spare # Damaged
  BY <1>1 DEF Damage
<1> QED
  BY <1>2 DEF Readable, parse, Sound, Kept


------------------------------------------------------------------------------

\* One step keeps the record sound: one case per action.
LEMMA SoundStep ==
  ASSUME OncePerBoot, TypeOK, Started, Damage, Sound, [Next]_vars, AsDesigned'
  PROVE  Sound'
<1> USE DEF record, counters
<1>1. Readable /\ Earned(parse) /\ parse \in State
  BY AsDesignedBefore, ReadsEarned, ReadsAsState
<1>2. Kept(primary) /\ Kept(spare)
  BY DEF Sound
<1>3. UNCHANGED <<record, proved>> => Kept(primary)' /\ Kept(spare)'
  BY <1>2 DEF Kept, Earned
<1>4. rec \in State /\ rec # Damaged
  BY DamagedIsNoState DEF TypeOK
<1>5. CASE Choose
  <2>1. Earned(begin_boot(parse))
    BY <1>1, BeginBootShape DEF Earned
  <2>2. rec' = begin_boot(parse) /\ rec'.active = booted' /\ pc' = "spare"
    BY <1>5 DEF Choose
  <2>3. Earned(rec)'
    BY <1>5, <2>1, <2>2 DEF Choose, Earned
  <2> QED
    BY <1>3, <1>5, <2>2, <2>3 DEF Choose, Sound, Memory, Medium, BeforeSwitch, Parts
<1>6. CASE ChooseDefault \/ HangUp \/ Reset
  BY <1>3, <1>6 DEF ChooseDefault, HangUp, Reset, Sound, Memory, Medium,
     BeforeSwitch, Parts
<1>7. CASE WriteSpare
  <2>1. Earned(rec) /\ rec.active = booted
    BY <1>7 DEF WriteSpare, Sound, Memory
  <2>2. Kept(primary)' /\ Kept(spare)' /\ Earned(rec)'
    BY <1>2, <1>7, <2>1 DEF WriteSpare, Kept, Earned
  <2> QED
    BY <1>7, <2>1, <2>2 DEF WriteSpare, Sound, Memory, Medium, BeforeSwitch, Parts
<1>8. CASE WritePrimary
  <2>1. Earned(rec) /\ rec.active = booted /\ spare = rec
    BY <1>8 DEF WritePrimary, Sound, Memory, Medium
  <2>2. Kept(primary)' /\ Kept(spare)'
    BY <1>2, <1>8, <2>1 DEF WritePrimary, Kept, Earned
  <2> QED
    BY <1>8, <2>1, <2>2 DEF WritePrimary, Sound, Memory, Medium, BeforeSwitch, Parts
<1>9. CASE ComeUp
  <2>1. primary = spare /\ primary.active = booted /\ parse = primary
    BY <1>9 DEF ComeUp, Sound, Medium, BeforeSwitch, parse
  <2>2. proved \subseteq proved' /\ booted' = booted /\ booted \in proved'
        /\ UNCHANGED <<primary, spare, kernelFaults>>
    BY <1>9 DEF ComeUp
  <2>3. Kept(primary)' /\ Kept(spare)'
    BY <1>2, <2>2 DEF Kept, Earned
  <2>4. CASE pc' = "up"
    BY <2>1, <2>2, <2>3, <2>4 DEF Sound, Memory, Medium, BeforeSwitch, Parts
  <2>5. CASE pc' = "confirm" /\ rec' = confirm(parse)
    <3>1. rec'.active = booted' /\ Earned(rec)'
      BY <1>1, <2>1, <2>2, <2>5, ConfirmKeepsSlot DEF Earned
    <3> QED
      BY <2>1, <2>2, <2>3, <2>5, <3>1 DEF Sound, Memory, Medium, BeforeSwitch, Parts
  <2> QED
    BY <1>9, <2>4, <2>5 DEF ComeUp
<1>10. CASE WriteState
  <2>1. Earned(rec) /\ primary' = rec /\ spare' = rec
    BY <1>10 DEF WriteState, BothCopies, Sound, Memory
  <2>2. Kept(primary)' /\ Kept(spare)'
    BY <1>10, <2>1 DEF WriteState, Kept, Earned
  <2> QED
    BY <1>10, <2>1, <2>2 DEF WriteState, Sound, Memory, Medium, BeforeSwitch, Parts
<1>11. CASE KernelFault
  <2>1. Earned(rec) /\ primary' \in {primary, rec} /\ spare' = spare
    BY <1>11 DEF KernelFault, Sound, Memory
  <2>2. Kept(primary)' /\ Kept(spare)'
    BY <1>2, <1>11, <2>1 DEF KernelFault, Kept, Earned
  <2>3. kernelFaults' # 0
    BY <1>11, SlotAssumption DEF KernelFault, TypeOK
  <2> QED
    BY <1>11, <2>1, <2>2, <2>3 DEF KernelFault, Sound, Memory, Medium, BeforeSwitch, Parts
<1>12. ASSUME NEW v \in Versions, Apply(v) PROVE Sound'
  <2>1. BeforeSwitch /\ pc = "up"
    BY <1>12 DEF Apply, BeforeSwitch
  <2>2. /\ primary.active = booted /\ spare.active = booted
        /\ booted \in proved /\ booted \in Slot
    BY <2>1 DEF Sound, Medium, Started
  <2>3. parse.active = booted
    BY <2>2 DEF parse
  <2>4. Target(parse) # booted
    BY <2>2, <2>3, OtherSlot DEF Target
  <2>5. booted \in proved'
    BY <1>12, <2>2, <2>4 DEF Apply
  <2>6. /\ rec' = parse /\ pc' = "root" /\ applied' = TRUE
        /\ UNCHANGED <<primary, spare, booted, kernelFaults>>
    BY <1>12 DEF Apply
  <2>7. Kept(primary)' /\ Kept(spare)'
    BY <2>2, <2>5, <2>6 DEF Kept, Earned
  <2>8. kernelFaults = 0 => primary = spare
    BY <2>1 DEF Sound, Medium
  <2> QED
    BY <2>2, <2>3, <2>5, <2>6, <2>7, <2>8 DEF Sound, Memory, Medium, BeforeSwitch, Parts
<1>13. CASE WritePart
  <2>1. /\ pc \in Parts /\ pc' \in {"kernel", "initrd", "switch"}
        /\ pc' = "switch" <=> pc = "initrd"
        /\ rec' = (IF pc = "initrd" THEN switch_to_new(rec) ELSE rec)
        /\ UNCHANGED <<primary, spare, booted, applied, proved, kernelFaults>>
    BY <1>13 DEF WritePart, Parts
  <2>2. /\ rec.active = booted /\ applied /\ booted \in proved
        /\ primary.active = booted /\ spare.active = booted
        /\ kernelFaults = 0 => primary = spare
    BY <2>1 DEF Sound, Memory, Medium, BeforeSwitch, Parts
  <2>3. Kept(primary)' /\ Kept(spare)'
    BY <1>3, <2>1
  <2>4. CASE pc = "initrd"
    <3>1. Earned(rec)'
      BY <1>4, <2>1, <2>2, <2>4, SwitchShape DEF Earned
    <3> QED
      BY <2>1, <2>2, <2>3, <2>4, <3>1 DEF Sound, Memory, Medium, BeforeSwitch, Parts
  <2>5. CASE pc # "initrd"
    BY <2>1, <2>2, <2>3, <2>5 DEF Sound, Memory, Medium, BeforeSwitch, Parts
  <2> QED
    BY <2>4, <2>5
<1>14. CASE ApplyFails
  <2>1. pc \in Parts /\ applied
    BY <1>14 DEF ApplyFails, Sound, Memory
  <2> QED
    BY <1>3, <1>14, <2>1 DEF ApplyFails, Sound, Memory, Medium, BeforeSwitch, Parts
<1>15. CASE PowerLoss
  <2>1. PICK after \in Survivors : primary' = after[1] /\ spare' = after[2]
    BY <1>15 DEF PowerLoss
  <2>2. pc' = "off" /\ UNCHANGED <<rec, proved>>
    BY <1>15 DEF PowerLoss
  <2>3. \/ Earned(rec) /\ primary' \in {primary, rec, Damaged}
                       /\ spare' \in {spare, rec, Damaged}
        \/ primary' = primary /\ spare' = spare
    BY <2>1, SurvivorShape DEF Sound, Memory
  <2>4. Kept(primary)' /\ Kept(spare)'
    BY <1>2, <2>2, <2>3 DEF Kept, Earned
  <2> QED
    BY <2>2, <2>4 DEF Sound, Memory, Medium, BeforeSwitch, Parts
<1>16. CASE UNCHANGED vars
  BY <1>16 DEF vars, Sound, Kept, Earned, Memory, Medium, BeforeSwitch
<1>17. ~LoaderFault
  BY AsDesignedBefore
<1> QED
  BY <1>5, <1>6, <1>7, <1>8, <1>9, <1>10, <1>11, <1>12, <1>13, <1>14, <1>15,
     <1>16, <1>17 DEF Next, Machine

\* What the record promises, as one invariant; then the promises one by one.
LEMMA Invariant == ASSUME OncePerBoot PROVE Spec => []IInv
<1>1. Init => Damage /\ (AsDesigned => Sound)
  <2>1. fresh # Damaged /\ fresh.confirmed /\ fresh.active = "A"
    BY DEF fresh, Damaged
  <2> QED
    BY <2>1 DEF Init, Damage, Sound, Kept, Earned, Memory, Medium, BeforeSwitch, Parts
<1>2. /\ TypeOK /\ Started
      /\ Damage /\ (AsDesigned => Sound)
      /\ [Next]_vars
      => Damage' /\ (AsDesigned => Sound)'
  BY DamageStep, AsDesignedBefore, SoundStep
<1>3. TypeOK /\ Started /\ Damage /\ (AsDesigned => Sound) => IInv
  BY DEF IInv
<1> QED
  BY <1>1, <1>2, <1>3, TypesAndStart, PTL DEF Spec

\* The two copies are never damaged together before a second sector is torn:
\* the loader writes one copy at a time, and a failure tears one sector.
THEOREM UpdateRecordReadable == Spec => []RecordReadable
<1>1. Init => Damage
  BY DamagedIsNoState DEF Init, Damage, fresh, Damaged
<1>2. TypeOK /\ Damage /\ [Next]_vars => Damage'
  BY DamageStep
<1>3. TypeOK /\ Damage => RecordReadable
  BY SlotAssumption DEF TypeOK, Damage, RecordReadable, Readable, parse
<1> QED
  BY <1>1, <1>2, <1>3, TypesAndStart, PTL DEF Spec

\* A slot the record trusts has come up with the content it has now.
THEOREM UpdateConfirmedCameUp ==
  ASSUME OncePerBoot PROVE Spec => []ConfirmedCameUp
<1>1. IInv => ConfirmedCameUp
  BY ReadsEarned DEF IInv, ConfirmedCameUp, Earned
<1> QED
  BY <1>1, Invariant, PTL

\* The record always leads to a slot that works.
THEOREM UpdateAlwaysAWayBack ==
  ASSUME OncePerBoot PROVE Spec => []AlwaysAWayBack
<1>1. IInv => AlwaysAWayBack
  BY ReadsEarned DEF IInv, AlwaysAWayBack, Earned, Works
<1> QED
  BY <1>1, Invariant, PTL

\* apply() never writes a part of the slot the machine runs from.
THEOREM UpdateRunningSlotKept ==
  ASSUME OncePerBoot PROVE Spec => []RunningSlotKept
<1>1. IInv => RunningSlotKept
  <2> SUFFICES ASSUME IInv, AsDesigned, pc \in Parts PROVE Target(rec) # booted
    BY DEF RunningSlotKept
  <2>1. rec.active = booted /\ booted \in Slot
    BY DEF IInv, Sound, Memory, Started, Parts
  <2> QED
    BY <2>1, OtherSlot DEF Target
<1> QED
  BY <1>1, Invariant, PTL

\* A step changes what the next boot reads to nothing but what is being
\* written, even when the power fails in the middle of the step.
THEOREM UpdateOldOrNew ==
  ASSUME OncePerBoot PROVE Spec => OldOrNew
<1>1. IInv /\ Damage' /\ TypeOK' /\ [Next]_vars
        => [AsDesigned' /\ kernelFaults = 0 => parse' \in {parse, rec}]_vars
  <2> SUFFICES ASSUME IInv, Damage', TypeOK', [Next]_vars, AsDesigned', kernelFaults = 0
               PROVE  parse' \in {parse, rec}
    OBVIOUS
  <2> USE DEF record, counters
  <2>1. TypeOK /\ Damage /\ Sound /\ rec # Damaged
    BY AsDesignedBefore, DamagedIsNoState DEF IInv, TypeOK
  <2>2. ~(primary = Damaged /\ spare = Damaged)
        /\ ~(primary' = Damaged /\ spare' = Damaged)
    BY <2>1, AsDesignedBefore, SlotAssumption DEF TypeOK, Damage, AsDesigned
  <2>3. CASE UNCHANGED record
    BY <2>3 DEF parse
  <2>4. CASE WriteSpare
    BY <2>4 DEF WriteSpare, parse
  <2>5. CASE WritePrimary
    BY <2>1, <2>5 DEF WritePrimary, parse
  <2>6. CASE WriteState
    BY <2>1, <2>6 DEF WriteState, BothCopies, parse
  <2>7. CASE KernelFault
    BY <2>1, <2>7 DEF KernelFault, parse
  <2>8. CASE PowerLoss
    <3>1. PICK after \in Survivors : primary' = after[1] /\ spare' = after[2]
      BY <2>8 DEF PowerLoss
    <3>2. /\ pc = "primary" => spare = rec
          /\ pc \in {"confirm", "switch"} => primary = spare
      BY <2>1 DEF Sound, Medium
    <3> QED
      BY <2>2, <3>1, <3>2, SurvivorShape DEF parse
  <2>9. ASSUME NEW v \in Versions, Apply(v) PROVE UNCHANGED record
    BY <2>9 DEF Apply
  <2> QED
    BY <2>3, <2>4, <2>5, <2>6, <2>7, <2>8, <2>9 DEF Next, Machine, Choose,
       ChooseDefault, HangUp, ComeUp, WritePart, Reset, ApplyFails,
       LoaderFault, vars
<1>2. IInv => TypeOK /\ Damage
  BY DEF IInv
<1> QED
  BY <1>1, <1>2, Invariant, PTL DEF Spec, OldOrNew
==============================================================================
