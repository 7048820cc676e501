---------------------- MODULE ReaderPersistenceProofs ----------------------
(***************************************************************************)
(* What holds of the saved state and of sleep for every modulus of the     *)
(* generations, every number of changes and every bound of failures.       *)
(***************************************************************************)
EXTENDS ReaderPersistence, TLAPS

(***************************************************************************)
(* Generations: successors wrap, and are newer than what they succeed.     *)
(***************************************************************************)
Gens == 0 .. Modulus - 1
Succ(g) == (g + 1) % Modulus

LEMMA SuccIsGen == \A g \in Gens : Succ(g) \in Gens
BY ConstantsAssumption DEF Gens, Succ

LEMMA SuccCases ==
    \A g \in Gens : Succ(g) = IF g = Modulus - 1 THEN 0 ELSE g + 1
BY ConstantsAssumption DEF Gens, Succ

LEMMA HalfModulus == Modulus \div 2 \in Nat /\ Modulus \div 2 >= 2 /\ Modulus \div 2 < Modulus - 1
BY ConstantsAssumption

LEMMA SuccIsNewer ==
    \A g \in Gens : IsNewer(Succ(g), g) /\ ~ IsNewer(g, Succ(g))
<1> TAKE g \in Gens
<1>1. PICK half \in Nat : half = Modulus \div 2 /\ half >= 2 /\ half < Modulus - 1
  BY HalfModulus
<1>2. Modulus \in Nat /\ Modulus >= 4 /\ g \in 0 .. Modulus - 1
  BY ConstantsAssumption DEF Gens
<1>3. 1 % Modulus = 1 /\ (-1) % Modulus = Modulus - 1
      /\ (Modulus - 1) % Modulus = Modulus - 1 /\ (1 - Modulus) % Modulus = 1
  BY <1>2
<1>4. CASE g = Modulus - 1
  <2>1. Succ(g) = 0 /\ Succ(g) - g = 1 - Modulus /\ g - Succ(g) = Modulus - 1
    BY <1>2, <1>4, SuccCases
  <2> QED BY <1>1, <1>2, <1>3, <2>1 DEF IsNewer
<1>5. CASE g # Modulus - 1
  <2>1. Succ(g) = g + 1 /\ Succ(g) - g = 1 /\ g - Succ(g) = -1
    BY <1>2, <1>5, SuccCases
  <2> QED BY <1>1, <1>2, <1>3, <2>1 DEF IsNewer
<1> QED BY <1>4, <1>5

(***************************************************************************)
(* What a load selects.                                                    *)
(***************************************************************************)
LEMMA NewestOfType ==
    \A a, b \in Slot : \A u \in SUBSET Slot :
        /\ NewestOf(a, b, u) \in {a, b, NoSlot}
        /\ NewestOf(a, b, u) # NoSlot => Record(NewestOf(a, b, u))
BY DEF NewestOf, Slot, NoSlot

LEMMA SelectedType ==
    \A u \in SUBSET Slot :
        /\ Selected(u) \in Slot \cup {NoSlot}
        /\ Selected(u) # NoSlot => Record(Selected(u))
BY NewestOfType DEF Selected, Slot

LEMMA RecordType ==
    ASSUME TypeOK, NEW s \in Slot, Record(s)
    PROVE  slots[s] \in [gen : 0 .. Modulus - 1, version : 0 .. made]
BY DEF TypeOK, SlotRecord, Record

LEMMA VersionType ==
    ASSUME TypeOK, NEW u \in SUBSET Slot
    PROVE  VersionOf(Selected(u)) \in 0 .. made
BY SelectedType, RecordType DEF VersionOf, TypeOK

LEMMA TargetType ==
    /\ Target \in {0, 1} /\ Target \in Slot
    /\ loadedSlot \in {0, 1} => 1 - Target = loadedSlot
BY DEF Target, Slot

LEMMA TruncatedType ==
    ASSUME TypeOK, NEW s \in Truncated
    PROVE  s \in [Slot -> SlotRecord]
BY TargetType DEF Truncated, TypeOK, SlotRecord

LEMMA WrittenType ==
    ASSUME TypeOK
    PROVE  /\ NextGen \in 0 .. Modulus - 1
           /\ [slots EXCEPT ![Target] = [gen |-> NextGen, version |-> cur]]
                  \in [Slot -> SlotRecord]
<1>1. NextGen \in 0 .. Modulus - 1
  BY SuccIsGen DEF TypeOK, NextGen, Succ, Gens
<1> QED BY <1>1, TargetType DEF TypeOK, SlotRecord

LEMMA MoreVersions ==
    ASSUME TypeOK, NewVersion
    PROVE  /\ made' \in Nat /\ made' = made + 1 /\ cur' \in 0 .. made'
           /\ SlotRecord \subseteq SlotRecord'
           /\ durable \in 0 .. made' /\ barrier \in 0 .. made'
BY DEF TypeOK, NewVersion, SlotRecord

LEMMA SaveFailedType ==
    ASSUME TypeOK, SaveFailed, slots' \in [Slot -> SlotRecord], faults' \in Nat,
           wedged' \in BOOLEAN
    PROVE  TypeOK'
<1>1. /\ made' \in Nat /\ cur' \in 0 .. made' /\ durable' \in 0 .. made'
      /\ barrier' \in 0 .. made' /\ loadedSlot' \in {0, 1, NoSlot}
      /\ loadedGen' \in 0 .. Modulus - 1
      /\ SlotRecord' = SlotRecord
  BY DEF TypeOK, SaveFailed, ram, SlotRecord
<1>2. dirty' \in BOOLEAN /\ silent' \in BOOLEAN
  BY DEF SaveFailed
<1>3. /\ pc' = "idle"
      /\ reason' \in {"idle", "prune", "sleep"}
      /\ power' \in {"none", "refresh", "sleep"}
      /\ ack' \in {"none", "Ready", "Failed"}
      /\ input' \in {"polling", "refresh", "sleep", "release", "asleep"}
  BY DEF TypeOK, SaveFailed
<1> QED BY <1>1, <1>2, <1>3 DEF TypeOK

(***************************************************************************)
(* The inductive invariants.                                               *)
(***************************************************************************)
\* The load found its state in one of the two slots that saves write.
Held == loadedSlot # NoSlot /\ Record(loadedSlot)

\* Why what was saved survives: the two slots hold neighbouring generations;
\* the loaded slot is the durable one; the target holds nothing, what the
\* loaded slot succeeded, or a newer state whose save was not reported.
LoadedInv ==
    /\ IF Held
       THEN slots[loadedSlot] = [gen |-> loadedGen, version |-> durable]
       ELSE durable = 0 /\ ~ Record(1 - Target)
    /\ Record(Target) =>
          \/ slots[Target].gen = NextGen /\ slots[Target].version >= durable
          \/ Held /\ loadedGen = Succ(slots[Target].gen)
    /\ cur >= durable

Neighbours ==
    Record(0) /\ Record(1) =>
        slots[1].gen = Succ(slots[0].gen) \/ slots[0].gen = Succ(slots[1].gen)

SlotsInv ==
    /\ \A s \in {2, 3} : Record(s) => slots[s].version = 0
    /\ IF pc = "load" THEN Neighbours /\ SavedSurvives ELSE LoadedInv
    /\ pc = "verify" => slots[Target] = [gen |-> NextGen, version |-> cur]

\* Why sleep is authorised: the save that answers a sleep request has at least
\* the version of the request.
SleepInv ==
    /\ barrier <= cur
    /\ pc = "load" => cur = 0
    /\ power # "none" => input = power
    /\ pc = "panel" => reason = "sleep"
    /\ input = "sleep" /\ (pc = "panel" \/ ack = "Ready") => durable >= barrier
    /\ AckPairs
    /\ SleepAuthorised

(* The state of the display task, of the card and of sleep is well typed.  *)
THEOREM TypeCorrect == Spec => []TypeOK
<1>1. Init => TypeOK
  <2> SUFFICES ASSUME Init PROVE TypeOK
    OBVIOUS
  <2>1. \A g \in 0 .. Modulus - 1 : (g + 1) % Modulus \in 0 .. Modulus - 1
    BY SuccIsGen DEF Succ, Gens
  <2>2. 0 \in 0 .. Modulus - 1
    BY ConstantsAssumption
  <2>3. slots \in [Slot -> SlotRecord]
    <3>1. PICK g \in 0 .. Modulus - 1 :
              \A s \in Slot : slots[s] \in {NoRecord,
                  [gen |-> g, version |-> 0],
                  [gen |-> (g + 1) % Modulus, version |-> 1]}
      BY DEF Init
    <3>2. \A s \in Slot : slots[s] \in SlotRecord
      BY <2>1, <3>1 DEF Init, SlotRecord
    <3>3. slots = [s \in Slot |-> slots[s]]
      BY DEF Init
    <3> QED BY <3>2, <3>3
  <2>4. made \in Nat /\ cur \in 0 .. made /\ durable \in 0 .. made /\ barrier \in 0 .. made /\ faults \in Nat
    BY DEF Init
  <2>5. /\ pc = "load" /\ reason = "idle" /\ power = "none" /\ ack = "none" /\ input = "polling"
        /\ loadedSlot = NoSlot /\ loadedGen \in 0 .. Modulus - 1
    BY <2>2 DEF Init
  <2>6. dirty \in BOOLEAN /\ silent \in BOOLEAN /\ wedged \in BOOLEAN
    BY DEF Init
  <2> QED BY <2>3, <2>4, <2>5, <2>6 DEF TypeOK
<1>2. TypeOK /\ [Next]_vars => TypeOK'
  <2> SUFFICES ASSUME TypeOK, [Next]_vars PROVE TypeOK'
    OBVIOUS
  <2> USE DEF TypeOK, SlotRecord
  <2>1. ASSUME NEW u \in SUBSET Slot, Load(u) PROVE TypeOK'
    <3>1. VersionOf(Selected(u)) \in 0 .. made
      BY VersionType
    <3>2. Selected(u) \in Slot \cup {NoSlot}
      BY SelectedType
    <3>3. Selected(u) # NoSlot => slots[Selected(u)].gen \in 0 .. Modulus - 1
      BY <3>2, SelectedType, RecordType
    <3>4. loadedSlot' \in {0, 1, NoSlot}
      BY <2>1, <3>2 DEF Load, Slot, NoSlot
    <3>5. loadedGen' \in 0 .. Modulus - 1
      BY <2>1, <3>3, ConstantsAssumption DEF Load
    <3>6. faults' \in Nat /\ cur' \in 0 .. made /\ durable' \in 0 .. made
      BY <2>1, <3>1 DEF Load
    <3>7. pc' = "idle" /\ UNCHANGED <<slots, reason, dirty, wedged, sleepy, made, silent>>
      BY <2>1 DEF Load
    <3> QED BY <3>4, <3>5, <3>6, <3>7 DEF sleepy
  <2>2. CASE Interact
    <3>1. /\ dirty' \in BOOLEAN /\ silent' \in BOOLEAN
          /\ UNCHANGED <<slots, loadedSlot, loadedGen, pc, reason, wedged, sleepy, faults, durable>>
      BY <2>2 DEF Interact
    <3>2. /\ made' \in Nat /\ cur' \in 0 .. made' /\ SlotRecord \subseteq SlotRecord'
          /\ durable' \in 0 .. made' /\ barrier' \in 0 .. made'
      BY <2>2, MoreVersions DEF Interact, sleepy
    <3>3. slots' \in [Slot -> SlotRecord']
      <4> HIDE DEF SlotRecord
      <4> QED BY <3>1, <3>2
    <3> QED BY <3>1, <3>2, <3>3 DEF sleepy
  <2>3. CASE ChangeSilently
    BY <2>3, MoreVersions DEF ChangeSilently, display, sleepy
  <2>4. CASE Prune
    BY <2>4, MoreVersions DEF Prune, StartSave, sleepy
  <2>5. CASE SaveWhenIdle
    BY <2>5 DEF SaveWhenIdle, StartSave, ram, sleepy, history
  <2>6. CASE PrepareSleep
    BY <2>6 DEF PrepareSleep, StartSave, ram, history
  <2>7. CASE BeginSave
    <3>1. \/ SaveFailed
          \/ Continue("write")
      BY <2>7 DEF BeginSave
    <3>2. slots' \in [Slot -> SlotRecord] /\ faults' \in Nat /\ UNCHANGED wedged
      BY <2>7, TruncatedType DEF BeginSave, Works, Fails
    <3>3. CASE Continue("write")
      BY <3>2, <3>3 DEF Continue, ram, sleepy, history
    <3> QED BY <3>1, <3>2, <3>3, SaveFailedType
  <2>8. CASE WriteSave
    <3>1. Continue("commit") \/ Continue("abort")
      BY <2>8 DEF WriteSave
    <3>2. faults' \in Nat /\ UNCHANGED <<slots, wedged>>
      BY <2>8 DEF WriteSave, Works, Fails
    <3> QED BY <3>1, <3>2 DEF Continue, ram, sleepy, history
  <2>9. CASE CommitSave
    <3>1. Continue("verify") \/ Continue("abortEnded")
      BY <2>9 DEF CommitSave
    <3>2. slots' \in [Slot -> SlotRecord] /\ faults' \in Nat /\ UNCHANGED wedged
      BY <2>9, TruncatedType, WrittenType DEF CommitSave, Works, Fails
    <3> QED BY <3>1, <3>2 DEF Continue, ram, sleepy, history
  <2>10. CASE AbortSave
    <3>1. SaveFailed /\ wedged' \in BOOLEAN
      BY <2>10 DEF AbortSave
    <3>2. slots' \in [Slot -> SlotRecord] /\ faults' \in Nat
      BY <2>10, TruncatedType, TargetType DEF AbortSave, Works, Fails
    <3> QED BY <3>1, <3>2, SaveFailedType
  <2>11. CASE VerifySave
    <3>1. CASE Works
      <4>1. NextGen \in 0 .. Modulus - 1 /\ Target \in {0, 1}
        BY WrittenType, TargetType
      <4>2. /\ UNCHANGED <<slots, wedged, cur, reason, sleepy, made, faults>>
            /\ loadedSlot' = Target /\ loadedGen' = NextGen
            /\ dirty' = FALSE /\ silent' = FALSE /\ durable' = cur
            /\ pc' \in {"panel", "idle"}
        BY <2>11, <3>1 DEF VerifySave, Works, Fails
      <4> QED BY <4>1, <4>2 DEF sleepy
    <3>2. CASE ~ Works
      <4>1. SaveFailed /\ faults' \in Nat /\ UNCHANGED <<slots, wedged>>
        BY <2>11, <3>2 DEF VerifySave, Fails
      <4> QED BY <4>1, SaveFailedType
    <3> QED BY <3>1, <3>2
  <2>12. ASSUME NEW kind \in {"refresh", "sleep"}, Request(kind) PROVE TypeOK'
    BY <2>12 DEF Request, ram, display, history
  <2>13. CASE FullRefresh
    BY <2>13 DEF FullRefresh, ram, display, history
  <2>14. CASE SleepPanel
    BY <2>14 DEF SleepPanel, ram, history
  <2>15. CASE TakeAck
    BY <2>15 DEF TakeAck, ram, display, history
  <2>16. CASE FallAsleep
    BY <2>16 DEF FallAsleep, ram, display, history
  <2>17. CASE Reboot
    <3>1. 0 \in 0 .. Modulus - 1
      BY ConstantsAssumption
    <3>2. /\ made' \in Nat /\ cur' \in 0 .. made' /\ durable' \in 0 .. made'
          /\ barrier' \in 0 .. made' /\ faults' \in Nat
          /\ loadedSlot' \in {0, 1, NoSlot} /\ loadedGen' \in 0 .. Modulus - 1
          /\ slots' \in [Slot -> SlotRecord']
      BY <2>17, <3>1 DEF Reboot
    <3>3. dirty' \in BOOLEAN /\ silent' \in BOOLEAN /\ wedged' \in BOOLEAN
      BY <2>17 DEF Reboot
    <3>4. /\ pc' = "load" /\ reason' = "idle" /\ power' = "none" /\ ack' = "none"
          /\ input' = "polling"
      BY <2>17 DEF Reboot
    <3> QED BY <3>2, <3>3, <3>4
  <2>18. CASE UNCHANGED vars
    BY <2>18 DEF vars, ram, display, sleepy, history
  <2> QED
    BY <2>1, <2>2, <2>3, <2>4, <2>5, <2>6, <2>7, <2>8, <2>9, <2>10, <2>11, <2>12,
       <2>13, <2>14, <2>15, <2>16, <2>17, <2>18
    DEF Next, DisplayStep, Save, Wake, Crash
<1> QED BY <1>1, <1>2, PTL DEF Spec

(***************************************************************************)
(* What was saved survives.                                                *)
(***************************************************************************)
LEMMA SelectedCases ==
    /\ ~ Record(0) /\ ~ Record(1) => Selected({}) \in {2, 3, NoSlot}
    /\ Record(0) /\ ~ Record(1) => Selected({}) = 0
    /\ ~ Record(0) /\ Record(1) => Selected({}) = 1
    /\ Record(0) /\ Record(1) =>
          Selected({}) = IF IsNewer(slots[1].gen, slots[0].gen) THEN 1 ELSE 0
BY DEF Selected, NewestOf, NoSlot

(* With the state loaded, the two slots are neighbours, and a boot would   *)
(* select the durable one or the newer one that was not reported.          *)
LEMMA LoadedSurvives ==
    ASSUME TypeOK, LoadedInv
    PROVE  Neighbours /\ SavedSurvives
<1>0. {} \in SUBSET Slot
  OBVIOUS
<1>1. VersionOf(Selected({})) \in Nat
  BY <1>0, VersionType DEF TypeOK
<1>2. CASE ~ Held
  <2>1. durable = 0 /\ ~ Record(1 - Target)
    BY <1>2 DEF LoadedInv
  <2>2. Target \in {0, 1}
    BY TargetType
  <2> QED BY <1>1, <2>1, <2>2 DEF Neighbours, SavedSurvives
<1>3. CASE Held
  <2>1. loadedSlot \in {0, 1} /\ Target = 1 - loadedSlot /\ Record(loadedSlot)
    BY <1>3 DEF Held, Target, TypeOK
  <2>2. slots[loadedSlot].gen = loadedGen /\ slots[loadedSlot].version = durable
    BY <1>3 DEF LoadedInv
  <2>3. loadedGen \in Gens /\ NextGen = Succ(loadedGen) /\ durable \in Nat
    BY DEF TypeOK, Gens, NextGen, Succ
  <2>4. CASE ~ Record(Target)
    <3>1. Selected({}) = loadedSlot
      BY <2>1, <2>4, SelectedCases
    <3> QED BY <2>1, <2>2, <2>3, <2>4, <3>1 DEF Neighbours, SavedSurvives, VersionOf, NoSlot
  <2>5. CASE Record(Target) /\ slots[Target].gen = NextGen /\ slots[Target].version >= durable
    <3>1. /\ IsNewer(slots[Target].gen, slots[loadedSlot].gen)
          /\ ~ IsNewer(slots[loadedSlot].gen, slots[Target].gen)
      BY <2>2, <2>3, <2>5, SuccIsNewer
    <3>2. Selected({}) = Target
      BY <2>1, <2>5, <3>1, SelectedCases
    <3> QED BY <2>1, <2>2, <2>3, <2>5, <3>2 DEF Neighbours, SavedSurvives, VersionOf, NoSlot
  <2>6. CASE Record(Target) /\ loadedGen = Succ(slots[Target].gen)
    <3>1. slots[Target].gen \in Gens
      BY <2>6, RecordType, TargetType DEF Gens
    <3>2. /\ IsNewer(slots[loadedSlot].gen, slots[Target].gen)
          /\ ~ IsNewer(slots[Target].gen, slots[loadedSlot].gen)
      BY <2>2, <2>6, <3>1, SuccIsNewer
    <3>3. Selected({}) = loadedSlot
      BY <2>1, <2>6, <3>2, SelectedCases
    <3> QED BY <2>1, <2>2, <2>3, <2>6, <3>3 DEF Neighbours, SavedSurvives, VersionOf, NoSlot
  <2> QED BY <2>4, <2>5, <2>6 DEF LoadedInv
<1> QED BY <1>2, <1>3

(* Neither the truncation of the target nor its record disturb this.       *)
LEMMA TargetKeepsLoaded ==
    ASSUME TypeOK, LoadedInv, UNCHANGED <<loadedSlot, loadedGen, cur, durable>>,
           \/ slots' \in Truncated
           \/ slots' = [slots EXCEPT ![Target] = [gen |-> NextGen, version |-> cur]]
    PROVE  LoadedInv' /\ \A s \in {2, 3} : slots'[s] = slots[s]
<1>1. /\ Target \in {0, 1}
      /\ loadedSlot \in {0, 1} => loadedSlot = 1 - Target
      /\ 1 - Target \in {0, 1} /\ 1 - Target # Target
  BY TargetType
<1>2. /\ \A s \in Slot : s # Target => slots'[s] = slots[s]
      /\ slots'[Target] \in {slots[Target], NoRecord, [gen |-> NextGen, version |-> cur]}
  BY <1>1 DEF Truncated, TypeOK, Slot
<1>3. /\ slots'[1 - Target] = slots[1 - Target]
      /\ \A s \in {2, 3} : slots'[s] = slots[s]
  BY <1>1, <1>2 DEF Slot
<1>4. Target' = Target /\ NextGen' = NextGen
  BY DEF Target, NextGen
<1>5. Held' = Held /\ (Held => slots'[loadedSlot] = slots[loadedSlot])
  BY <1>1, <1>3 DEF Held, Record, TypeOK
<1>6. \/ Record(Target) /\ slots'[Target] = slots[Target]
      \/ ~ Record(Target)'
      \/ slots'[Target].gen = NextGen /\ slots'[Target].version = cur
  BY <1>2, <1>4 DEF Record
<1>7. Record(1 - Target)' = Record(1 - Target)
  BY <1>3, <1>4 DEF Record
<1>8. IF Held'
      THEN slots'[loadedSlot'] = [gen |-> loadedGen', version |-> durable']
      ELSE durable' = 0 /\ ~ Record(1 - Target)'
  BY <1>5, <1>7 DEF LoadedInv
<1>9. Record(Target)' =>
          \/ slots'[Target].gen = NextGen /\ slots'[Target].version >= durable
          \/ Held /\ loadedGen = Succ(slots'[Target].gen)
  BY <1>6 DEF LoadedInv
<1> QED BY <1>3, <1>4, <1>5, <1>8, <1>9 DEF LoadedInv, Succ

(* The load selects the newer neighbour, or finds the two slots empty.     *)
LEMMA LoadGives ==
    ASSUME TypeOK, SlotsInv, Load({})
    PROVE  LoadedInv'
<1> DEFINE s == Selected({})
<1>1. /\ s \in Slot \cup {NoSlot}
      /\ s # NoSlot => Record(s) /\ slots[s] \in [gen : 0 .. Modulus - 1, version : 0 .. made]
  BY SelectedType, RecordType
<1>2. /\ loadedSlot' = IF s = NoSlot THEN NoSlot ELSE s % 2
      /\ loadedGen' = IF s = NoSlot THEN 0 ELSE slots[s].gen
      /\ cur' = VersionOf(s)
      /\ durable' = VersionOf(s)
      /\ slots' = slots
      /\ VersionOf(s) \in Nat
  <2>1. VersionOf(s) \in 0 .. made
    BY VersionType
  <2>2. VersionOf(s) >= durable /\ durable \in Nat
    BY DEF Load, SlotsInv, SavedSurvives, TypeOK
  <2> QED BY <2>1, <2>2 DEF Load, TypeOK
<1>3. CASE s \in {0, 1}
  <2>1. /\ loadedSlot' = s /\ loadedGen' = slots[s].gen /\ Target' = 1 - s
        /\ s # NoSlot /\ Record(s)
    <3>1. s # NoSlot
      BY <1>3 DEF NoSlot
    <3>2. s % 2 = s
      BY <1>3
    <3> QED BY <1>1, <1>2, <1>3, <3>1, <3>2 DEF Target
  <2>2. Held' /\ slots'[loadedSlot'] = [gen |-> loadedGen', version |-> durable']
    BY <1>1, <1>2, <1>3, <2>1 DEF Held, Record, VersionOf, NoSlot
  <2>3. ASSUME Record(1 - s) PROVE loadedGen' = Succ(slots[1 - s].gen)
    <3>1. Record(0) /\ Record(1)
      BY <1>3, <2>1, <2>3
    <3>2. slots[0].gen \in Gens /\ slots[1].gen \in Gens
      BY <3>1, RecordType DEF Slot, Gens
    <3>3. \/ slots[1].gen = Succ(slots[0].gen)
          \/ slots[0].gen = Succ(slots[1].gen)
      BY <3>1 DEF Load, SlotsInv, Neighbours
    <3>4. s = IF IsNewer(slots[1].gen, slots[0].gen) THEN 1 ELSE 0
      BY <3>1, SelectedCases
    <3> QED BY <1>3, <2>1, <3>2, <3>3, <3>4, SuccIsNewer
  <2> QED BY <1>2, <2>1, <2>2, <2>3 DEF LoadedInv, Record, Succ, TypeOK
<1>4. CASE s \notin {0, 1}
  <2>1. ~ Record(0) /\ ~ Record(1)
    BY <1>4, SelectedCases
  <2>2. VersionOf(s) = 0
    BY <1>1, <1>4 DEF VersionOf, SlotsInv, Slot
  <2>3. ~ Held' /\ Target' \in {0, 1}
    BY <1>1, <1>2, <1>4, <2>1 DEF Held, Record, Slot, NoSlot, Target
  <2> QED BY <1>2, <2>1, <2>2, <2>3 DEF LoadedInv, Record
<1> QED BY <1>3, <1>4

(* A verified save has moved to the target, whose neighbour is now older.  *)
LEMMA VerifyGives ==
    ASSUME TypeOK, SlotsInv, pc = "verify", UNCHANGED <<slots, cur>>,
           loadedSlot' = Target, loadedGen' = NextGen, durable' = cur
    PROVE  LoadedInv'
<1>1. /\ Target \in {0, 1} /\ Target # NoSlot /\ Target' = 1 - Target
      /\ 1 - Target \in {0, 1} /\ 1 - Target # Target
  BY DEF Target, NoSlot
<1>2. slots'[loadedSlot'] = [gen |-> loadedGen', version |-> durable']
  BY DEF SlotsInv
<1>3. loadedGen' \in 0 .. Modulus - 1
  BY WrittenType
<1>4. Held'
  BY <1>1, <1>2, <1>3 DEF Held, Record, NoRecord
<1>5. LoadedInv
  BY DEF SlotsInv
<1>6. Record(1 - Target) => Held /\ loadedGen' = Succ(slots[1 - Target].gen)
  <2>1. Held => loadedSlot = 1 - Target /\ slots[loadedSlot].gen = loadedGen
    BY <1>5, TargetType DEF Held, LoadedInv, TypeOK
  <2> QED BY <1>5, <2>1 DEF LoadedInv, NextGen, Succ
<1>7. cur \in Int
  BY DEF TypeOK
<1> QED BY <1>1, <1>2, <1>4, <1>6, <1>7 DEF LoadedInv, Record, Succ

LEMMA SlotsInvariant ==
    ASSUME "load" \notin FaultyKinds
    PROVE  Spec => []SlotsInv
<1>1. TypeOK /\ Init => SlotsInv
  <2> SUFFICES ASSUME TypeOK, Init PROVE SlotsInv
    OBVIOUS
  <2>1. SavedSurvives
    BY VersionType DEF Init, SavedSurvives
  <2>2. Neighbours
    BY DEF Init, Neighbours, Record, NoRecord, Succ, Slot
  <2>3. \A s \in {2, 3} : Record(s) => slots[s].version = 0
    BY DEF Init, Record, NoRecord, Slot
  <2> QED BY <2>1, <2>2, <2>3 DEF Init, SlotsInv
<1>2. TypeOK /\ SlotsInv /\ [Next]_vars => SlotsInv'
  <2> SUFFICES ASSUME TypeOK, SlotsInv, [Next]_vars PROVE SlotsInv'
    OBVIOUS
  <2>1. ASSUME NEW u \in SUBSET Slot, Load(u) PROVE SlotsInv'
    <3>1. u = {}
      BY <2>1 DEF Load
    <3>2. LoadedInv' /\ pc' = "idle" /\ slots' = slots
      BY <2>1, <3>1, LoadGives DEF Load
    <3> QED BY <3>2 DEF SlotsInv, Record
  <2>2. ASSUME pc # "load", pc' \in {"idle", "begin"}, NewVersion,
               UNCHANGED <<slots, loadedSlot, loadedGen, durable>>
        PROVE  SlotsInv'
    <3>1. LoadedInv /\ cur' >= durable
      BY <2>2 DEF SlotsInv, NewVersion, TypeOK
    <3> QED BY <2>2, <3>1
        DEF SlotsInv, LoadedInv, Held, Record, Target, NextGen, Succ
  <2>3. ASSUME UNCHANGED <<slots, ram, durable>>, pc' = "load" <=> pc = "load",
               pc' = "verify" => pc = "verify"
        PROVE  SlotsInv'
    BY <2>3 DEF SlotsInv, LoadedInv, Held, Record, Target, NextGen, Succ, ram,
                Neighbours, SavedSurvives, Selected, NewestOf, VersionOf
  <2>4. ASSUME pc # "load", UNCHANGED <<ram, durable>>, slots' \in Truncated,
               pc' \notin {"load", "verify"}
        PROVE  SlotsInv'
    BY <2>4, TargetKeepsLoaded DEF SlotsInv, Record, ram
  <2>5. CASE BeginSave
    BY <2>4, <2>5 DEF BeginSave, SaveFailed, Continue, Truncated, history
  <2>6. CASE WriteSave
    BY <2>3, <2>6 DEF WriteSave, Continue, history
  <2>7. CASE CommitSave
    <3> DEFINE written == [slots EXCEPT ![Target] = [gen |-> NextGen, version |-> cur]]
    <3>1. CASE slots' \in Truncated /\ pc' = "abortEnded"
      BY <2>4, <2>7, <3>1 DEF CommitSave, Continue, history
    <3>2. CASE slots' = written
      <4>1. LoadedInv' /\ \A s \in {2, 3} : slots'[s] = slots[s]
        BY <2>7, <3>2, TargetKeepsLoaded DEF CommitSave, Continue, SlotsInv, ram, history
      <4>2. slots'[Target] = [gen |-> NextGen, version |-> cur]
        BY <3>2, TargetType DEF TypeOK
      <4>3. Target' = Target /\ NextGen' = NextGen /\ cur' = cur /\ pc' # "load"
        BY <2>7 DEF CommitSave, Continue, Target, NextGen, ram
      <4> QED BY <4>1, <4>2, <4>3 DEF SlotsInv, Record
    <3> QED BY <2>7, <3>1, <3>2 DEF CommitSave, Continue
  <2>8. CASE AbortSave
    BY <2>4, <2>8 DEF AbortSave, SaveFailed, Truncated
  <2>9. CASE VerifySave
    <3>1. CASE SaveFailed
      BY <2>3, <2>9, <3>1 DEF VerifySave, SaveFailed
    <3>2. CASE ~ SaveFailed
      <4>1. LoadedInv' /\ slots' = slots /\ pc' \in {"panel", "idle"}
        BY <2>9, <3>2, VerifyGives DEF VerifySave
      <4> QED BY <4>1 DEF SlotsInv, Record
    <3> QED BY <3>1, <3>2
  <2>10. CASE Interact \/ ChangeSilently \/ Prune
    BY <2>2, <2>10 DEF Interact, ChangeSilently, Prune, StartSave, display
  <2>11. CASE SaveWhenIdle \/ PrepareSleep
    BY <2>3, <2>11 DEF SaveWhenIdle, PrepareSleep, StartSave, history
  <2>12. ASSUME NEW kind \in {"refresh", "sleep"}, Request(kind) PROVE SlotsInv'
    BY <2>3, <2>12 DEF Request, display, history
  <2>13. CASE FullRefresh \/ TakeAck \/ FallAsleep
    BY <2>3, <2>13 DEF FullRefresh, TakeAck, FallAsleep, display, history
  <2>14. CASE SleepPanel
    BY <2>3, <2>14 DEF SleepPanel, history
  <2>15. CASE Reboot
    <3>1. Neighbours /\ SavedSurvives
      BY LoadedSurvives DEF SlotsInv
    <3>2. slots' = slots /\ durable' = durable /\ pc' = "load"
      BY <2>15 DEF Reboot
    <3> QED BY <3>1, <3>2 DEF SlotsInv, Record, Neighbours, SavedSurvives, Selected,
                              NewestOf, VersionOf
  <2>16. CASE UNCHANGED vars
    BY <2>3, <2>16 DEF vars, display, history
  <2> QED
    BY <2>1, <2>5, <2>6, <2>7, <2>8, <2>9, <2>10, <2>11, <2>12, <2>13, <2>14, <2>15,
       <2>16
    DEF Next, DisplayStep, Save, Wake, Crash
<1> QED BY <1>1, <1>2, TypeCorrect, PTL DEF Spec

(* What a load or a save has reported is what a boot would load, or        *)
(* something newer, as long as the card can be read: no torn or failed     *)
(* save, no reset and no wrap of the generation costs more than itself.    *)
THEOREM SavedAlwaysSurvives ==
    ASSUME "load" \notin FaultyKinds
    PROVE  Spec => []SavedSurvives
<1>1. TypeOK /\ SlotsInv => SavedSurvives
  BY LoadedSurvives DEF SlotsInv
<1> QED BY <1>1, SlotsInvariant, TypeCorrect, PTL

(***************************************************************************)
(* The flush.                                                              *)
(***************************************************************************)
\* Not only when the task is idle: a save that is under way is one that a
\* failure marks dirty again.
FlushInv == pc # "load" => cur = durable \/ dirty \/ silent

(* A change that was marked stays marked until a verified save has it, and *)
(* a load starts from what was last reported, whichever requests fail.     *)
THEOREM NothingEverForgotten ==
    ASSUME "load" \notin FaultyKinds
    PROVE  Spec => []NothingForgotten
<1>1. Init => FlushInv
  BY DEF Init, FlushInv
<1>2. TypeOK /\ SlotsInv /\ FlushInv /\ [Next]_vars => FlushInv'
  <2> SUFFICES ASSUME TypeOK, SlotsInv, FlushInv, [Next]_vars PROVE FlushInv'
    OBVIOUS
  <2> USE DEF FlushInv
  <2>1. ASSUME NEW u \in SUBSET Slot, Load(u) PROVE FlushInv'
    <3>1. u = {} /\ VersionOf(Selected({})) \in 0 .. made
      BY <2>1, VersionType DEF Load
    <3>2. VersionOf(Selected({})) >= durable /\ durable \in Nat
      BY <2>1 DEF Load, SlotsInv, SavedSurvives, TypeOK
    <3> QED BY <2>1, <3>1, <3>2 DEF Load
  <2>2. CASE Interact
    BY <2>2 DEF Interact
  <2>3. CASE ChangeSilently \/ Prune
    BY <2>3 DEF ChangeSilently, Prune, StartSave, TypeOK, display
  <2>4. CASE SaveWhenIdle \/ PrepareSleep
    BY <2>4 DEF SaveWhenIdle, PrepareSleep, StartSave, ram, history
  <2>5. ASSUME SaveFailed PROVE FlushInv'
    BY <2>5 DEF SaveFailed
  <2>6. ASSUME NEW where \in {"write", "commit", "verify", "abort", "abortEnded"},
               Continue(where), pc # "load"
        PROVE  FlushInv'
    BY <2>6 DEF Continue, ram, history
  <2>7. CASE BeginSave \/ WriteSave \/ CommitSave \/ AbortSave
    <3>1. CASE BeginSave
      BY <2>5, <2>6, <3>1 DEF BeginSave
    <3>2. CASE WriteSave
      BY <2>6, <3>2 DEF WriteSave
    <3>3. CASE CommitSave
      BY <2>6, <3>3 DEF CommitSave
    <3>4. CASE AbortSave
      BY <2>5, <3>4 DEF AbortSave
    <3> QED BY <2>7, <3>1, <3>2, <3>3, <3>4
  <2>8. CASE VerifySave
    BY <2>5, <2>8 DEF VerifySave
  <2>9. ASSUME NEW kind \in {"refresh", "sleep"}, Request(kind) PROVE FlushInv'
    BY <2>9 DEF Request, ram, display, history
  <2>10. CASE FullRefresh \/ TakeAck \/ FallAsleep
    BY <2>10 DEF FullRefresh, TakeAck, FallAsleep, ram, display, history
  <2>11. CASE SleepPanel
    BY <2>11 DEF SleepPanel, ram, history
  <2>12. CASE Reboot
    BY <2>12 DEF Reboot
  <2>13. CASE UNCHANGED vars
    BY <2>13 DEF vars, ram, display, history
  <2> QED
    BY <2>1, <2>2, <2>3, <2>4, <2>7, <2>8, <2>9, <2>10, <2>11, <2>12, <2>13
    DEF Next, DisplayStep, Save, Wake, Crash
<1>3. FlushInv => NothingForgotten
  BY DEF FlushInv, NothingForgotten
<1> QED BY <1>1, <1>2, <1>3, SlotsInvariant, TypeCorrect, PTL DEF Spec

(***************************************************************************)
(* Sleep.                                                                  *)
(***************************************************************************)
LEMMA SleepInvariant == Spec => []SleepInv
<1>1. Init => SleepInv
  BY DEF Init, SleepInv, AckPairs, SleepAuthorised
<1>2. TypeOK /\ SleepInv /\ [Next]_vars => SleepInv'
  <2> SUFFICES ASSUME TypeOK, SleepInv, [Next]_vars PROVE SleepInv'
    OBVIOUS
  <2> USE DEF SleepInv, AckPairs, SleepAuthorised
  <2>0. cur \in Nat /\ made \in Nat /\ durable \in Nat /\ barrier \in Nat /\ cur <= made
    BY DEF TypeOK
  <2>1. ASSUME NEW u \in SUBSET Slot, Load(u) PROVE SleepInv'
    <3>1. VersionOf(Selected(u)) \in Nat
      BY VersionType DEF TypeOK
    <3> QED BY <2>0, <2>1, <3>1 DEF Load, sleepy
  <2>2. CASE Interact \/ ChangeSilently
    BY <2>0, <2>2 DEF Interact, ChangeSilently, NewVersion, display, sleepy
  <2>3. CASE Prune
    BY <2>0, <2>3 DEF Prune, NewVersion, StartSave, sleepy
  <2>4. CASE SaveWhenIdle
    BY <2>4 DEF SaveWhenIdle, StartSave, ram, sleepy, history
  <2>5. CASE PrepareSleep
    BY <2>5 DEF PrepareSleep, StartSave, ram, history
  <2>6. ASSUME SaveFailed, pc \notin {"load", "idle", "panel"} PROVE SleepInv'
    BY <2>6 DEF SaveFailed, ram
  <2>7. ASSUME NEW where \in {"write", "commit", "verify", "abort", "abortEnded"},
               Continue(where), pc \notin {"load", "idle", "panel"}
        PROVE  SleepInv'
    BY <2>7 DEF Continue, ram, sleepy, history
  <2>8. CASE BeginSave
    BY <2>6, <2>7, <2>8 DEF BeginSave
  <2>9. CASE WriteSave
    BY <2>7, <2>9 DEF WriteSave
  <2>10. CASE CommitSave
    BY <2>7, <2>10 DEF CommitSave
  <2>11. CASE AbortSave
    BY <2>6, <2>11 DEF AbortSave
  <2>12. CASE VerifySave
    <3>1. CASE SaveFailed
      BY <2>6, <2>12, <3>1 DEF VerifySave
    <3>2. CASE ~ SaveFailed
      BY <2>0, <2>12, <3>2 DEF VerifySave, sleepy
    <3> QED BY <3>1, <3>2
  <2>13. ASSUME NEW kind \in {"refresh", "sleep"}, Request(kind) PROVE SleepInv'
    BY <2>0, <2>13 DEF Request, ram, display, history
  <2>14. CASE FullRefresh
    BY <2>14 DEF FullRefresh, ram, display, history
  <2>15. CASE SleepPanel
    BY <2>15 DEF SleepPanel, ram, history
  <2>16. CASE TakeAck
    BY <2>16 DEF TakeAck, ram, display, history
  <2>17. CASE FallAsleep
    BY <2>17 DEF TypeOK, FallAsleep, ram, display, history
  <2>18. CASE Reboot
    BY <2>0, <2>18 DEF Reboot
  <2>19. CASE UNCHANGED vars
    BY <2>19 DEF vars, ram, display, sleepy, history
  <2> QED
    BY <2>1, <2>2, <2>3, <2>4, <2>5, <2>8, <2>9, <2>10, <2>11, <2>12, <2>13, <2>14,
       <2>15, <2>16, <2>17, <2>18, <2>19
    DEF Next, DisplayStep, Save, Wake, Crash
<1> QED BY <1>1, <1>2, TypeCorrect, PTL DEF Spec

(* One acknowledgement for one power request, whatever else the display    *)
(* task does in between.                                                   *)
THEOREM AcknowledgementsPair == Spec => []AckPairs
<1>1. SleepInv => AckPairs
  BY DEF SleepInv
<1> QED BY <1>1, SleepInvariant, PTL

(* The CPU never sleeps without a verified save of what was there when the *)
(* sleep was requested, whichever requests of the save fail.               *)
THEOREM SleepAlwaysAuthorised == Spec => []SleepAuthorised
<1>1. SleepInv => SleepAuthorised
  BY DEF SleepInv
<1> QED BY <1>1, SleepInvariant, PTL
============================================================================
