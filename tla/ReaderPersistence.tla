------------------------- MODULE ReaderPersistence -------------------------
(***************************************************************************)
(* The reading state in its two slots on the card, the idle save, and the  *)
(* save that deep sleep waits for.                                         *)
(*                                                                         *)
(* Source: firmware/crates/binbook-fw/src/state_owner.rs (load and save),  *)
(* owner_reader.rs (OwnerStateFlush), power.rs, and the two tasks around   *)
(* them: runtime/mounted_display_task.rs, which alone changes and saves    *)
(* the state, and runtime/input_task.rs, which puts the CPU to sleep.      *)
(*                                                                         *)
(* What the reader did is a version number: version n is the state after   *)
(* the n-th change.  Timers may expire at any time.  The storage owner     *)
(* appears as the outcome of each request; of its state, only the upload   *)
(* that a failed commit leaves behind (see StorageOwner) matters here.     *)
(***************************************************************************)
EXTENDS Integers

CONSTANTS
    Modulus,      \* 2^32: generations are u32 and wrap
    MaxChanges,   \* bound: changes of the state
    MaxFaults,    \* bound: requests that fail on the card
    FaultyKinds   \* the requests that may fail

Kinds == {"load", "begin", "write", "commit", "verify", "abort"}

ASSUME ConstantsAssumption ==
    /\ Modulus \in Nat /\ Modulus >= 4 /\ Modulus % 2 = 0
    /\ MaxChanges \in Nat
    /\ MaxFaults \in Nat
    /\ FaultyKinds \subseteq Kinds

\* BINBOOK.A.STATE, BINBOOK.B.STATE and the two legacy files, never written.
Slot == 0 .. 3
NoSlot == 4
\* A slot that does not decode: no file, a torn one, a wrong CRC.
NoRecord == [gen |-> -1, version |-> -1]

VARIABLES
    slots,      \* what the card holds
    loadedSlot, \* OwnerStateSlots::loaded_slot
    loadedGen,  \* OwnerStateSlots::loaded_generation
    cur,        \* the version in reader_state
    dirty,      \* OwnerStateFlush::dirty
    pc,         \* where the display task is
    reason,     \* why it saves
    wedged,     \* the storage owner still holds an upload of State
    power,      \* the power request channel
    ack,        \* the power acknowledgement channel
    input,      \* where the input task is
    faults,
    made,       \* history: the newest version
    durable,    \* history: the newest version that a load or a save reported
    silent,     \* history: the last change did not mark the state dirty
    barrier     \* history: the version when the sleep was requested

ram     == <<loadedSlot, loadedGen, cur>>
display == <<pc, reason, dirty>>
sleepy  == <<power, ack, input, barrier>>
history == <<made, durable, silent>>
vars == <<slots, ram, display, wedged, sleepy, faults, history>>

Record(s) == slots[s] # NoRecord

(***************************************************************************)
(* Which slot a load selects.                                              *)
(***************************************************************************)
\* Mutant: generations that wrap are compared as plain numbers.
IsNewerPlain(g, h) == g >= h

\* candidate.generation.wrapping_sub(selected) < 0x8000_0000
IsNewer(g, h) == (g - h) % Modulus < Modulus \div 2

\* The second slot of a pair replaces the first if it is newer.
NewestOf(a, b, unreadable) ==
    LET valid == {s \in {a, b} \ unreadable : Record(s)} IN
    CASE valid = {}  -> NoSlot
      [] valid = {a} -> a
      [] valid = {b} -> b
      [] OTHER -> IF IsNewer(slots[b].gen, slots[a].gen) THEN b ELSE a

\* The legacy pair is read only when neither of the two slots is valid.
Selected(unreadable) ==
    IF NewestOf(0, 1, unreadable) # NoSlot
    THEN NewestOf(0, 1, unreadable)
    ELSE NewestOf(2, 3, unreadable)

VersionOf(s) == IF s = NoSlot THEN 0 ELSE slots[s].version

\* StateLoadClient::accept: a request that fails makes its slot an invalid one.
Load(unreadable) ==
    /\ pc = "load"
    /\ unreadable # {} => /\ "load" \in FaultyKinds
                          /\ faults < MaxFaults
    /\ faults' = IF unreadable = {} THEN faults ELSE faults + 1
    /\ LET s == Selected(unreadable) IN
       /\ loadedSlot' = IF s = NoSlot THEN NoSlot ELSE s % 2
       /\ loadedGen' = IF s = NoSlot THEN 0 ELSE slots[s].gen
       /\ cur' = VersionOf(s)
       /\ durable' = IF VersionOf(s) > durable THEN VersionOf(s) ELSE durable
    /\ pc' = "idle"
    /\ UNCHANGED <<slots, reason, dirty, wedged, sleepy, made, silent>>

(***************************************************************************)
(* Changes of the state, all by the display task between two requests.     *)
(***************************************************************************)
NewVersion ==
    /\ made < MaxChanges
    /\ made' = made + 1
    /\ cur' = made + 1

\* A page turn, a selection, an open or a close that reached the panel.
Interact ==
    /\ pc = "idle"
    /\ NewVersion
    /\ dirty' = TRUE
    /\ silent' = FALSE
    /\ UNCHANGED <<slots, loadedSlot, loadedGen, pc, reason, wedged, sleepy,
                   faults, durable>>

\* A selection whose activation on the panel failed, and the selection or the
\* mode that the end of a library refresh sets: not marked dirty.
ChangeSilently ==
    /\ pc = "idle"
    /\ NewVersion
    /\ silent' = ~dirty
    /\ UNCHANGED <<slots, loadedSlot, loadedGen, display, wedged, sleepy,
                   faults, durable>>

(***************************************************************************)
(* A save: one upload to the slot that was not loaded, then a readback.    *)
(***************************************************************************)
StartSave(why) ==
    /\ pc' = "begin"
    /\ reason' = why

\* state_flush.due: two seconds after a change, five after a failed save.  The
\* select of the loop polls the power channel before the refresh and the timer.
SaveWhenIdle ==
    /\ pc = "idle"
    /\ power = "none"
    /\ dirty
    /\ StartSave("idle")
    /\ UNCHANGED <<slots, ram, dirty, wedged, sleepy, faults, history>>

\* A refresh that removed books prunes their records and saves at once.
Prune ==
    /\ pc = "idle"
    /\ power = "none"
    /\ NewVersion
    /\ silent' = ~dirty
    /\ StartSave("prune")
    /\ UNCHANGED <<slots, loadedSlot, loadedGen, dirty, wedged, sleepy,
                   faults, durable>>

PrepareSleep ==
    /\ pc = "idle"
    /\ power = "sleep"
    /\ power' = "none"
    /\ StartSave("sleep")
    /\ UNCHANGED <<slots, ram, dirty, wedged, ack, input, barrier, faults,
                   history>>

Target == IF loadedSlot = 0 THEN 1 ELSE 0
NextGen == (loadedGen + 1) % Modulus

Fails(kind) ==
    /\ kind \in FaultyKinds
    /\ faults < MaxFaults
    /\ faults' = faults + 1

Works == UNCHANGED faults

\* Mutants: the failed save is taken for done; nobody answers for the sleep;
\* sleep goes on without the save; it goes on after it was cancelled.
SaveFailedForgotten ==
    /\ pc' = "idle"
    /\ dirty' = FALSE
    /\ silent' = FALSE
    /\ ack' = IF reason = "sleep" THEN "Failed" ELSE ack
    /\ UNCHANGED <<ram, reason, power, input, barrier, made, durable>>

SaveFailedUnanswered ==
    /\ pc' = "idle"
    /\ dirty' = TRUE
    /\ silent' = FALSE
    /\ UNCHANGED <<ram, reason, sleepy, made, durable>>

SaveFailedReady ==
    /\ pc' = "idle"
    /\ dirty' = TRUE
    /\ silent' = FALSE
    /\ ack' = IF reason = "sleep" THEN "Ready" ELSE ack
    /\ UNCHANGED <<ram, reason, power, input, barrier, made, durable>>

SaveFailedGoesOn ==
    /\ pc' = IF reason = "sleep" THEN "panel" ELSE "idle"
    /\ dirty' = TRUE
    /\ silent' = FALSE
    /\ ack' = IF reason = "sleep" THEN "Failed" ELSE ack
    /\ UNCHANGED <<ram, reason, power, input, barrier, made, durable>>

\* record_failure; a sleep is cancelled.
SaveFailed ==
    /\ pc' = "idle"
    /\ dirty' = TRUE
    /\ silent' = FALSE
    /\ ack' = IF reason = "sleep" THEN "Failed" ELSE ack
    /\ UNCHANGED <<ram, reason, power, input, barrier, made, durable>>

Continue(where) ==
    /\ pc' = where
    /\ UNCHANGED <<ram, reason, dirty, sleepy, history>>

\* Opening the file truncates it, on the card now or later.
Truncated == {slots, [slots EXCEPT ![Target] = NoRecord]}

BeginSave ==
    /\ pc = "begin"
    /\ UNCHANGED wedged
    /\ \/ wedged /\ Works /\ SaveFailed /\ UNCHANGED slots
       \/ ~wedged /\ Works /\ Continue("write") /\ slots' \in Truncated
       \/ ~wedged /\ Fails("begin") /\ SaveFailed /\ slots' \in Truncated

WriteSave ==
    /\ pc = "write"
    /\ UNCHANGED <<slots, wedged>>
    /\ \/ Works /\ Continue("commit")
       \/ Fails("write") /\ Continue("abort")

\* A commit that fails may have written everything, and has ended the session.
CommitSave ==
    /\ pc = "commit"
    /\ UNCHANGED wedged
    /\ LET written == [slots EXCEPT ![Target] = [gen |-> NextGen, version |-> cur]] IN
       \/ Works /\ Continue("verify") /\ slots' = written
       \/ Fails("commit") /\ Continue("abortEnded") /\ slots' \in Truncated \cup {written}

\* The abort deletes the file; without a session it is refused, and the owner
\* keeps the upload.
AbortSave ==
    \/ /\ pc = "abort" /\ Works
       /\ slots' = [slots EXCEPT ![Target] = NoRecord]
       /\ UNCHANGED wedged
       /\ SaveFailed
    \/ /\ pc = "abort" /\ Fails("abort")
       /\ slots' \in Truncated
       /\ wedged' = TRUE
       /\ SaveFailed
    \/ /\ pc = "abortEnded" /\ Works
       /\ UNCHANGED slots
       /\ wedged' = TRUE
       /\ SaveFailed

\* The readback; loaded_slot and loaded_generation move only now.
VerifySave ==
    /\ pc = "verify"
    /\ UNCHANGED <<slots, wedged>>
    /\ \/ /\ Works
          /\ loadedSlot' = Target
          /\ loadedGen' = NextGen
          /\ dirty' = FALSE
          /\ durable' = cur
          /\ silent' = FALSE
          /\ pc' = IF reason = "sleep" THEN "panel" ELSE "idle"
          /\ UNCHANGED <<cur, reason, sleepy, made>>
       \/ Fails("verify") /\ SaveFailed

(***************************************************************************)
(* Power requests, acknowledgements and sleep.                             *)
(***************************************************************************)
Awake == input # "asleep"

Request(kind) ==
    /\ input = "polling"
    /\ power' = kind
    /\ input' = kind
    /\ barrier' = cur
    /\ UNCHANGED <<slots, ram, display, wedged, ack, faults, history>>

\* Ready if the panel could be refreshed.
FullRefresh ==
    /\ pc = "idle"
    /\ power = "refresh"
    /\ power' = "none"
    /\ ack' \in {"Ready", "Failed"}
    /\ UNCHANGED <<slots, ram, display, wedged, input, barrier, faults, history>>

\* panel.deep_sleep, after the save.
SleepPanel ==
    /\ pc = "panel"
    /\ pc' = "idle"
    /\ ack' \in {"Ready", "Failed"}
    /\ UNCHANGED <<slots, ram, reason, dirty, wedged, power, input, barrier,
                   faults, history>>

\* may_enter_cpu_deep_sleep.
TakeAck ==
    /\ input \in {"refresh", "sleep"}
    /\ ack # "none"
    /\ ack' = "none"
    /\ input' = IF input = "sleep" /\ ack = "Ready" THEN "release" ELSE "polling"
    /\ UNCHANGED <<slots, ram, display, wedged, power, barrier, faults, history>>

\* The button is up: rtc.sleep_deep.
FallAsleep ==
    /\ input = "release"
    /\ input' = "asleep"
    /\ UNCHANGED <<slots, ram, display, wedged, power, ack, barrier, faults, history>>

Reboot ==
    /\ pc' = "load"
    /\ reason' = "idle"
    /\ dirty' = FALSE /\ silent' = FALSE /\ wedged' = FALSE
    /\ loadedSlot' = NoSlot /\ loadedGen' = 0 /\ cur' = 0
    /\ power' = "none" /\ ack' = "none" /\ input' = "polling" /\ barrier' = 0
    /\ UNCHANGED <<slots, faults, made, durable>>

Wake == input = "asleep" /\ Reboot

\* Power is lost; Truncated and CommitSave say what a save may have left.
Crash ==
    /\ Awake
    /\ Reboot

\* A card of any generation: new, with the legacy file, or after two saves.
Init ==
    /\ \E g \in 0 .. Modulus - 1 :
          LET older == [gen |-> g, version |-> 0]
              newer == [gen |-> (g + 1) % Modulus, version |-> 1] IN
          slots \in {[s \in Slot |-> NoRecord],
                     [s \in Slot |-> IF s = 2 THEN older ELSE NoRecord],
                     [s \in Slot |-> CASE s = 0 -> older [] s = 1 -> newer [] OTHER -> NoRecord],
                     [s \in Slot |-> CASE s = 1 -> older [] s = 0 -> newer [] OTHER -> NoRecord]}
    /\ pc = "load" /\ reason = "idle"
    /\ dirty = FALSE /\ silent = FALSE /\ wedged = FALSE
    /\ loadedSlot = NoSlot /\ loadedGen = 0 /\ cur = 0
    /\ power = "none" /\ ack = "none" /\ input = "polling" /\ barrier = 0
    /\ faults = 0
    /\ made = 1 /\ durable = 0

Save == BeginSave \/ WriteSave \/ CommitSave \/ AbortSave \/ VerifySave

DisplayStep ==
    /\ Awake
    /\ \/ \E unreadable \in SUBSET Slot : Load(unreadable)
       \/ PrepareSleep
       \/ FullRefresh
       \/ Save
       \/ SleepPanel

Next ==
    \/ DisplayStep
    \/ Awake /\ (Interact \/ ChangeSilently \/ Prune \/ SaveWhenIdle)
    \/ Request("refresh") \/ Request("sleep")
    \/ TakeAck
    \/ FallAsleep
    \/ Wake
    \/ Crash

Spec == Init /\ [][Next]_vars

\* The executor runs the ready tasks; the timer of a dirty state expires, and
\* the loop then finds it due even if requests were handled in between.
Fairness ==
    /\ WF_vars(DisplayStep)
    /\ SF_vars(Awake /\ SaveWhenIdle)
    /\ WF_vars(TakeAck)

FairSpec == Spec /\ Fairness

(***************************************************************************)
(* Properties.                                                             *)
(***************************************************************************)
SlotRecord == [gen : 0 .. Modulus - 1, version : 0 .. made] \cup {NoRecord}

TypeOK ==
    /\ made \in Nat
    /\ slots \in [Slot -> SlotRecord]
    /\ loadedSlot \in {0, 1, NoSlot}
    /\ loadedGen \in 0 .. Modulus - 1
    /\ cur \in 0 .. made
    /\ durable \in 0 .. made
    /\ barrier \in 0 .. made
    /\ pc \in {"load", "idle", "begin", "write", "commit", "verify", "abort",
               "abortEnded", "panel"}
    /\ reason \in {"idle", "prune", "sleep"}
    /\ dirty \in BOOLEAN /\ silent \in BOOLEAN /\ wedged \in BOOLEAN
    /\ power \in {"none", "refresh", "sleep"}
    /\ ack \in {"none", "Ready", "Failed"}
    /\ input \in {"polling", "refresh", "sleep", "release", "asleep"}
    /\ faults \in Nat

(* Whatever was loaded, or saved and verified, is what a boot would load   *)
(* now, or something newer: a save that tears, fails or wraps the          *)
(* generation costs no more than itself.                                   *)
SavedSurvives == VersionOf(Selected({})) >= durable

(* A change that was marked is never forgotten: until a verified save has  *)
(* it, the flush stays dirty, however many saves fail.                     *)
NothingForgotten == pc = "idle" /\ cur # durable => dirty \/ silent

(* One power request, one acknowledgement: none is left over to answer the *)
(* next request.                                                           *)
AckPairs ==
    /\ ack # "none" => input \in {"refresh", "sleep"} /\ power = "none"
    /\ reason = "sleep" /\ pc \notin {"load", "idle"} =>
          input = "sleep" /\ power = "none" /\ ack = "none"

(* The CPU sleeps only after a verified save of everything the reader did  *)
(* before the sleep was requested.                                         *)
SleepAuthorised == input \in {"release", "asleep"} => durable >= barrier

(* The input task, which waits for an acknowledgement, always gets one.    *)
PowerAnswered == input \in {"refresh", "sleep"} ~> input \notin {"refresh", "sleep"}

(* A dirty state is saved in the end, if the card works again, the owner   *)
(* has not kept an upload that nobody can end, and the CPU, which may stop *)
(* in the middle of an idle save, does not sleep for good.                 *)
EventuallySaved == dirty ~> ~dirty \/ wedged \/ input = "asleep"

(* The display task serves both of its duties: a gesture is answered, and  *)
(* a change is saved.                                                      *)
Attended == PowerAnswered /\ EventuallySaved
=============================================================================
