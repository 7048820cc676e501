--------------------------- MODULE UploadJournal ---------------------------
(***************************************************************************)
(* Crash-safe replacement of one book file on the SD card.                 *)
(*                                                                         *)
(* Source: crates/embedded-sd-storage/src/sd_filesystem.rs (publication,   *)
(* recovery, the A/B journal), crates/embedded-sd-storage/src/             *)
(* upload_journal.rs (the record) and the upload half of                   *)
(* MountedStorageOwnerBackend in firmware/crates/binbook-fw/src/           *)
(* storage_owner.rs (who calls them).  All of it runs in the one storage   *)
(* owner, so there is a single thread of control, pc, which a reset can    *)
(* cut between any two card operations or inside a journal write.          *)
(*                                                                         *)
(* BOOKS/<name> is books[name]; in TMP, BBU<gen>.TMP is stage[gen],        *)
(* BBB<gen>.TMP is backup[gen], TMP/<name> is moved[name], and XFERA.DAT   *)
(* and XFERB.DAT are slots["A"] and slots["B"].  A rename of the FAT       *)
(* library is atomic and refuses an existing destination.                  *)
(***************************************************************************)
EXTENDS Integers, FiniteSets

CONSTANTS
    Names,       \* portable names of books
    Contents,    \* complete, verified file contents
    Partial,     \* a file that is not (yet) as long as was announced
    NoFile,      \* the directory has no entry of that name
    Garbage,     \* a journal slot that is absent, short, or fails its CRC
    MaxGen,      \* bound: generations used in one behaviour
    MaxCrashes,  \* bound: resets in one behaviour
    MaxFaults    \* bound: failing card operations in one behaviour

Gens == 1 .. MaxGen
File == Contents \cup {Partial, NoFile}

\* UploadJournalPhase.  Receiving (1) is only ever held in RAM.
Clear     == 0
Verified  == 2
OldMoved  == 3
Published == 4

Record == [phase : {Clear, Verified, OldMoved, Published},
           gen   : Gens,
           name  : Names]

ASSUME ConstantsAssumption ==
    /\ Partial # NoFile
    /\ Partial \notin Contents
    /\ NoFile \notin Contents
    /\ Garbage \notin Record
    /\ Names # {}
    /\ MaxGen \in Nat \ {0}
    /\ MaxCrashes \in Nat
    /\ MaxFaults \in Nat

VARIABLES
    books, stage, backup, moved, slots,   \* the card
    recovered, nextGen,                   \* upload_recovered, next_upload_generation
    active,     \* the upload being received or published
    pending,    \* the record recover_book_upload works on
    pc,         \* what the owner does next
    crashes, faults,
    last,       \* history: what BOOKS showed last for a name, unless deleted
    gap,        \* history: names whose old copy the code left behind in TMP
    early,      \* history: names deleted while a recovery was due
    impaired    \* history: a card error misled the recovery under way

card == <<books, stage, backup, moved, slots>>
ram  == <<recovered, nextGen, active, pending, pc>>
history == <<last, gap, early>>
bounds == <<crashes, faults>>
vars == <<card, ram, bounds, history, impaired>>

(***************************************************************************)
(* The journal.                                                            *)
(***************************************************************************)
SlotOf(r) == IF (r.gen + r.phase) % 2 = 0 THEN "A" ELSE "B"

\* Mutant: the phase does not break ties of the generation.
NewerByGeneration(r, s) == r.gen > s.gen

Newer(r, s) == r.gen > s.gen \/ (r.gen = s.gen /\ r.phase > s.phase)

\* read_upload_journal: a slot that cannot be opened or read (unread) is
\* skipped like one that holds no valid record.
NewestBut(unread) ==
    LET found(s) == IF s \in unread THEN Garbage ELSE slots[s] IN
    IF found("A") = Garbage THEN found("B")
    ELSE IF found("B") = Garbage THEN found("A")
    ELSE IF Newer(found("B"), found("A")) THEN found("B") ELSE found("A")

Newest == NewestBut({})

\* What one reading of the journal skips: nothing, or a card error more.
CountUnread(unread) ==
    /\ unread # {} => faults < MaxFaults
    /\ faults' = IF unread = {} THEN faults ELSE faults + 1

RecordOf(u, phase) == [phase |-> phase, gen |-> u.gen, name |-> u.name]

ClearOf(r) == [phase |-> Clear, gen |-> r.gen + 1, name |-> r.name]

(***************************************************************************)
(* Steps that write a journal record: the record each would write.         *)
(***************************************************************************)
PublishWrites == {"verify", "noteOld", "notePublished", "clear"}
JournalWrites == PublishWrites \cup {"r_clear"}

RecordAt(p) ==
    CASE p = "verify"        -> RecordOf(active, Verified)
      [] p = "noteOld"       -> RecordOf(active, OldMoved)
      [] p = "notePublished" -> RecordOf(active, Published)
      [] p = "clear"         -> ClearOf(active)
      [] p = "r_clear"       -> ClearOf(pending)

After(p) ==
    CASE p = "verify"        -> "stash"
      [] p = "noteOld"       -> "expose"
      [] p = "notePublished" -> "dropOld"
      [] p = "clear"         -> "idle"
      [] p = "r_clear"       -> "r_next"

\* The recovery under way did not see the newest record, or ignored that its
\* restore failed, and the book that record covers is out of BOOKS.
Overlooked ==
    IF /\ impaired /\ Newest # Garbage /\ Newest.phase = OldMoved
       /\ books[Newest.name] = NoFile
    THEN {Newest.name} ELSE {}

\* The replaced book is out of BOOKS and no durable record leads to its backup:
\* the rename was not recorded, or a recovery overwrote what it overlooked.
GapAfter(p, newSlots) ==
    CASE p = "noteOld" /\ newSlots[SlotOf(RecordAt(p))] # RecordAt(p)
             -> gap \cup {active.name}
      [] p = "r_clear" /\ Newest # Garbage /\ newSlots[SlotOf(Newest)] # Newest
             -> gap \cup Overlooked
      [] OTHER -> gap

\* create, truncate unless exactly one record long, write, flush.
WriteJournal ==
    /\ pc \in JournalWrites
    /\ slots' = [slots EXCEPT ![SlotOf(RecordAt(pc))] = RecordAt(pc)]
    /\ gap' = GapAfter(pc, slots')
    /\ pc' = After(pc)
    /\ UNCHANGED <<books, stage, backup, moved, recovered, nextGen, active,
                   pending, bounds, last, early, impaired>>

\* What a cut or failing journal write may leave in its slot.
SlotsAfterCut(p) ==
    IF p \in JournalWrites
    THEN {slots, [slots EXCEPT ![SlotOf(RecordAt(p))] = Garbage],
                 [slots EXCEPT ![SlotOf(RecordAt(p))] = RecordAt(p)]}
    ELSE {slots}

(***************************************************************************)
(* Upload: begin, write, commit, abort.                                    *)
(***************************************************************************)
NoUpload == [name |-> CHOOSE n \in Names : TRUE, gen |-> 1, content |-> Partial]

\* upload_begin of a book after recovery.  The generation advances by two
\* whether or not the stage file can be created.
Begin(n, c, fails) ==
    /\ pc = "idle" /\ recovered
    /\ nextGen + 2 \in Gens
    /\ nextGen' = nextGen + 2
    /\ IF fails
       THEN /\ faults < MaxFaults
            /\ faults' = faults + 1
            /\ UNCHANGED <<stage, active, pc>>
       ELSE /\ stage' = [stage EXCEPT ![nextGen] = Partial]
            /\ active' = [name |-> n, gen |-> nextGen, content |-> c]
            /\ pc' = "receiving"
            /\ UNCHANGED faults
    /\ UNCHANGED <<books, backup, moved, slots, recovered, pending, crashes,
                   history, impaired>>

\* upload_write: the file reaches the announced size.
ReceiveAll ==
    /\ pc = "receiving"
    /\ stage[active.gen] = Partial
    /\ stage' = [stage EXCEPT ![active.gen] = active.content]
    /\ UNCHANGED <<books, backup, moved, slots, ram, bounds, history,
                   impaired>>

\* Mutant: the size is not compared.
CommitUnchecked ==
    /\ pc = "receiving"
    /\ pc' = "verify"
    /\ UNCHANGED <<card, recovered, nextGen, active, pending, bounds, history,
                   impaired>>

\* upload_commit: take the session, flush, compare the size.  After any error
\* the owner's protocol still holds the upload and serves nothing else.
Commit ==
    /\ pc = "receiving"
    /\ pc' = IF stage[active.gen] = active.content THEN "verify" ELSE "wedged"
    /\ UNCHANGED <<card, recovered, nextGen, active, pending, bounds, history,
                   impaired>>

\* upload_abort: the error of the removal is dropped.
Abort(fails) ==
    /\ pc = "receiving"
    /\ fails => faults < MaxFaults
    /\ faults' = IF fails THEN faults + 1 ELSE faults
    /\ stage' = IF fails THEN stage ELSE [stage EXCEPT ![active.gen] = NoFile]
    /\ pc' = "idle"
    /\ UNCHANGED <<books, backup, moved, slots, recovered, nextGen, active,
                   pending, crashes, history, impaired>>

(***************************************************************************)
(* publish_book_upload, one card operation at a time.                      *)
(***************************************************************************)
\* The verified stage takes the target's name inside TMP; then BOOKS is probed
\* for an old copy.  An I/O error of the probe reads as "no old copy".
Stash(probeFails) ==
    /\ pc = "stash"
    /\ probeFails => faults < MaxFaults
    /\ faults' = IF probeFails THEN faults + 1 ELSE faults
    /\ IF moved[active.name] = NoFile
       THEN /\ moved' = [moved EXCEPT ![active.name] = stage[active.gen]]
            /\ stage' = [stage EXCEPT ![active.gen] = NoFile]
            /\ pc' = IF probeFails \/ books[active.name] = NoFile
                     THEN "expose" ELSE "dropStale"
       ELSE pc' = "wedged" /\ UNCHANGED <<moved, stage>>
    /\ UNCHANGED <<books, backup, slots, recovered, nextGen, active, pending,
                   crashes, history, impaired>>

\* A stale backup of this generation is removed; the error is dropped.
DropStale(fails) ==
    /\ pc = "dropStale"
    /\ fails => faults < MaxFaults
    /\ faults' = IF fails THEN faults + 1 ELSE faults
    /\ backup' = IF fails THEN backup ELSE [backup EXCEPT ![active.gen] = NoFile]
    /\ pc' = "retire"
    /\ UNCHANGED <<books, stage, moved, slots, recovered, nextGen, active,
                   pending, crashes, history, impaired>>

Retire ==
    /\ pc = "retire"
    /\ IF backup[active.gen] = NoFile
       THEN /\ backup' = [backup EXCEPT ![active.gen] = books[active.name]]
            /\ books' = [books EXCEPT ![active.name] = NoFile]
            /\ pc' = "noteOld"
       ELSE pc' = "wedged" /\ UNCHANGED <<books, backup>>
    /\ UNCHANGED <<stage, moved, slots, recovered, nextGen, active, pending,
                   bounds, history, impaired>>

Expose ==
    /\ pc = "expose"
    /\ IF books[active.name] = NoFile
       THEN /\ books' = [books EXCEPT ![active.name] = moved[active.name]]
            /\ moved' = [moved EXCEPT ![active.name] = NoFile]
            /\ last' = [last EXCEPT ![active.name] = moved[active.name]]
            /\ gap' = gap \ {active.name}
            /\ early' = early \ {active.name}
            /\ pc' = "notePublished"
       ELSE pc' = "wedged" /\ UNCHANGED <<books, moved, history>>
    /\ UNCHANGED <<stage, backup, slots, recovered, nextGen, active, pending,
                   bounds, impaired>>

\* The rename into BOOKS fails: the old copy is put back if it can be.
ExposeFails(restoreFails) ==
    /\ pc = "expose" /\ books[active.name] = NoFile
    /\ faults + (IF restoreFails THEN 2 ELSE 1) <= MaxFaults
    /\ faults' = faults + (IF restoreFails THEN 2 ELSE 1)
    /\ IF restoreFails \/ backup[active.gen] = NoFile
       THEN UNCHANGED <<books, backup>>
       ELSE /\ books' = [books EXCEPT ![active.name] = backup[active.gen]]
            /\ backup' = [backup EXCEPT ![active.gen] = NoFile]
    /\ pc' = "wedged"
    /\ UNCHANGED <<stage, moved, slots, recovered, nextGen, active, pending,
                   crashes, history, impaired>>

DropOld(fails) ==
    /\ pc = "dropOld"
    /\ fails => faults < MaxFaults
    /\ faults' = IF fails THEN faults + 1 ELSE faults
    /\ backup' = IF fails THEN backup ELSE [backup EXCEPT ![active.gen] = NoFile]
    /\ pc' = "clear"
    /\ UNCHANGED <<books, stage, moved, slots, recovered, nextGen, active,
                   pending, crashes, history, impaired>>

\* Any other failing operation of a publication: Err, with nothing undone.
PublishFails ==
    /\ pc \in PublishWrites \cup {"stash", "retire"}
    /\ faults < MaxFaults
    /\ faults' = faults + 1
    /\ slots' \in SlotsAfterCut(pc)
    /\ gap' = GapAfter(pc, slots')
    /\ pc' = "wedged"
    /\ UNCHANGED <<books, stage, backup, moved, recovered, nextGen, active,
                   pending, crashes, last, early, impaired>>

(***************************************************************************)
(* recover_upload_if_needed: before the first book upload and before every *)
(* scan, until it has succeeded once after a reset.                        *)
(***************************************************************************)
\* Mutant: an OldMoved record is swept like a Verified one.
StartRecoveryNoRestore(unread) ==
    /\ pc = "idle" /\ ~recovered
    /\ CountUnread(unread)
    /\ LET found == NewestBut(unread) IN
       /\ impaired' = (found # Newest)
       /\ IF found = Garbage
          THEN pc' = "r_next" /\ UNCHANGED pending
          ELSE /\ found.gen + 2 \in Gens
               /\ pending' = found
               /\ pc' = IF found.phase = Clear THEN "r_clear" ELSE "r_stage"
    /\ UNCHANGED <<card, recovered, nextGen, active, crashes, history>>

\* recover_book_upload works on the newest record it can read.
StartRecovery(unread) ==
    /\ pc = "idle" /\ ~recovered
    /\ CountUnread(unread)
    /\ LET found == NewestBut(unread) IN
       /\ impaired' = (found # Newest)
       /\ IF found = Garbage
          THEN pc' = "r_next" /\ UNCHANGED pending
          ELSE /\ found.gen + 2 \in Gens
               /\ pending' = found
               /\ pc' = CASE found.phase = Clear    -> "r_clear"
                          [] found.phase = OldMoved -> "r_restore"
                          [] OTHER                  -> "r_stage"
    /\ UNCHANGED <<card, recovered, nextGen, active, crashes, history>>

\* Mutant: the backup goes back even over a target that was published.
RestoreOverTarget(fails) ==
    /\ pc = "r_restore"
    /\ fails => faults < MaxFaults
    /\ faults' = IF fails THEN faults + 1 ELSE faults
    /\ IF fails \/ backup[pending.gen] = NoFile
       THEN UNCHANGED <<books, backup>>
       ELSE /\ books' = [books EXCEPT ![pending.name] = backup[pending.gen]]
            /\ backup' = [backup EXCEPT ![pending.gen] = NoFile]
    /\ impaired' = (impaired \/ fails)
    /\ pc' = "r_stage"
    /\ UNCHANGED <<stage, moved, slots, recovered, nextGen, active, pending,
                   crashes, history>>

\* OldMoved: the old copy goes back if BOOKS lacks the target, else it is
\* dropped.  The error of either is ignored.
Restore(fails) ==
    /\ pc = "r_restore"
    /\ fails => faults < MaxFaults
    /\ faults' = IF fails THEN faults + 1 ELSE faults
    /\ LET n == pending.name  g == pending.gen IN
       IF fails
       THEN UNCHANGED <<books, backup>>
       ELSE /\ books' = IF books[n] = NoFile
                        THEN [books EXCEPT ![n] = backup[g]] ELSE books
            /\ backup' = [backup EXCEPT ![g] = NoFile]
    /\ impaired' = (impaired \/ fails)
    /\ pc' = "r_stage"
    /\ UNCHANGED <<stage, moved, slots, recovered, nextGen, active, pending,
                   crashes, history>>

\* The removals of a recovery; the error of each is ignored.
Sweep(fails) ==
    /\ pc \in {"r_stage", "r_moved", "r_backup"}
    /\ fails => faults < MaxFaults
    /\ faults' = IF fails THEN faults + 1 ELSE faults
    /\ stage' = IF pc = "r_stage" /\ ~fails
                THEN [stage EXCEPT ![pending.gen] = NoFile] ELSE stage
    /\ moved' = IF pc = "r_moved" /\ ~fails
                THEN [moved EXCEPT ![pending.name] = NoFile] ELSE moved
    /\ backup' = IF pc = "r_backup" /\ ~fails
                 THEN [backup EXCEPT ![pending.gen] = NoFile] ELSE backup
    /\ pc' = CASE pc = "r_stage" -> "r_moved"
               [] pc = "r_moved" /\ pending.phase = Published -> "r_backup"
               [] OTHER -> "r_clear"
    /\ UNCHANGED <<books, slots, recovered, nextGen, active, pending, crashes,
                   history, impaired>>

\* next_upload_generation reads the journal once more, then the stage of that
\* generation is discarded.
FinishRecovery(unread) ==
    /\ pc = "r_next"
    /\ CountUnread(unread)
    /\ LET found == NewestBut(unread) IN
       /\ found # Garbage => found.gen + 1 \in Gens
       /\ nextGen' = IF found = Garbage THEN 1 ELSE found.gen + 1
    /\ stage' = [stage EXCEPT ![nextGen'] = NoFile]
    /\ recovered' = TRUE
    /\ gap' = gap \cup Overlooked
    /\ impaired' = FALSE
    /\ pc' = "idle"
    /\ UNCHANGED <<books, backup, moved, slots, active, pending, crashes, last,
                   early>>

\* An error ends the attempt; the next request that needs it starts over.
RecoveryFails ==
    /\ pc \in {"r_clear", "r_next"}
    /\ faults < MaxFaults
    /\ faults' = faults + 1
    /\ slots' \in SlotsAfterCut(pc)
    /\ gap' = GapAfter(pc, slots')
    /\ impaired' = FALSE
    /\ pc' = "idle"
    /\ UNCHANGED <<books, stage, backup, moved, recovered, nextGen, active,
                   pending, crashes, last, early>>

\* delete of a book: nothing stops it during an upload of the same client, and
\* unlike upload_begin and scan_start it does not run a recovery first.
Delete(n) ==
    /\ pc \in {"idle", "receiving", "wedged"}
    /\ books[n] # NoFile
    /\ books' = [books EXCEPT ![n] = NoFile]
    /\ last' = [last EXCEPT ![n] = NoFile]
    /\ early' = IF recovered /\ pc # "wedged" THEN early ELSE early \cup {n}
    /\ UNCHANGED <<stage, backup, moved, slots, ram, bounds, gap, impaired>>

\* A reset: RAM is lost, and a journal write it cuts may be torn.
Crash ==
    /\ crashes < MaxCrashes
    /\ crashes' = crashes + 1
    /\ slots' \in SlotsAfterCut(pc)
    /\ gap' = GapAfter(pc, slots')
    /\ recovered' = FALSE
    /\ nextGen' = 1
    /\ active' = NoUpload
    /\ pending' = ClearOf([gen |-> 0, name |-> NoUpload.name])
    /\ impaired' = FALSE
    /\ pc' = "idle"
    /\ UNCHANGED <<books, stage, backup, moved, faults, last, early>>

Init ==
    /\ books \in [Names -> Contents \cup {NoFile}]
    /\ stage = [g \in Gens |-> NoFile]
    /\ backup = [g \in Gens |-> NoFile]
    /\ moved = [n \in Names |-> NoFile]
    /\ slots = [s \in {"A", "B"} |-> Garbage]
    /\ recovered = FALSE
    /\ nextGen = 1
    /\ active = NoUpload
    /\ pending = ClearOf([gen |-> 0, name |-> NoUpload.name])
    /\ pc = "idle"
    /\ crashes = 0 /\ faults = 0
    /\ last = books
    /\ gap = {} /\ early = {} /\ impaired = FALSE

Next ==
    \/ \E n \in Names, c \in Contents, fails \in BOOLEAN : Begin(n, c, fails)
    \/ ReceiveAll
    \/ Commit
    \/ \E fails \in BOOLEAN : Abort(fails)
    \/ WriteJournal
    \/ \E fails \in BOOLEAN : Stash(fails)
    \/ \E fails \in BOOLEAN : DropStale(fails)
    \/ Retire
    \/ Expose
    \/ \E fails \in BOOLEAN : ExposeFails(fails)
    \/ \E fails \in BOOLEAN : DropOld(fails)
    \/ PublishFails
    \/ \E unread \in SUBSET {"A", "B"} : StartRecovery(unread)
    \/ \E fails \in BOOLEAN : Restore(fails)
    \/ \E fails \in BOOLEAN : Sweep(fails)
    \/ \E unread \in SUBSET {"A", "B"} : FinishRecovery(unread)
    \/ RecoveryFails
    \/ \E n \in Names : Delete(n)
    \/ Crash

Spec == Init /\ [][Next]_vars

(***************************************************************************)
(* Properties.                                                             *)
(***************************************************************************)
PublishSteps == {"verify", "stash", "dropStale", "retire", "noteOld", "expose",
                 "notePublished", "dropOld", "clear"}
RecoverySteps == {"r_restore", "r_stage", "r_moved", "r_backup", "r_clear",
                  "r_next"}

TypeOK ==
    /\ books \in [Names -> File]
    /\ stage \in [Gens -> File]
    /\ backup \in [Gens -> File]
    /\ moved \in [Names -> File]
    /\ slots \in [{"A", "B"} -> Record \cup {Garbage}]
    /\ recovered \in BOOLEAN
    /\ nextGen \in Gens
    /\ active \in [name : Names, gen : Gens, content : Contents \cup {Partial}]
    /\ pending \in Record
    /\ pc \in {"idle", "receiving", "wedged"} \cup PublishSteps \cup RecoverySteps
    /\ crashes \in 0 .. MaxCrashes
    /\ faults \in 0 .. MaxFaults
    /\ last \in [Names -> File]
    /\ gap \in SUBSET Names
    /\ early \in SUBSET Names
    /\ impaired \in BOOLEAN

(* No reader ever finds a file in BOOKS that is shorter than its upload    *)
(* announced: whatever is cut, torn or fails, publish_book_upload only     *)
(* ever moves a stage whose length upload_commit has compared.             *)
BooksComplete == \A n \in Names : books[n] # Partial

(* A book that an unfinished replacement took out of BOOKS is always named *)
(* by the newest valid journal record, phase OldMoved, and the backup that *)
(* record leads to holds its latest content; except between the rename of  *)
(* the old copy and the durable OldMoved record, and for a book in gap:    *)
(* lost in that window, or overlooked by a recovery that could not read    *)
(* the slot of the record or could not rename the backup back.             *)
MissingIsCovered ==
    \A n \in Names \ gap :
        books[n] = NoFile /\ last[n] # NoFile =>
            \/ pc = "noteOld" /\ active.name = n /\ backup[active.gen] = last[n]
            \/ /\ Newest # Garbage
               /\ Newest.phase = OldMoved
               /\ Newest.name = n
               /\ backup[Newest.gen] = last[n]

(* Once a recovery has succeeded and no publication is under way, every    *)
(* book that was ever committed and not deleted is in BOOKS, with its      *)
(* latest content; except what was lost between the rename of the old copy *)
(* and its durable record, and the one book a recovery had to restore when *)
(* a card error hid its record from that very recovery (the slot is then   *)
(* skipped, and the recovery succeeds on the older record or on none) or   *)
(* made its restore fail (the error is ignored).                           *)
RecoveredShelf ==
    recovered /\ pc \in {"idle", "receiving"} =>
        \A n \in Names \ gap : last[n] # NoFile => books[n] = last[n]

(* The documented contract of the phases: a reset at any step of a         *)
(* publication keeps the old target or shows the new one.                  *)
TargetPreserved ==
    recovered /\ pc = "idle" =>
        \A n \in Names : last[n] # NoFile => books[n] = last[n]

(* What a reader would expect and the code does not keep: a name without a *)
(* committed book shows nothing.  A rename into BOOKS that fails puts back *)
(* whatever backup has the generation of the upload, also when the upload  *)
(* replaced no book and the backup is a stale one.                         *)
NoForeignCopy ==
    \A n \in Names \ early : last[n] = NoFile => books[n] = NoFile

(***************************************************************************)
(* The inductive invariant behind MissingIsCovered and RecoveredShelf.  A  *)
(* recovery that could not read the journal starts the generations over,   *)
(* so their order says nothing about age.  What holds is that the two      *)
(* slots alternate: while a book is missing they hold the Verified and the *)
(* OldMoved record of its replacement, and no record of another age.       *)
(***************************************************************************)
Missing == {n \in Names \ gap : books[n] = NoFile /\ last[n] # NoFile}

RecordFor(n, g, phase) == [phase |-> phase, gen |-> g, name |-> n]

Holds(r) == slots[SlotOf(r)] = r

CoveredBy(n, g) ==
    /\ Holds(RecordFor(n, g, Verified))
    /\ Holds(RecordFor(n, g, OldMoved))
    /\ backup[g] = last[n]

BeforeExposure == {"stash", "dropStale", "retire", "noteOld", "expose"}

ControlInv ==
    /\ pc \in {"receiving"} \cup PublishSteps => recovered
    /\ pc \in RecoverySteps => ~recovered
    /\ pc \in RecoverySteps \ {"r_next"} =>
          pending \in {slots["A"], slots["B"]} /\ (impaired \/ pending = Newest)
    /\ pc = "r_restore" => pending.phase = OldMoved
    /\ pc = "r_backup" => pending.phase = Published
    /\ pc \in BeforeExposure => Holds(RecordOf(active, Verified))

ShelfInv ==
    /\ \A n \in Names \ gap : last[n] # NoFile => books[n] \in {last[n], NoFile}
    /\ recovered /\ pc \notin {"noteOld", "expose", "wedged"} => Missing = {}
    /\ pc \in RecoverySteps \ {"r_restore"} /\ ~impaired => Missing = {}

CoveredInv ==
    \A n \in Missing :
        \/ pc = "noteOld" /\ active.name = n /\ backup[active.gen] = last[n]
        \/ \E g \in Gens : CoveredBy(n, g)

CoverInv == ControlInv /\ ShelfInv /\ CoveredInv

(***************************************************************************)
(* What BOOKS shows once the pending recovery has run, and the upload that *)
(* may still change it: the refinement of BookShelf.                       *)
(***************************************************************************)
ShownAfterRecovery(n) ==
    IF books[n] # NoFile THEN books[n]
    ELSE IF pc = "noteOld" /\ active.name = n THEN backup[active.gen]
    ELSE IF Newest # Garbage /\ Newest.phase = OldMoved /\ Newest.name = n
         THEN backup[Newest.gen]
    ELSE NoFile

\* What was lost reads as absent, and so does a name that has no committed
\* book, whatever a failed rename has put there (see NoForeignCopy).
ShownBooks ==
    [n \in Names |-> IF n \in gap \cup early \/ last[n] = NoFile
                     THEN NoFile ELSE ShownAfterRecovery(n)]

OfferedUpload ==
    CASE pc \in {"verify", "stash", "dropStale", "retire", "noteOld", "expose"}
             -> [name |-> active.name, content |-> active.content]
      [] pc = "r_restore" -> [name |-> pending.name, content |-> NoFile]
      [] OTHER -> [name |-> NoFile, content |-> NoFile]

Shelf == INSTANCE BookShelf WITH
             shelf <- ShownBooks,
             offer <- OfferedUpload

(* Every step of a replacement, recovery included, is one step of the      *)
(* abstract shelf or none: an upload shows up at once and complete, and    *)
(* nothing but its own target is ever touched.                             *)
ImplementsShelf == Shelf!Spec
============================================================================
