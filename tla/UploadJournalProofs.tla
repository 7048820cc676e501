------------------------ MODULE UploadJournalProofs ------------------------
(***************************************************************************)
(* Proofs about UploadJournal, for every set of names and contents and any *)
(* number of generations, resets and faults.                               *)
(***************************************************************************)
EXTENDS UploadJournal, TLAPS

USE DEF Clear, Verified, OldMoved, Published

(* The upload slot after a reset holds a value of its type.                *)
LEMMA NoUploadType ==
    NoUpload \in [name : Names, gen : Gens, content : Contents \cup {Partial}]
  <1>1. (CHOOSE n \in Names : TRUE) \in Names
    BY ConstantsAssumption
  <1>2. 1 \in Gens
    BY ConstantsAssumption DEF Gens
  <1> QED BY <1>1, <1>2 DEF NoUpload

(* So does the slot of the record under recovery.                          *)
LEMMA NoPendingType == ClearOf([gen |-> 0, name |-> NoUpload.name]) \in Record
  <1>1. NoUpload.name \in Names
    BY NoUploadType
  <1>2. 1 \in Gens
    BY ConstantsAssumption DEF Gens
  <1> QED BY <1>1, <1>2 DEF ClearOf, Record

(* The two journal files are the only ones a record can go to.             *)
LEMMA SlotOfType == \A r \in Record : SlotOf(r) \in {"A", "B"}
  BY DEF SlotOf

(* Reading the journal yields the record of one of its slots, or nothing,  *)
(* whichever slots cannot be read.                                         *)
LEMMA FoundType ==
    ASSUME TypeOK, NEW unread
    PROVE  NewestBut(unread) \in Record \cup {Garbage}
  BY DEF NewestBut, TypeOK, Newer

LEMMA NewestType == TypeOK => Newest \in Record \cup {Garbage}
  BY FoundType DEF Newest

(***************************************************************************)
(* Type correctness needs the bound on generations the upload and the      *)
(* recovery keep in reserve for the Clear record.                          *)
(***************************************************************************)
TypeInv ==
    /\ TypeOK
    /\ pc \in {"receiving"} \cup PublishSteps =>
          active.gen + 1 \in Gens /\ active.content \in Contents
    /\ pc \in RecoverySteps \ {"r_next"} => pending.gen + 1 \in Gens

(* The record a journal write would leave is a record.                     *)
LEMMA RecordAtType ==
    ASSUME TypeInv, pc \in JournalWrites
    PROVE  RecordAt(pc) \in Record /\ SlotOf(RecordAt(pc)) \in {"A", "B"}
  <1>1. RecordAt(pc) \in Record
    BY DEF TypeInv, TypeOK, JournalWrites, PublishWrites, PublishSteps,
           RecoverySteps, RecordAt, RecordOf, ClearOf, Record
  <1> QED BY <1>1, SlotOfType

(* Whatever a cut journal write leaves, the journal keeps its type.        *)
LEMMA SlotsAfterCutType ==
    ASSUME TypeInv, NEW s \in SlotsAfterCut(pc)
    PROVE  s \in [{"A", "B"} -> Record \cup {Garbage}]
  <1>1. CASE pc \in JournalWrites
    BY <1>1, RecordAtType DEF SlotsAfterCut, TypeInv, TypeOK
  <1>2. CASE pc \notin JournalWrites
    BY <1>2 DEF SlotsAfterCut, TypeInv, TypeOK
  <1> QED BY <1>1, <1>2

(* The names recorded as lost are names.                                   *)
LEMMA OverlookedType == TypeOK => Overlooked \in SUBSET Names
  BY NewestType DEF Overlooked, Record

LEMMA GapAfterType ==
    ASSUME TypeOK, NEW s
    PROVE  GapAfter(pc, s) \in SUBSET Names
  BY OverlookedType DEF GapAfter, TypeOK

(* The strengthened type invariant holds in every behaviour.               *)
LEMMA TypeInvariant == Spec => []TypeInv
<1>1. Init => TypeInv
  <2> SUFFICES ASSUME Init PROVE TypeInv
    OBVIOUS
  <2>1. 1 \in Gens /\ 0 \in 0 .. MaxCrashes /\ 0 \in 0 .. MaxFaults
    BY ConstantsAssumption DEF Gens
  <2> QED
    BY <2>1, NoUploadType, NoPendingType
    DEF Init, TypeInv, TypeOK, File, PublishSteps, RecoverySteps
<1>2. TypeInv /\ [Next]_vars => TypeInv'
  <2> SUFFICES ASSUME TypeInv, [Next]_vars PROVE TypeInv'
    OBVIOUS
  <2> USE DEF TypeInv, TypeOK, PublishSteps, RecoverySteps, File
  <2>0. MaxFaults \in Nat /\ MaxCrashes \in Nat /\ MaxGen \in Nat
    BY ConstantsAssumption
  <2>1. ASSUME NEW n \in Names, NEW c \in Contents, NEW fails \in BOOLEAN,
               Begin(n, c, fails)
        PROVE  TypeInv'
    <3>1. nextGen + 1 \in Gens
      BY <2>0, <2>1 DEF Begin, Gens
    <3>2. CASE fails
      BY <2>0, <2>1, <3>1, <3>2 DEF Begin, history
    <3>3. CASE ~fails
      BY <2>0, <2>1, <3>1, <3>3 DEF Begin, history
    <3> QED BY <3>2, <3>3
  <2>2. CASE ReceiveAll
    BY <2>2 DEF ReceiveAll, ram, bounds, history
  <2>3. CASE Commit
    BY <2>3 DEF Commit, card, bounds, history
  <2>4. ASSUME NEW fails \in BOOLEAN, Abort(fails) PROVE TypeInv'
    BY <2>0, <2>4 DEF Abort, history
  <2>5. CASE WriteJournal
    <3>1. slots' \in [{"A", "B"} -> Record \cup {Garbage}]
      BY <2>5, RecordAtType DEF WriteJournal
    <3>2. gap' \in SUBSET Names
      BY <2>5, GapAfterType DEF WriteJournal
    <3>3. pc \in JournalWrites /\ pc' = After(pc)
      BY <2>5 DEF WriteJournal
    <3>4. pc' \in {"stash", "expose", "dropOld", "idle", "r_next"}
      BY <3>3 DEF After, JournalWrites, PublishWrites
    <3>5. pc' \in {"stash", "expose", "dropOld"} => pc \in PublishSteps
      BY <3>3 DEF After, JournalWrites, PublishWrites
    <3> QED BY <2>5, <3>1, <3>2, <3>4, <3>5 DEF WriteJournal, bounds
  <2>6. ASSUME NEW fails \in BOOLEAN, Stash(fails) PROVE TypeInv'
    BY <2>0, <2>6 DEF Stash, history
  <2>7. ASSUME NEW fails \in BOOLEAN, DropStale(fails) PROVE TypeInv'
    BY <2>0, <2>7 DEF DropStale, history
  <2>8. CASE Retire
    BY <2>8 DEF Retire, bounds, history
  <2>9. CASE Expose
    BY <2>9 DEF Expose, bounds, history
  <2>10. ASSUME NEW fails \in BOOLEAN, ExposeFails(fails) PROVE TypeInv'
    BY <2>0, <2>10 DEF ExposeFails, history
  <2>11. ASSUME NEW fails \in BOOLEAN, DropOld(fails) PROVE TypeInv'
    BY <2>0, <2>11 DEF DropOld, history
  <2>12. CASE PublishFails
    BY <2>0, <2>12, SlotsAfterCutType, GapAfterType DEF PublishFails
  <2>13. ASSUME NEW unread \in SUBSET {"A", "B"}, StartRecovery(unread)
         PROVE  TypeInv'
    <3> DEFINE found == NewestBut(unread)
    <3>1. faults' \in 0 .. MaxFaults
      BY <2>0, <2>13 DEF StartRecovery, CountUnread
    <3>2. impaired' \in BOOLEAN
      BY <2>13 DEF StartRecovery
    <3>3. CASE found = Garbage
      BY <2>13, <3>1, <3>2, <3>3 DEF StartRecovery, card, history
    <3>4. CASE found # Garbage
      <4>1. found \in Record
        BY <3>4, FoundType
      <4>2. found.gen + 2 \in Gens /\ pending' = found
        BY <2>13, <3>4 DEF StartRecovery
      <4>3. pending'.gen + 1 \in Gens
        BY <2>0, <4>1, <4>2 DEF Gens, Record
      <4>4. pc' \in {"r_clear", "r_restore", "r_stage"}
        BY <2>13, <3>4 DEF StartRecovery
      <4>5. UNCHANGED <<card, recovered, nextGen, active, crashes, history>>
        BY <2>13 DEF StartRecovery
      <4> QED BY <3>1, <3>2, <4>1, <4>2, <4>3, <4>4, <4>5 DEF card, history
    <3> QED BY <3>3, <3>4
  <2>14. ASSUME NEW fails \in BOOLEAN, Restore(fails) PROVE TypeInv'
    BY <2>0, <2>14 DEF Restore, Record, history
  <2>15. ASSUME NEW fails \in BOOLEAN, Sweep(fails) PROVE TypeInv'
    <3>1. pc' \in {"r_moved", "r_backup", "r_clear"}
      BY <2>15 DEF Sweep
    <3>2. pending \in Record /\ pending.gen + 1 \in Gens
      BY <2>15 DEF Sweep
    <3>3. /\ stage' \in [Gens -> File]
          /\ moved' \in [Names -> File]
          /\ backup' \in [Gens -> File]
      BY <2>15, <3>2 DEF Sweep, Record
    <3> QED BY <2>0, <2>15, <3>1, <3>2, <3>3 DEF Sweep, history
  <2>16. ASSUME NEW unread \in SUBSET {"A", "B"}, FinishRecovery(unread)
         PROVE  TypeInv'
    <3>1. nextGen' \in Gens
      BY <2>16, ConstantsAssumption DEF FinishRecovery, Gens
    <3>2. faults' \in 0 .. MaxFaults
      BY <2>0, <2>16 DEF FinishRecovery, CountUnread
    <3>3. gap' \in SUBSET Names
      BY <2>16, OverlookedType DEF FinishRecovery
    <3> QED BY <2>16, <3>1, <3>2, <3>3 DEF FinishRecovery
  <2>17. CASE RecoveryFails
    <3>1. impaired' \in BOOLEAN
      BY <2>17 DEF RecoveryFails
    <3> QED BY <2>0, <2>17, <3>1, SlotsAfterCutType, GapAfterType DEF RecoveryFails
  <2>18. ASSUME NEW n \in Names, Delete(n) PROVE TypeInv'
    BY <2>18 DEF Delete, ram, bounds
  <2>19. CASE Crash
    <3>1. 1 \in Gens
      BY ConstantsAssumption DEF Gens
    <3>2. /\ slots' \in [{"A", "B"} -> Record \cup {Garbage}]
          /\ gap' \in SUBSET Names
      BY <2>19, SlotsAfterCutType, GapAfterType DEF Crash
    <3>3. pending' \in Record
      BY <2>19, NoPendingType DEF Crash
    <3>4. active' \in [name : Names, gen : Gens, content : Contents \cup {Partial}]
      BY <2>19, NoUploadType DEF Crash
    <3>5. /\ crashes' \in 0 .. MaxCrashes
          /\ recovered' = FALSE /\ nextGen' = 1 /\ pc' = "idle"
          /\ UNCHANGED <<books, stage, backup, moved, faults, last, early>>
      BY <2>0, <2>19 DEF Crash
    <3>6. impaired' \in BOOLEAN
      BY <2>19 DEF Crash
    <3> QED BY <3>1, <3>2, <3>3, <3>4, <3>5, <3>6
  <2>20. CASE UNCHANGED vars
    BY <2>20 DEF vars, card, ram, bounds, history
  <2> QED
    BY <2>0, <2>1, <2>2, <2>3, <2>4, <2>5, <2>6, <2>7, <2>8, <2>9, <2>10, <2>11,
       <2>12, <2>13, <2>14, <2>15, <2>16, <2>17, <2>18, <2>19, <2>20
    DEF Next
<1> QED BY <1>1, <1>2, PTL DEF Spec

(* Every variable of the card, the owner's RAM and the history keeps its   *)
(* type: no step leaves the tables of generations and names.               *)
THEOREM TypeCorrect == Spec => []TypeOK
<1>1. TypeInv => TypeOK
  BY DEF TypeInv
<1> QED BY <1>1, TypeInvariant, PTL

(***************************************************************************)
(* No incomplete file ever reaches BOOKS.  What enters moved is the stage  *)
(* whose length the commit compared, and all other copies come from BOOKS. *)
(***************************************************************************)
CompleteInv ==
    /\ \A n \in Names : books[n] # Partial /\ moved[n] # Partial
    /\ \A g \in Gens : backup[g] # Partial
    /\ pc \in {"verify", "stash"} => stage[active.gen] = active.content

LEMMA CompleteInvariant == Spec => []CompleteInv
<1>1. Init => CompleteInv
  BY ConstantsAssumption DEF Init, CompleteInv
<1>2. TypeInv /\ CompleteInv /\ [Next]_vars => CompleteInv'
  <2> SUFFICES ASSUME TypeInv, CompleteInv, [Next]_vars PROVE CompleteInv'
    OBVIOUS
  <2> USE DEF CompleteInv
  <2>0. /\ books \in [Names -> File] /\ moved \in [Names -> File]
        /\ stage \in [Gens -> File] /\ backup \in [Gens -> File]
        /\ active.name \in Names /\ active.gen \in Gens
        /\ pending.name \in Names /\ pending.gen \in Gens
        /\ nextGen \in Gens
        /\ pc \in {"receiving"} \cup PublishSteps => active.content \in Contents
    BY DEF TypeInv, TypeOK, Record
  <2>1. ASSUME NEW n \in Names, NEW c \in Contents, NEW fails \in BOOLEAN,
               Begin(n, c, fails)
        PROVE  CompleteInv'
    BY <2>1 DEF Begin
  <2>2. CASE ReceiveAll
    BY <2>0, <2>2 DEF ReceiveAll, ram
  <2>3. CASE Commit
    BY <2>3 DEF Commit, card
  <2>4. ASSUME NEW fails \in BOOLEAN, Abort(fails) PROVE CompleteInv'
    BY <2>4 DEF Abort
  <2>5. CASE WriteJournal
    <3>1. pc' = "stash" => pc = "verify"
      BY <2>5 DEF WriteJournal, After, JournalWrites, PublishWrites
    <3>2. pc' # "verify"
      BY <2>5 DEF WriteJournal, After, JournalWrites, PublishWrites
    <3> QED BY <2>5, <3>1, <3>2 DEF WriteJournal
  <2>6. ASSUME NEW fails \in BOOLEAN, Stash(fails) PROVE CompleteInv'
    <3>1. active.content # Partial
      BY <2>0, <2>6, ConstantsAssumption DEF Stash, PublishSteps
    <3> QED BY <2>0, <2>6, <3>1 DEF Stash
  <2>7. ASSUME NEW fails \in BOOLEAN, DropStale(fails) PROVE CompleteInv'
    BY <2>0, <2>7, ConstantsAssumption DEF DropStale
  <2>8. CASE Retire
    BY <2>0, <2>8, ConstantsAssumption DEF Retire
  <2>9. CASE Expose
    BY <2>0, <2>9, ConstantsAssumption DEF Expose
  <2>10. ASSUME NEW fails \in BOOLEAN, ExposeFails(fails) PROVE CompleteInv'
    BY <2>0, <2>10, ConstantsAssumption DEF ExposeFails
  <2>11. ASSUME NEW fails \in BOOLEAN, DropOld(fails) PROVE CompleteInv'
    BY <2>0, <2>11, ConstantsAssumption DEF DropOld
  <2>12. CASE PublishFails
    BY <2>12 DEF PublishFails
  <2>13. ASSUME NEW unread \in SUBSET {"A", "B"}, StartRecovery(unread)
         PROVE  CompleteInv'
    <3>1. pc' \in {"r_next", "r_clear", "r_restore", "r_stage"}
      BY <2>13 DEF StartRecovery
    <3> QED BY <2>13, <3>1 DEF StartRecovery, card
  <2>14. ASSUME NEW fails \in BOOLEAN, Restore(fails) PROVE CompleteInv'
    BY <2>0, <2>14, ConstantsAssumption DEF Restore
  <2>15. ASSUME NEW fails \in BOOLEAN, Sweep(fails) PROVE CompleteInv'
    <3>1. pc' \in {"r_moved", "r_backup", "r_clear"}
      BY <2>15 DEF Sweep
    <3>2. \A n \in Names : moved'[n] # Partial
      BY <2>0, <2>15, ConstantsAssumption DEF Sweep
    <3>3. \A g \in Gens : backup'[g] # Partial
      BY <2>0, <2>15, ConstantsAssumption DEF Sweep
    <3> QED BY <2>15, <3>1, <3>2, <3>3 DEF Sweep
  <2>16. ASSUME NEW unread \in SUBSET {"A", "B"}, FinishRecovery(unread)
         PROVE  CompleteInv'
    BY <2>16 DEF FinishRecovery
  <2>17. CASE RecoveryFails
    BY <2>17 DEF RecoveryFails
  <2>18. ASSUME NEW n \in Names, Delete(n) PROVE CompleteInv'
    BY <2>0, <2>18, ConstantsAssumption DEF Delete, ram
  <2>19. CASE Crash
    BY <2>19 DEF Crash
  <2>20. CASE UNCHANGED vars
    BY <2>20 DEF vars, card, ram
  <2> QED
    BY <2>1, <2>2, <2>3, <2>4, <2>5, <2>6, <2>7, <2>8, <2>9, <2>10, <2>11,
       <2>12, <2>13, <2>14, <2>15, <2>16, <2>17, <2>18, <2>19, <2>20
    DEF Next
<1> QED BY <1>1, <1>2, TypeInvariant, PTL DEF Spec

(* A book that a reader can open is complete, whatever is cut or fails.    *)
THEOREM BooksAlwaysComplete == Spec => []BooksComplete
<1>1. CompleteInv => BooksComplete
  BY DEF CompleteInv, BooksComplete
<1> QED BY <1>1, CompleteInvariant, PTL

(***************************************************************************)
(* The journal as the recovery reads it.                                   *)
(***************************************************************************)

(* A journal that does not change reads the same.                          *)
LEMMA NewestSame == slots' = slots => Newest' = Newest
  BY DEF Newest, NewestBut

(* What a recovery works on is in one of the slots, and without a card     *)
(* error it is the newest record.                                          *)
LEMMA FoundIsStored ==
    ASSUME NEW unread \in SUBSET {"A", "B"}, NewestBut(unread) # Garbage
    PROVE  NewestBut(unread) \in {slots["A"], slots["B"]}
  BY DEF NewestBut

(* The Verified and the OldMoved record of one replacement go to different *)
(* slots, and the Clear record that ends its recovery to the slot of the   *)
(* second, whichever of the two the recovery worked on.                    *)
LEMMA PairSlots ==
    ASSUME NEW n \in Names, NEW g \in Gens
    PROVE  /\ SlotOf(RecordFor(n, g, Verified)) \in {"A", "B"}
           /\ SlotOf(RecordFor(n, g, OldMoved)) \in {"A", "B"}
           /\ SlotOf(RecordFor(n, g, Verified)) # SlotOf(RecordFor(n, g, OldMoved))
           /\ \A phase \in {Verified, OldMoved} :
                  SlotOf(ClearOf(RecordFor(n, g, phase)))
                      = SlotOf(RecordFor(n, g, OldMoved))
  <1>1. g \in Nat
    BY ConstantsAssumption DEF Gens
  <1>2. /\ RecordFor(n, g, Verified).gen = g /\ RecordFor(n, g, Verified).phase = 2
        /\ RecordFor(n, g, OldMoved).gen = g /\ RecordFor(n, g, OldMoved).phase = 3
        /\ \A phase \in {Verified, OldMoved} :
               /\ ClearOf(RecordFor(n, g, phase)).gen = g + 1
               /\ ClearOf(RecordFor(n, g, phase)).phase = 0
    BY DEF RecordFor, ClearOf
  <1>3. (g + 2) % 2 # (g + 3) % 2 /\ (g + 1 + 0) % 2 = (g + 3) % 2
        /\ (g + 2) % 2 \in {0, 1} /\ (g + 3) % 2 \in {0, 1}
    BY <1>1
  <1> QED BY <1>2, <1>3 DEF SlotOf

(* The pair of records of one replacement fills the journal, and its       *)
(* OldMoved record is the one read.                                        *)
LEMMA CoveredFacts ==
    ASSUME TypeOK, NEW n \in Names, NEW g \in Gens, CoveredBy(n, g)
    PROVE  /\ Newest = RecordFor(n, g, OldMoved) /\ Newest # Garbage
           /\ Newest.phase = OldMoved /\ Newest.name = n /\ Newest.gen = g
           /\ \A s \in {"A", "B"} :
                  slots[s] \in {RecordFor(n, g, Verified), RecordFor(n, g, OldMoved)}
           /\ backup[g] = last[n]
  <1> DEFINE v == RecordFor(n, g, Verified)  o == RecordFor(n, g, OldMoved)
  <1>1. v \in Record /\ o \in Record
    BY DEF RecordFor, Record
  <1>2. v # Garbage /\ o # Garbage
    BY <1>1, ConstantsAssumption
  <1>3. slots[SlotOf(v)] = v /\ slots[SlotOf(o)] = o
    BY DEF CoveredBy, Holds
  <1>4. \/ slots["A"] = v /\ slots["B"] = o
        \/ slots["A"] = o /\ slots["B"] = v
    BY <1>3, PairSlots
  <1>5. Newer(o, v) /\ ~ Newer(v, o)
    <2>1. g \in Nat
      BY ConstantsAssumption DEF Gens
    <2> QED BY <2>1 DEF Newer, RecordFor
  <1>6. Newest = o
    BY <1>2, <1>4, <1>5 DEF Newest, NewestBut
  <1>7. o.phase = OldMoved /\ o.name = n /\ o.gen = g
    BY DEF RecordFor
  <1> HIDE DEF v, o
  <1>8. \A s \in {"A", "B"} : slots[s] \in {v, o}
    BY <1>4
  <1> QED BY <1>2, <1>6, <1>7, <1>8 DEF v, o, CoveredBy

(* Cover that no step touches stays.                                       *)
LEMMA CoverKept ==
    ASSUME UNCHANGED <<slots, backup, last>>, NEW n, NEW g, CoveredBy(n, g)
    PROVE  CoveredBy(n, g)'
  BY DEF CoveredBy, Holds

(***************************************************************************)
(* MissingIsCovered and RecoveredShelf.                                    *)
(***************************************************************************)

(* Until the new copy is exposed only the target itself can be missing, and*)
(* its old copy is the backup of this upload.                              *)
LEMMA MissingIsTarget ==
    ASSUME TypeInv, CoverInv, pc \in BeforeExposure, NEW n \in Missing
    PROVE  n = active.name /\ backup[active.gen] = last[n]
  <1>1. CASE pc = "noteOld" /\ active.name = n /\ backup[active.gen] = last[n]
    BY <1>1
  <1>2. CASE \E g \in Gens : CoveredBy(n, g)
    <2>1. PICK g \in Gens : CoveredBy(n, g)
      BY <1>2
    <2>2. n \in Names /\ TypeOK
      BY DEF Missing, TypeInv
    <2>3. /\ \A s \in {"A", "B"} :
                 slots[s] \in {RecordFor(n, g, Verified), RecordFor(n, g, OldMoved)}
          /\ backup[g] = last[n]
      BY <2>1, <2>2, CoveredFacts
    <2> DEFINE v == RecordOf(active, Verified)
    <2>4. slots[SlotOf(v)] = v
      BY DEF CoverInv, ControlInv, Holds
    <2>5. SlotOf(v) \in {"A", "B"}
      BY DEF SlotOf
    <2>6. v \in {RecordFor(n, g, Verified), RecordFor(n, g, OldMoved)}
      BY <2>3, <2>4, <2>5
    <2>7. v.name = n /\ v.gen = g
      BY <2>6 DEF RecordFor
    <2>8. v.name = active.name /\ v.gen = active.gen
      BY DEF RecordOf
    <2> QED BY <2>3, <2>7, <2>8
  <1> QED BY <1>1, <1>2 DEF CoverInv, CoveredInv

(* A book that is missing while the journal may be cut is covered by the   *)
(* records under which it was moved out, unless it is counted as lost.     *)
LEMMA CutKeepsCover ==
    ASSUME TypeInv, CoverInv,
           slots' \in SlotsAfterCut(pc),
           gap' = GapAfter(pc, slots'),
           UNCHANGED <<books, backup, last>>
    PROVE  \A n \in Missing' : n \in Missing /\ \E g \in Gens : CoveredBy(n, g)'
  <1> SUFFICES ASSUME NEW n \in Missing'
               PROVE  n \in Missing /\ \E g \in Gens : CoveredBy(n, g)'
    OBVIOUS
  <1>0. gap \subseteq gap'
    BY DEF GapAfter
  <1>1. n \in Missing /\ n \in Names /\ n \notin gap' /\ books[n] = NoFile
    BY <1>0 DEF Missing
  <1>2. TypeOK /\ slots \in [{"A", "B"} -> Record \cup {Garbage}]
        /\ active.name \in Names /\ active.gen \in Gens
    BY DEF TypeInv, TypeOK
  <1>3. CASE pc = "noteOld"
    <2> PICK g \in Gens : g = active.gen
      BY <1>2
    <2> DEFINE o == RecordFor(n, g, OldMoved)  v == RecordFor(n, g, Verified)
    <2>1. n = active.name /\ backup[g] = last[n]
      BY <1>1, <1>3, MissingIsTarget DEF BeforeExposure
    <2>2. RecordAt(pc) = o
      BY <1>3, <2>1 DEF RecordAt, RecordOf, RecordFor
    <2>3. slots'[SlotOf(o)] = o
      BY <1>1, <1>3, <2>1, <2>2 DEF GapAfter
    <2>4. slots[SlotOf(v)] = v
      <3>1. v = RecordOf(active, Verified)
        BY <2>1 DEF RecordOf, RecordFor
      <3> QED BY <1>3, <3>1 DEF CoverInv, ControlInv, BeforeExposure, Holds
    <2>5. SlotOf(v) \in {"A", "B"} /\ SlotOf(v) # SlotOf(o)
      BY <1>1, <1>2, PairSlots
    <2>6. slots'[SlotOf(v)] = slots[SlotOf(v)]
      BY <1>2, <1>3, <2>2, <2>5 DEF SlotsAfterCut, JournalWrites, PublishWrites
    <2>7. CoveredBy(n, g)'
      BY <2>1, <2>3, <2>4, <2>6 DEF CoveredBy, Holds
    <2> QED BY <1>1, <2>7
  <1>4. CASE pc # "noteOld"
    <2>1. PICK g \in Gens : CoveredBy(n, g)
      BY <1>1, <1>4 DEF CoverInv, CoveredInv
    <2> DEFINE o == RecordFor(n, g, OldMoved)  v == RecordFor(n, g, Verified)
    <2>2. /\ Newest = o /\ Newest # Garbage /\ Newest.phase = OldMoved
          /\ Newest.name = n
          /\ \A s \in {"A", "B"} : slots[s] \in {v, o}
      BY <1>1, <1>2, <2>1, CoveredFacts
    <2>3. CASE pc = "r_clear"
      <3>1. impaired
        BY <1>1, <2>3 DEF CoverInv, ShelfInv, RecoverySteps
      <3>2. Overlooked = {n}
        BY <1>1, <2>2, <3>1 DEF Overlooked
      <3>3. slots'[SlotOf(o)] = o
        BY <1>1, <2>2, <2>3, <3>2 DEF GapAfter
      <3>4. pending \in {v, o}
        BY <2>2, <2>3 DEF CoverInv, ControlInv, RecoverySteps
      <3>5. SlotOf(RecordAt(pc)) = SlotOf(o)
        BY <1>1, <2>3, <3>4, PairSlots DEF RecordAt
      <3>6. SlotOf(v) \in {"A", "B"} /\ SlotOf(v) # SlotOf(o)
        BY <1>1, PairSlots
      <3>7. slots'[SlotOf(v)] = slots[SlotOf(v)]
        BY <1>2, <2>3, <3>5, <3>6 DEF SlotsAfterCut, JournalWrites
      <3>8. CoveredBy(n, g)'
        BY <2>1, <3>3, <3>7 DEF CoveredBy, Holds
      <3> QED BY <1>1, <3>8
    <2>4. CASE pc \in {"verify", "notePublished", "clear"}
      <3>1. Missing = {}
        BY <2>4 DEF CoverInv, ShelfInv, ControlInv, PublishSteps
      <3> QED BY <1>1, <3>1
    <2>5. CASE pc \notin JournalWrites
      <3>1. slots' = slots
        BY <2>5 DEF SlotsAfterCut
      <3>2. CoveredBy(n, g)'
        BY <2>1, <3>1, CoverKept
      <3> QED BY <1>1, <3>2
    <2> QED BY <1>4, <2>3, <2>4, <2>5 DEF JournalWrites, PublishWrites
  <1> QED BY <1>3, <1>4

(* A step that touches neither the books nor the journal nor a backup that *)
(* covers one keeps the cover.                                             *)
LEMMA UntouchedKeepsCover ==
    ASSUME CoverInv, UNCHANGED <<books, slots, last, gap>>, pc # "noteOld",
           UNCHANGED backup \/ Missing = {}
    PROVE  Missing' = Missing /\ CoveredInv'
  <1>1. Missing' = Missing
    BY DEF Missing
  <1>2. ASSUME NEW n \in Missing PROVE \E g \in Gens : CoveredBy(n, g)'
    <2>1. UNCHANGED backup
      BY <1>2
    <2>2. PICK g \in Gens : CoveredBy(n, g)
      BY <1>2 DEF CoverInv, CoveredInv
    <2> QED BY <2>1, <2>2, CoverKept
  <1> QED BY <1>1, <1>2 DEF CoveredInv

(* The inductive invariant holds in every behaviour.                       *)
LEMMA CoverInvariant == Spec => []CoverInv
<1>1. Init => CoverInv
  BY DEF Init, CoverInv, ControlInv, ShelfInv, CoveredInv, Missing,
         PublishSteps, RecoverySteps, BeforeExposure
<1>2. TypeInv /\ CoverInv /\ [Next]_vars => CoverInv'
  <2> SUFFICES ASSUME TypeInv, CoverInv, [Next]_vars PROVE CoverInv'
    OBVIOUS
  <2> USE DEF PublishSteps, RecoverySteps, BeforeExposure
  <2>0. /\ books \in [Names -> File] /\ moved \in [Names -> File]
        /\ stage \in [Gens -> File] /\ backup \in [Gens -> File]
        /\ last \in [Names -> File] /\ gap \in SUBSET Names
        /\ slots \in [{"A", "B"} -> Record \cup {Garbage}]
        /\ active.name \in Names /\ active.gen \in Gens
        /\ pending \in Record
        /\ pending.name \in Names /\ pending.gen \in Gens
        /\ impaired \in BOOLEAN
        /\ TypeOK
    BY DEF TypeInv, TypeOK, Record
  <2>00. ControlInv /\ ShelfInv /\ CoveredInv
    BY DEF CoverInv
  <2>000. \A n \in Names \ gap : last[n] # NoFile => books[n] \in {last[n], NoFile}
    BY <2>00 DEF ShelfInv
  \* A step outside the recovery that leaves BOOKS and the journal alone.
  <2>a. ASSUME UNCHANGED <<books, slots, recovered, last, gap>>,
               pc \notin {"noteOld", "expose"} \cup RecoverySteps,
               pc' \notin RecoverySteps,
               pc' \in BeforeExposure => pc \in BeforeExposure /\ UNCHANGED active,
               pc' \in {"receiving"} \cup PublishSteps => recovered,
               pc = "wedged" => pc' = "wedged",
               UNCHANGED backup \/ Missing = {}
        PROVE  CoverInv'
    <3>1. Missing' = Missing /\ CoveredInv'
      BY <2>a, UntouchedKeepsCover
    <3>2. ControlInv'
      BY <2>a, <2>00 DEF ControlInv, Holds
    <3>3. ShelfInv'
      BY <2>a, <2>00, <3>1 DEF ShelfInv
    <3> QED BY <3>1, <3>2, <3>3 DEF CoverInv
  \* A failing or cut journal write, after which nothing is under way.
  <2>b. ASSUME slots' \in SlotsAfterCut(pc), gap' = GapAfter(pc, slots'),
               UNCHANGED <<books, backup, last>>,
               \/ pc' = "wedged" /\ UNCHANGED recovered
               \/ pc' = "idle" /\ ~recovered'
        PROVE  CoverInv'
    <3>1. CoveredInv'
      BY <2>b, CutKeepsCover DEF CoveredInv
    <3>2. gap \subseteq gap'
      BY <2>b DEF GapAfter
    <3>3. ControlInv'
      BY <2>b DEF ControlInv
    <3>4. ShelfInv'
      BY <2>b, <2>000, <3>2 DEF ShelfInv
    <3> QED BY <3>1, <3>3, <3>4 DEF CoverInv
  <2>1. ASSUME NEW n \in Names, NEW c \in Contents, NEW fails \in BOOLEAN,
               Begin(n, c, fails)
        PROVE  CoverInv'
    BY <2>1, <2>a DEF Begin, history
  <2>2. CASE ReceiveAll
    BY <2>2, <2>00, <2>a DEF ReceiveAll, ram, history, ControlInv
  <2>3. CASE Commit
    <3>1. recovered
      BY <2>3, <2>00 DEF Commit, ControlInv
    <3> QED BY <2>3, <2>a, <3>1 DEF Commit, card, history
  <2>4. ASSUME NEW fails \in BOOLEAN, Abort(fails) PROVE CoverInv'
    BY <2>4, <2>a DEF Abort, history
  <2>5. CASE WriteJournal
    <3> DEFINE r == RecordAt(pc)
    <3>1. /\ pc \in JournalWrites
          /\ slots' = [slots EXCEPT ![SlotOf(r)] = r]
          /\ gap' = GapAfter(pc, slots')
          /\ pc' = After(pc)
          /\ UNCHANGED <<books, backup, recovered, active, pending, last, impaired>>
      BY <2>5 DEF WriteJournal
    <3>2. r \in Record /\ SlotOf(r) \in {"A", "B"}
      BY <3>1, RecordAtType
    <3>3. slots' \in SlotsAfterCut(pc)
      BY <3>1 DEF SlotsAfterCut
    <3>4. /\ CoveredInv'
          /\ \A n \in Missing' : n \in Missing
      BY <3>1, <3>3, CutKeepsCover DEF CoveredInv
    <3>5. gap \subseteq gap'
      BY <3>1 DEF GapAfter
    <3>6. slots'[SlotOf(r)] = r
          /\ \A s \in {"A", "B"} : s # SlotOf(r) => slots'[s] = slots[s]
      BY <2>0, <3>1, <3>2
    <3>7. \A n \in Names \ gap' : last'[n] # NoFile => books'[n] \in {last'[n], NoFile}
      BY <2>000, <3>1, <3>5
    <3>8. CASE pc = "verify"
      <4>1. r = RecordOf(active, Verified) /\ pc' = "stash"
        BY <3>1, <3>8 DEF RecordAt, After
      <4>2. recovered /\ Missing = {}
        BY <2>00, <3>8 DEF ControlInv, ShelfInv
      <4>3. RecordOf(active, Verified)' = r
        BY <3>1, <4>1 DEF RecordOf
      <4>4. Holds(RecordOf(active, Verified))'
        BY <3>6, <4>3 DEF Holds
      <4>5. ControlInv'
        BY <3>1, <4>1, <4>2, <4>4 DEF ControlInv
      <4>6. ShelfInv'
        BY <3>1, <3>4, <3>7, <4>1, <4>2 DEF ShelfInv
      <4> QED BY <3>4, <4>5, <4>6 DEF CoverInv
    <3>9. CASE pc = "noteOld"
      <4> DEFINE v == RecordOf(active, Verified)
      <4>1. r = RecordOf(active, OldMoved) /\ pc' = "expose"
        BY <3>1, <3>9 DEF RecordAt, After
      <4>2. recovered /\ slots[SlotOf(v)] = v
        BY <2>00, <3>9 DEF ControlInv, Holds
      <4>3. SlotOf(v) \in {"A", "B"} /\ SlotOf(v) # SlotOf(r)
        <5>1. v = RecordFor(active.name, active.gen, Verified)
              /\ r = RecordFor(active.name, active.gen, OldMoved)
          BY <4>1 DEF RecordOf, RecordFor
        <5> QED BY <2>0, <5>1, PairSlots
      <4>4. slots'[SlotOf(v)] = v
        BY <3>6, <4>2, <4>3
      <4>5. RecordOf(active, Verified)' = v
        BY <3>1 DEF RecordOf
      <4>6. Holds(RecordOf(active, Verified))'
        BY <4>4, <4>5 DEF Holds
      <4>7. ControlInv'
        BY <3>1, <4>1, <4>2, <4>6 DEF ControlInv
      <4>8. ShelfInv'
        BY <3>1, <3>7, <4>1, <4>2 DEF ShelfInv
      <4> QED BY <3>4, <4>7, <4>8 DEF CoverInv
    <3>10. CASE pc \in {"notePublished", "clear"}
      <4>1. pc' \in {"dropOld", "idle"}
        BY <3>1, <3>10 DEF After
      <4>2. recovered /\ Missing = {}
        BY <2>00, <3>10 DEF ControlInv, ShelfInv
      <4>3. ControlInv'
        BY <3>1, <4>1, <4>2 DEF ControlInv
      <4>4. ShelfInv'
        BY <3>1, <3>4, <3>7, <4>1, <4>2 DEF ShelfInv
      <4> QED BY <3>4, <4>3, <4>4 DEF CoverInv
    <3>11. CASE pc = "r_clear"
      <4>1. pc' = "r_next" /\ ~recovered
        BY <2>00, <3>1, <3>11 DEF After, ControlInv
      <4>2. ~impaired => Missing = {}
        BY <2>00, <3>11 DEF ShelfInv
      <4>3. ControlInv'
        BY <3>1, <4>1 DEF ControlInv
      <4>4. ShelfInv'
        BY <3>1, <3>4, <3>7, <4>1, <4>2 DEF ShelfInv
      <4> QED BY <3>4, <4>3, <4>4 DEF CoverInv
    <3> QED BY <3>1, <3>8, <3>9, <3>10, <3>11 DEF JournalWrites, PublishWrites
  <2>6. ASSUME NEW fails \in BOOLEAN, Stash(fails) PROVE CoverInv'
    <3>1. recovered
      BY <2>6, <2>00 DEF Stash, ControlInv
    <3> QED BY <2>6, <2>a, <3>1 DEF Stash, history
  <2>7. ASSUME NEW fails \in BOOLEAN, DropStale(fails) PROVE CoverInv'
    <3>1. recovered /\ Missing = {}
      BY <2>7, <2>00 DEF DropStale, ControlInv, ShelfInv
    <3> QED BY <2>7, <2>a, <3>1 DEF DropStale, history
  <2>8. CASE Retire
    <3>1. recovered /\ Missing = {}
      BY <2>8, <2>00 DEF Retire, ControlInv, ShelfInv
    <3>2. CASE backup[active.gen] # NoFile
      BY <2>8, <2>a, <3>1, <3>2 DEF Retire, history
    <3>3. CASE backup[active.gen] = NoFile
      <4>1. /\ pc = "retire" /\ pc' = "noteOld"
            /\ backup'[active.gen] = books[active.name]
            /\ books' = [books EXCEPT ![active.name] = NoFile]
            /\ UNCHANGED <<slots, recovered, active, last, gap>>
        BY <2>0, <2>8, <3>3 DEF Retire, history
      <4>2. \A n \in Missing' : n = active.name /\ backup'[active.gen] = last[n]
        <5> SUFFICES ASSUME NEW n \in Missing'
                     PROVE  n = active.name /\ backup'[active.gen] = last[n]
          OBVIOUS
        <5>1. n \in Names \ gap /\ last[n] # NoFile /\ books'[n] = NoFile
          BY <4>1 DEF Missing
        <5>2. books[n] # NoFile
          BY <3>1, <5>1 DEF Missing
        <5>3. books[n] = last[n]
          BY <2>000, <5>1, <5>2
        <5>4. n = active.name
          BY <2>0, <4>1, <5>1, <5>2
        <5> QED BY <4>1, <5>3, <5>4
      <4>3. CoveredInv'
        BY <4>1, <4>2 DEF CoveredInv
      <4>4. ControlInv'
        <5>1. Holds(RecordOf(active, Verified))
          BY <2>00, <4>1 DEF ControlInv
        <5> QED BY <3>1, <4>1, <5>1 DEF ControlInv, Holds, RecordOf, SlotOf
      <4>5. ShelfInv'
        BY <2>0, <2>000, <4>1 DEF ShelfInv
      <4> QED BY <4>3, <4>4, <4>5 DEF CoverInv
    <3> QED BY <3>2, <3>3
  <2>9. CASE Expose
    <3>1. \A n \in Missing : n = active.name
      BY <2>9, MissingIsTarget DEF Expose
    <3>2. recovered
      BY <2>9, <2>00 DEF Expose, ControlInv
    <3>3. CASE books[active.name] = NoFile
      <4>1. /\ pc' = "notePublished" /\ gap' = gap \ {active.name}
            /\ books' = [books EXCEPT ![active.name] = moved[active.name]]
            /\ last' = [last EXCEPT ![active.name] = moved[active.name]]
            /\ UNCHANGED recovered
        BY <2>9, <3>3 DEF Expose
      <4>2. Missing' = {}
        BY <2>0, <3>1, <4>1 DEF Missing
      <4>3. CoveredInv'
        BY <4>2 DEF CoveredInv
      <4>4. ControlInv'
        BY <3>2, <4>1 DEF ControlInv
      <4>5. ShelfInv'
        BY <2>0, <2>000, <4>1, <4>2 DEF ShelfInv
      <4> QED BY <4>3, <4>4, <4>5 DEF CoverInv
    <3>4. CASE books[active.name] # NoFile
      <4>1. /\ pc = "expose" /\ pc' = "wedged"
            /\ UNCHANGED <<books, slots, backup, recovered, last, gap>>
        BY <2>9, <3>4 DEF Expose, history
      <4>2. CoveredInv'
        BY <4>1, UntouchedKeepsCover
      <4>3. ControlInv' /\ ShelfInv'
        BY <2>000, <4>1 DEF ControlInv, ShelfInv
      <4> QED BY <4>2, <4>3 DEF CoverInv
    <3> QED BY <3>3, <3>4
  <2>10. ASSUME NEW fails \in BOOLEAN, ExposeFails(fails) PROVE CoverInv'
    <3>1. \A n \in Missing : n = active.name /\ backup[active.gen] = last[n]
      BY <2>10, MissingIsTarget DEF ExposeFails
    <3>2. /\ pc = "expose" /\ pc' = "wedged" /\ books[active.name] = NoFile
          /\ UNCHANGED <<slots, recovered, last, gap>>
      BY <2>10 DEF ExposeFails, history
    <3>3. CASE UNCHANGED <<books, backup>>
      <4>1. CoveredInv'
        BY <3>2, <3>3, UntouchedKeepsCover
      <4>2. ControlInv' /\ ShelfInv'
        BY <2>000, <3>2, <3>3 DEF ControlInv, ShelfInv
      <4> QED BY <4>1, <4>2 DEF CoverInv
    <3>4. CASE ~ UNCHANGED <<books, backup>>
      <4>1. /\ backup[active.gen] # NoFile
            /\ books' = [books EXCEPT ![active.name] = backup[active.gen]]
        BY <2>10, <3>4 DEF ExposeFails
      <4>2. \A n \in Names \ gap : last[n] # NoFile => books'[n] = last[n] \/ books'[n] = NoFile
        BY <2>0, <2>000, <3>1, <3>2, <4>1 DEF Missing
      <4>3. Missing' = {}
        BY <2>0, <3>1, <3>2, <4>1 DEF Missing
      <4>4. ControlInv' /\ ShelfInv' /\ CoveredInv'
        BY <3>2, <4>2, <4>3 DEF ControlInv, ShelfInv, CoveredInv
      <4> QED BY <4>4 DEF CoverInv
    <3> QED BY <3>3, <3>4
  <2>11. ASSUME NEW fails \in BOOLEAN, DropOld(fails) PROVE CoverInv'
    <3>1. recovered /\ Missing = {}
      BY <2>11, <2>00 DEF DropOld, ControlInv, ShelfInv
    <3> QED BY <2>11, <2>a, <3>1 DEF DropOld, history
  <2>12. CASE PublishFails
    BY <2>12, <2>b DEF PublishFails
  <2>13. ASSUME NEW unread \in SUBSET {"A", "B"}, StartRecovery(unread)
         PROVE  CoverInv'
    <3> DEFINE found == NewestBut(unread)
    <3>1. /\ pc = "idle" /\ ~recovered /\ impaired' = (found # Newest)
          /\ UNCHANGED <<books, backup, slots, recovered, last, gap>>
      BY <2>13 DEF StartRecovery, card, history
    <3>2. Missing' = Missing /\ CoveredInv'
      BY <3>1, UntouchedKeepsCover
    <3>3. Newest' = Newest
      BY <3>1, NewestSame
    <3>4. Missing # {} => Newest.phase = OldMoved /\ Newest # Garbage
      <4> SUFFICES ASSUME NEW n \in Missing
                   PROVE  Newest.phase = OldMoved /\ Newest # Garbage
        OBVIOUS
      <4>1. PICK g \in Gens : CoveredBy(n, g)
        BY <2>00, <3>1 DEF CoveredInv
      <4> QED BY <2>0, <4>1, CoveredFacts DEF Missing
    <3>5. CASE found = Garbage
      <4>1. pc' = "r_next"
        BY <2>13, <3>5 DEF StartRecovery
      <4>2. ~impaired' => Missing = {}
        BY <3>1, <3>4, <3>5
      <4>3. ControlInv'
        BY <3>1, <4>1 DEF ControlInv
      <4>4. ShelfInv'
        BY <2>000, <3>1, <3>2, <4>1, <4>2 DEF ShelfInv
      <4> QED BY <3>2, <4>3, <4>4 DEF CoverInv
    <3>6. CASE found # Garbage
      <4>1. pending' = found /\ found \in {slots["A"], slots["B"]}
        BY <2>13, <3>6, FoundIsStored DEF StartRecovery
      <4>2. pc' \in {"r_clear", "r_restore", "r_stage"}
        BY <2>13, <3>6 DEF StartRecovery
      <4>3. pc' = "r_restore" <=> found.phase = OldMoved
        BY <2>13, <3>6 DEF StartRecovery
      <4>4. impaired' \/ pending' = Newest
        BY <3>1, <4>1
      <4>5. ControlInv'
        BY <3>1, <3>3, <4>1, <4>2, <4>3, <4>4 DEF ControlInv
      <4>6. pc' # "r_restore" /\ ~impaired' => Missing = {}
        BY <3>1, <3>4, <4>3
      <4>7. ShelfInv'
        BY <2>000, <3>1, <3>2, <4>2, <4>6 DEF ShelfInv
      <4> QED BY <3>2, <4>5, <4>7 DEF CoverInv
    <3> QED BY <3>5, <3>6
  <2>14. ASSUME NEW fails \in BOOLEAN, Restore(fails) PROVE CoverInv'
    <3>1. /\ pc = "r_restore" /\ pc' = "r_stage" /\ impaired' = (impaired \/ fails)
          /\ UNCHANGED <<slots, recovered, pending, last, gap>>
      BY <2>14 DEF Restore, history
    <3>2. /\ ~recovered /\ pending.phase = OldMoved
          /\ pending \in {slots["A"], slots["B"]}
          /\ impaired \/ pending = Newest
      BY <2>00, <3>1 DEF ControlInv
    <3>3. Newest' = Newest
      BY <3>1, NewestSame
    <3>4. ControlInv'
      BY <3>1, <3>2, <3>3 DEF ControlInv
    <3>5. CASE fails
      <4>1. UNCHANGED <<books, backup>> /\ impaired'
        BY <2>14, <3>1, <3>5 DEF Restore
      <4>2. CoveredInv'
        BY <3>1, <4>1, UntouchedKeepsCover
      <4>3. ShelfInv'
        BY <2>000, <3>1, <3>2, <4>1 DEF ShelfInv
      <4> QED BY <3>4, <4>2, <4>3 DEF CoverInv
    <3>6. CASE ~fails
      <4>1. \A n \in Missing : n = pending.name /\ backup[pending.gen] = last[n]
        <5> SUFFICES ASSUME NEW n \in Missing
                     PROVE  n = pending.name /\ backup[pending.gen] = last[n]
          OBVIOUS
        <5>1. PICK g \in Gens : CoveredBy(n, g)
          BY <2>00, <3>1 DEF CoveredInv
        <5>2. /\ \A s \in {"A", "B"} :
                     slots[s] \in {RecordFor(n, g, Verified), RecordFor(n, g, OldMoved)}
              /\ backup[g] = last[n]
          BY <2>0, <5>1, CoveredFacts DEF Missing
        <5>3. pending = RecordFor(n, g, OldMoved)
          BY <3>2, <5>2 DEF RecordFor
        <5> QED BY <5>2, <5>3 DEF RecordFor
      <4>2. books' = IF books[pending.name] = NoFile
                     THEN [books EXCEPT ![pending.name] = backup[pending.gen]]
                     ELSE books
        BY <2>14, <3>6 DEF Restore
      <4>3. Missing' = {}
        BY <2>0, <3>1, <4>1, <4>2 DEF Missing
      <4>4. \A n \in Names \ gap : last[n] # NoFile => books'[n] = last[n] \/ books'[n] = NoFile
        BY <2>0, <2>000, <4>1, <4>2 DEF Missing
      <4>5. ShelfInv' /\ CoveredInv'
        BY <3>1, <4>3, <4>4 DEF ShelfInv, CoveredInv
      <4> QED BY <3>4, <4>5 DEF CoverInv
    <3> QED BY <3>5, <3>6
  <2>15. ASSUME NEW fails \in BOOLEAN, Sweep(fails) PROVE CoverInv'
    <3>1. /\ pc \in {"r_stage", "r_moved", "r_backup"}
          /\ pc' \in {"r_moved", "r_backup", "r_clear"}
          /\ pc' = "r_backup" => pending.phase = Published
          /\ pc = "r_backup" \/ UNCHANGED backup
          /\ UNCHANGED <<books, slots, recovered, pending, last, gap, impaired>>
      BY <2>15 DEF Sweep, history
    <3>2. /\ ~recovered /\ pending \in {slots["A"], slots["B"]}
          /\ impaired \/ pending = Newest
          /\ pc = "r_backup" => pending.phase = Published
      BY <2>00, <3>1 DEF ControlInv
    <3>3. Newest' = Newest
      BY <3>1, NewestSame
    <3>4. pc = "r_backup" => Missing = {}
      <4> SUFFICES ASSUME pc = "r_backup", NEW n \in Missing PROVE FALSE
        OBVIOUS
      <4>1. PICK g \in Gens : CoveredBy(n, g)
        BY <2>00 DEF CoveredInv
      <4>2. \A s \in {"A", "B"} :
                slots[s] \in {RecordFor(n, g, Verified), RecordFor(n, g, OldMoved)}
        BY <2>0, <4>1, CoveredFacts DEF Missing
      <4> QED BY <3>2, <4>2 DEF RecordFor
    <3>5. Missing' = Missing /\ CoveredInv'
      BY <3>1, <3>4, UntouchedKeepsCover
    <3>6. ControlInv'
      BY <3>1, <3>2, <3>3 DEF ControlInv
    <3>7. ~impaired => Missing = {}
      BY <2>00, <3>1 DEF ShelfInv
    <3>8. ShelfInv'
      BY <2>000, <3>1, <3>2, <3>5, <3>7 DEF ShelfInv
    <3> QED BY <3>5, <3>6, <3>8 DEF CoverInv
  <2>16. ASSUME NEW unread \in SUBSET {"A", "B"}, FinishRecovery(unread)
         PROVE  CoverInv'
    <3>1. /\ pc = "r_next" /\ pc' = "idle" /\ gap' = gap \cup Overlooked
          /\ recovered' = TRUE
          /\ UNCHANGED <<books, backup, slots, last>>
      BY <2>16 DEF FinishRecovery
    <3>2. Missing' = {}
      <4> SUFFICES ASSUME NEW n \in Missing' PROVE FALSE
        OBVIOUS
      <4>1. n \in Missing /\ n \notin Overlooked /\ n \in Names /\ books[n] = NoFile
        BY <3>1 DEF Missing
      <4>2. impaired
        BY <2>00, <3>1, <4>1 DEF ShelfInv
      <4>3. PICK g \in Gens : CoveredBy(n, g)
        BY <2>00, <3>1, <4>1 DEF CoveredInv
      <4>4. Newest # Garbage /\ Newest.phase = OldMoved /\ Newest.name = n
        BY <2>0, <4>1, <4>3, CoveredFacts
      <4> QED BY <4>1, <4>2, <4>4 DEF Overlooked
    <3>3. ControlInv' /\ CoveredInv'
      BY <3>1, <3>2 DEF ControlInv, CoveredInv
    <3>4. ShelfInv'
      BY <2>000, <3>1, <3>2 DEF ShelfInv
    <3> QED BY <3>3, <3>4 DEF CoverInv
  <2>17. CASE RecoveryFails
    <3>1. ~recovered
      BY <2>17, <2>00 DEF RecoveryFails, ControlInv
    <3> QED BY <2>17, <2>b, <3>1 DEF RecoveryFails
  <2>18. ASSUME NEW n \in Names, Delete(n) PROVE CoverInv'
    <3>1. /\ pc \in {"idle", "receiving", "wedged"}
          /\ books' = [books EXCEPT ![n] = NoFile]
          /\ last' = [last EXCEPT ![n] = NoFile]
          /\ UNCHANGED <<backup, slots, recovered, active, pending, pc, gap>>
      BY <2>18 DEF Delete, ram
    <3>2. \A m \in Missing' : m \in Missing /\ last'[m] = last[m]
      BY <2>0, <3>1 DEF Missing
    <3>3. CoveredInv'
      <4> SUFFICES ASSUME NEW m \in Missing' PROVE \E g \in Gens : CoveredBy(m, g)'
        BY DEF CoveredInv
      <4>1. m \in Missing /\ last'[m] = last[m]
        BY <3>2
      <4>2. PICK g \in Gens : CoveredBy(m, g)
        BY <2>00, <3>1, <4>1 DEF CoveredInv
      <4>3. CoveredBy(m, g)'
        BY <3>1, <4>1, <4>2 DEF CoveredBy, Holds
      <4> QED BY <4>3
    <3>4. ControlInv'
      BY <2>00, <3>1 DEF ControlInv
    <3>5. ShelfInv'
      BY <2>0, <2>00, <2>000, <3>1, <3>2 DEF ShelfInv
    <3> QED BY <3>3, <3>4, <3>5 DEF CoverInv
  <2>19. CASE Crash
    BY <2>19, <2>b DEF Crash
  <2>20. CASE UNCHANGED vars
    <3>1. UNCHANGED <<books, backup, slots, recovered, active, pending, pc,
                      last, gap, impaired>>
      BY <2>20 DEF vars, card, ram, history
    <3>2. Newest' = Newest /\ Missing' = Missing
      BY <3>1, NewestSame DEF Missing
    <3>3. ControlInv'
      BY <2>00, <3>1, <3>2 DEF ControlInv, Holds, RecordOf, SlotOf
    <3>4. ShelfInv'
      BY <2>00, <3>1, <3>2 DEF ShelfInv
    <3>5. CoveredInv'
      BY <2>00, <3>1, <3>2 DEF CoveredInv, CoveredBy, Holds
    <3> QED BY <3>3, <3>4, <3>5 DEF CoverInv
  <2> QED
    BY <2>1, <2>2, <2>3, <2>4, <2>5, <2>6, <2>7, <2>8, <2>9, <2>10, <2>11,
       <2>12, <2>13, <2>14, <2>15, <2>16, <2>17, <2>18, <2>19, <2>20
    DEF Next
<1> QED BY <1>1, <1>2, TypeInvariant, PTL DEF Spec

(* The pair of records of a missing book is what a recovery reads.         *)
LEMMA CoveredMeansNewest ==
    ASSUME TypeInv, CoverInv
    PROVE  MissingIsCovered
<1> SUFFICES ASSUME NEW n \in Missing,
                    ~ (pc = "noteOld" /\ active.name = n /\ backup[active.gen] = last[n])
             PROVE  /\ Newest # Garbage /\ Newest.phase = OldMoved
                    /\ Newest.name = n /\ backup[Newest.gen] = last[n]
  BY DEF MissingIsCovered, Missing
<1>1. PICK g \in Gens : CoveredBy(n, g)
  BY DEF CoverInv, CoveredInv
<1> QED BY <1>1, CoveredFacts DEF Missing, TypeInv

(* A book that an unfinished replacement took out of BOOKS stays covered   *)
(* by the record a recovery would act on, whatever is cut, whichever       *)
(* operation fails and whichever slots a recovery could not read, unless   *)
(* it was lost before that record was durable or that very recovery        *)
(* overlooked it because of a card error.                                  *)
THEOREM MissingAlwaysCovered == Spec => []MissingIsCovered
<1>1. TypeInv /\ CoverInv => MissingIsCovered
  BY CoveredMeansNewest
<1> QED BY <1>1, TypeInvariant, CoverInvariant, PTL

(* After a successful recovery every committed book is back with its       *)
(* latest content, with the same two exceptions.                           *)
THEOREM ShelfAlwaysRecovered == Spec => []RecoveredShelf
<1>1. CoverInv => RecoveredShelf
  BY DEF CoverInv, ShelfInv, RecoveredShelf, Missing
<1> QED BY <1>1, CoverInvariant, PTL

(***************************************************************************)
(* The refinement of BookShelf.                                            *)
(***************************************************************************)

(* The content that waits in TMP under the name of the target is the one   *)
(* that was offered, from the rename of the stage to the rename into BOOKS.*)
OfferInv ==
    pc \in {"dropStale", "retire", "noteOld", "expose"} =>
        moved[active.name] = active.content

LEMMA OfferInvariant == Spec => [](CompleteInv /\ OfferInv)
<1>1. Init => OfferInv
  BY DEF Init, OfferInv
<1>2. TypeInv /\ CompleteInv /\ OfferInv /\ [Next]_vars => OfferInv'
  <2> SUFFICES ASSUME TypeInv, CompleteInv, OfferInv, [Next]_vars PROVE OfferInv'
    OBVIOUS
  <2> USE DEF OfferInv
  <2>1. ASSUME UNCHANGED <<moved, active>>,
               pc' \in {"dropStale", "retire", "noteOld", "expose"} =>
                   pc \in {"dropStale", "retire", "noteOld", "expose"}
        PROVE  OfferInv'
    BY <2>1
  <2>2. ASSUME pc' \notin {"dropStale", "retire", "noteOld", "expose"} PROVE OfferInv'
    BY <2>2
  <2>3. ASSUME NEW fails \in BOOLEAN, Stash(fails) PROVE OfferInv'
    <3>1. active.name \in Names /\ moved \in [Names -> File]
          /\ stage[active.gen] = active.content
      BY <2>3 DEF TypeInv, TypeOK, CompleteInv, Stash
    <3> QED BY <2>3, <3>1 DEF Stash
  <2>4. CASE WriteJournal
    BY <2>1, <2>4 DEF WriteJournal, After, JournalWrites, PublishWrites
  <2>5. ASSUME NEW unread \in SUBSET {"A", "B"},
               StartRecovery(unread) \/ FinishRecovery(unread)
        PROVE  OfferInv'
    BY <2>2, <2>5 DEF StartRecovery, FinishRecovery
  <2>6. ASSUME NEW fails \in BOOLEAN, Sweep(fails) PROVE OfferInv'
    BY <2>2, <2>6 DEF Sweep
  <2>7. CASE \E n \in Names, c \in Contents, fails \in BOOLEAN : Begin(n, c, fails)
    BY <2>2, <2>7 DEF Begin
  <2>8. CASE \/ ReceiveAll \/ Commit \/ Retire \/ Expose \/ PublishFails
             \/ RecoveryFails \/ Crash
             \/ \E fails \in BOOLEAN : \/ Abort(fails) \/ DropStale(fails)
                                       \/ ExposeFails(fails) \/ DropOld(fails)
                                       \/ Restore(fails)
             \/ \E n \in Names : Delete(n)
    BY <2>1, <2>2, <2>8
    DEF ReceiveAll, Commit, Retire, Expose, PublishFails, RecoveryFails, Crash,
        Abort, DropStale, ExposeFails, DropOld, Restore, Delete, ram
  <2>9. CASE UNCHANGED vars
    BY <2>9 DEF vars, card, ram
  <2> QED BY <2>3, <2>4, <2>5, <2>6, <2>7, <2>8, <2>9 DEF Next
<1>3. Spec => []CompleteInv
  BY CompleteInvariant
<1> QED BY <1>1, <1>2, <1>3, TypeInvariant, PTL DEF Spec

(* What a recovery would show of a name is its last committed content,     *)
(* unless the name is one of the exceptions: this is where the journal, the*)
(* backup and BOOKS meet, and what every step below is compared with.      *)
ShownIsLast ==
    ShownBooks = [n \in Names |-> IF n \in gap \cup early THEN NoFile ELSE last[n]]

LEMMA CoveredIsShown ==
    ASSUME TypeInv, CoverInv
    PROVE  ShownIsLast
<1>1. ASSUME NEW n \in Names, n \notin gap \cup early, last[n] # NoFile
      PROVE  ShownAfterRecovery(n) = last[n]
  <2>1. CASE books[n] # NoFile
    BY <1>1, <2>1 DEF CoverInv, ShelfInv, ShownAfterRecovery
  <2>2. CASE books[n] = NoFile
    <3>1. n \in Missing
      BY <1>1, <2>2 DEF Missing
    <3>2. CASE pc = "noteOld" /\ active.name = n
      <4>1. backup[active.gen] = last[n]
        BY <3>1, <3>2, MissingIsTarget DEF BeforeExposure
      <4> QED BY <2>2, <3>2, <4>1 DEF ShownAfterRecovery
    <3>3. CASE ~ (pc = "noteOld" /\ active.name = n)
      <4>1. /\ Newest # Garbage /\ Newest.phase = OldMoved /\ Newest.name = n
            /\ backup[Newest.gen] = last[n]
        BY <1>1, <2>2, <3>3, CoveredMeansNewest DEF MissingIsCovered
      <4> QED BY <2>2, <3>3, <4>1 DEF ShownAfterRecovery
    <3> QED BY <3>2, <3>3
  <2> QED BY <2>1, <2>2
<1> QED BY <1>1 DEF ShownBooks, ShownIsLast

RefinementInv == TypeInv /\ CoverInv /\ CompleteInv /\ OfferInv /\ ShownIsLast

LEMMA RefinementInvariant == Spec => []RefinementInv
<1>1. TypeInv /\ CoverInv => ShownIsLast
  BY CoveredIsShown
<1> QED BY <1>1, TypeInvariant, CoverInvariant, OfferInvariant, PTL DEF RefinementInv

(* Steps that keep the history keep the shelf.                             *)
LEMMA KeepingHistory ==
    ASSUME ShownIsLast, ShownIsLast', UNCHANGED history
    PROVE  ShownBooks' = ShownBooks
BY DEF ShownIsLast, history

(* What a step that may lose a book does to the shelf: a name that is added*)
(* to the lost ones shows nothing from then on, and nothing else changes.  *)
LEMMA LosesOne ==
    ASSUME ShownIsLast, ShownIsLast', NEW n \in Names,
           gap' = gap \/ gap' = gap \cup {n}, UNCHANGED <<last, early>>
    PROVE  \/ ShownBooks' = ShownBooks
           \/ ShownBooks' = [ShownBooks EXCEPT ![n] = NoFile]
<1>1. CASE gap' = gap
  BY <1>1 DEF ShownIsLast
<1>2. CASE gap' = gap \cup {n}
  BY <1>2 DEF ShownIsLast
<1> QED BY <1>1, <1>2

(* A recovery overlooks at most one book.                                  *)
LEMMA OneOverlooked ==
    ASSUME TypeOK
    PROVE  Overlooked = {} \/ \E n \in Names : Overlooked = {n}
BY NewestType DEF Overlooked, Record

(* A cut or failed journal write loses at most the target of the upload, or*)
(* the book that its recovery overlooked.                                  *)
LEMMA CutLosesOne ==
    ASSUME RefinementInv, ShownIsLast', gap' = GapAfter(pc, slots'),
           UNCHANGED <<last, early>>
    PROVE  \/ ShownBooks' = ShownBooks
           \/ /\ pc = "noteOld"
              /\ ShownBooks' = [ShownBooks EXCEPT ![active.name] = NoFile]
           \/ /\ pc = "r_clear"
              /\ \E n \in Names : ShownBooks' = [ShownBooks EXCEPT ![n] = NoFile]
<1>1. active.name \in Names /\ TypeOK /\ ShownIsLast
  BY DEF RefinementInv, TypeInv, TypeOK
<1>2. \/ gap' = gap
      \/ pc = "noteOld" /\ gap' = gap \cup {active.name}
      \/ pc = "r_clear" /\ gap' = gap \cup Overlooked
  BY DEF GapAfter
<1>3. CASE gap' = gap
  BY <1>1, <1>3 DEF ShownIsLast
<1>4. CASE pc = "noteOld" /\ gap' = gap \cup {active.name}
  BY <1>1, <1>4, LosesOne
<1>5. CASE pc = "r_clear" /\ gap' = gap \cup Overlooked
  <2>1. CASE Overlooked = {}
    BY <1>1, <1>5, <2>1, LosesOne
  <2>2. ASSUME NEW n \in Names, Overlooked = {n}
        PROVE  \/ ShownBooks' = ShownBooks
               \/ ShownBooks' = [ShownBooks EXCEPT ![n] = NoFile]
    BY <1>1, <1>5, <2>2, LosesOne
  <2> QED BY <1>1, <1>5, <2>1, <2>2, OneOverlooked
<1> QED BY <1>2, <1>3, <1>4, <1>5

(* The implementation of the abstract shelf, step by step.                 *)
LEMMA StepIsShelfStep ==
    ASSUME RefinementInv, RefinementInv', [Next]_vars
    PROVE  [Shelf!Next]_<<ShownBooks, OfferedUpload>>
<1> USE DEF OfferedUpload, Shelf!NoOffer
<1>0. /\ active.name \in Names /\ pending.name \in Names
      /\ pc \in {"receiving"} \cup PublishSteps => active.content \in Contents
      /\ last \in [Names -> File] /\ ShownIsLast /\ ShownIsLast'
  BY DEF RefinementInv, TypeInv, TypeOK, Record
<1>1. ASSUME OfferedUpload' = Shelf!NoOffer, ShownBooks' = ShownBooks
      PROVE  Shelf!Next
  BY <1>1 DEF Shelf!Next, Shelf!Withdraw
<1>2. ASSUME OfferedUpload' = OfferedUpload, UNCHANGED history
      PROVE  UNCHANGED <<ShownBooks, OfferedUpload>>
  BY <1>0, <1>2, KeepingHistory
<1>3. ASSUME OfferedUpload' = Shelf!NoOffer, gap' = GapAfter(pc, slots'),
             UNCHANGED <<last, early>>
      PROVE  Shelf!Next
  <2>1. CASE ShownBooks' = ShownBooks
    BY <1>1, <1>3, <2>1
  <2>2. CASE pc = "noteOld" /\ ShownBooks' = [ShownBooks EXCEPT ![active.name] = NoFile]
    <3>1. OfferedUpload = [name |-> active.name, content |-> active.content]
          /\ active.content # NoFile
      BY <1>0, <2>2, ConstantsAssumption DEF PublishSteps
    <3> QED BY <1>3, <2>2, <3>1 DEF Shelf!Next, Shelf!Lose
  <2>3. CASE /\ pc = "r_clear"
             /\ \E n \in Names : ShownBooks' = [ShownBooks EXCEPT ![n] = NoFile]
    BY <1>3, <2>3 DEF Shelf!Next, Shelf!Remove
  <2> QED BY <1>0, <1>3, <2>1, <2>2, <2>3, CutLosesOne
<1>4. ASSUME NEW n \in Names, NEW c \in Contents, NEW fails \in BOOLEAN,
             Begin(n, c, fails)
      PROVE  UNCHANGED <<ShownBooks, OfferedUpload>>
  BY <1>2, <1>4 DEF Begin
<1>5. CASE ReceiveAll
  BY <1>2, <1>5 DEF ReceiveAll, ram
<1>6. CASE Commit
  <2>1. ShownBooks' = ShownBooks
    BY <1>0, <1>6, KeepingHistory DEF Commit
  <2>2. CASE pc' = "verify"
    BY <1>0, <1>6, <2>1, <2>2 DEF Commit, Shelf!Next, Shelf!Offer, PublishSteps
  <2>3. CASE pc' = "wedged"
    BY <1>1, <2>1, <2>3
  <2> QED BY <1>6, <2>2, <2>3 DEF Commit
<1>7. ASSUME NEW fails \in BOOLEAN, Abort(fails)
      PROVE  UNCHANGED <<ShownBooks, OfferedUpload>>
  BY <1>2, <1>7 DEF Abort
<1>8. CASE WriteJournal
  <2>1. CASE pc \in {"verify", "noteOld"}
    <3>1. slots'[SlotOf(RecordAt(pc))] = RecordAt(pc)
      BY <1>8, <2>1, RecordAtType DEF WriteJournal, RefinementInv, TypeInv, TypeOK
    <3>2. gap' = gap
      BY <1>8, <2>1, <3>1 DEF WriteJournal, GapAfter
    <3> QED BY <1>2, <1>8, <2>1, <3>2 DEF WriteJournal, After, history
  <2>2. CASE pc \in {"notePublished", "clear", "r_clear"}
    BY <1>3, <1>8, <2>2 DEF WriteJournal, After
  <2> QED BY <1>8, <2>1, <2>2 DEF WriteJournal, JournalWrites, PublishWrites
<1>9. ASSUME NEW fails \in BOOLEAN,
             Stash(fails) \/ DropStale(fails) \/ Retire \/ ExposeFails(fails)
      PROVE  [Shelf!Next]_<<ShownBooks, OfferedUpload>>
  <2>1. ShownBooks' = ShownBooks
    BY <1>0, <1>9, KeepingHistory DEF Stash, DropStale, Retire, ExposeFails
  <2>2. OfferedUpload' \in {OfferedUpload, Shelf!NoOffer}
    BY <1>9 DEF Stash, DropStale, Retire, ExposeFails
  <2> QED BY <1>1, <2>1, <2>2
<1>10. CASE Expose
  <2>1. CASE books[active.name] # NoFile
    <3>1. ShownBooks' = ShownBooks
      BY <1>0, <1>10, <2>1, KeepingHistory DEF Expose
    <3> QED BY <1>1, <1>10, <2>1, <3>1 DEF Expose
  <2>2. CASE books[active.name] = NoFile
    <3>1. /\ last' = [last EXCEPT ![active.name] = active.content]
          /\ gap' = gap \ {active.name} /\ early' = early \ {active.name}
          /\ OfferedUpload = [name |-> active.name, content |-> active.content]
          /\ OfferedUpload' = Shelf!NoOffer
      BY <1>10, <2>2 DEF Expose, RefinementInv, OfferInv
    <3>2. active.content # NoFile
      BY <1>0, <1>10, ConstantsAssumption DEF Expose, PublishSteps
    <3>3. ShownBooks' = [ShownBooks EXCEPT ![active.name] = active.content]
      BY <1>0, <3>1 DEF ShownIsLast
    <3> QED BY <3>1, <3>2, <3>3 DEF Shelf!Next, Shelf!Put
  <2> QED BY <2>1, <2>2
<1>11. ASSUME NEW fails \in BOOLEAN, DropOld(fails)
       PROVE  UNCHANGED <<ShownBooks, OfferedUpload>>
  BY <1>2, <1>11 DEF DropOld
<1>12. CASE PublishFails
  BY <1>3, <1>12 DEF PublishFails
<1>13. ASSUME NEW unread \in SUBSET {"A", "B"}, StartRecovery(unread)
       PROVE  Shelf!Next
  <2>1. ShownBooks' = ShownBooks
    BY <1>0, <1>13, KeepingHistory DEF StartRecovery
  <2>2. CASE pc' = "r_restore"
    <3>1. pending'.name \in Names
      BY DEF RefinementInv, TypeInv, TypeOK, Record
    <3> QED BY <1>13, <2>1, <2>2, <3>1 DEF StartRecovery, Shelf!Next, Shelf!Offer
  <2>3. CASE pc' # "r_restore"
    BY <1>1, <1>13, <2>1, <2>3 DEF StartRecovery
  <2> QED BY <2>2, <2>3
<1>14. ASSUME NEW fails \in BOOLEAN, Restore(fails) PROVE Shelf!Next
  <2>1. ShownBooks' = ShownBooks
    BY <1>0, <1>14, KeepingHistory DEF Restore
  <2> QED BY <1>1, <1>14, <2>1 DEF Restore
<1>15. ASSUME NEW fails \in BOOLEAN, Sweep(fails)
       PROVE  UNCHANGED <<ShownBooks, OfferedUpload>>
  BY <1>2, <1>15 DEF Sweep
<1>16. ASSUME NEW unread \in SUBSET {"A", "B"}, FinishRecovery(unread)
       PROVE  Shelf!Next
  <2>1. /\ OfferedUpload = Shelf!NoOffer /\ OfferedUpload' = Shelf!NoOffer
        /\ gap' = gap \cup Overlooked /\ UNCHANGED <<last, early>>
        /\ TypeOK
    BY <1>16 DEF FinishRecovery, RefinementInv, TypeInv
  <2>2. CASE Overlooked = {}
    BY <1>0, <1>1, <2>1, <2>2, KeepingHistory DEF history
  <2>3. ASSUME NEW n \in Names, Overlooked = {n} PROVE Shelf!Next
    <3>1. CASE ShownBooks' = ShownBooks
      BY <1>1, <2>1, <3>1
    <3>2. CASE ShownBooks' = [ShownBooks EXCEPT ![n] = NoFile]
      BY <2>1, <3>2 DEF Shelf!Next, Shelf!Remove
    <3> QED BY <1>0, <2>1, <2>3, <3>1, <3>2, LosesOne
  <2> QED BY <2>1, <2>2, <2>3, OneOverlooked
<1>17. CASE RecoveryFails
  BY <1>3, <1>17 DEF RecoveryFails
<1>18. ASSUME NEW n \in Names, Delete(n) PROVE Shelf!Next
  <2>1. ShownBooks' = [ShownBooks EXCEPT ![n] = NoFile]
    BY <1>0, <1>18 DEF ShownIsLast, Delete
  <2>2. OfferedUpload = Shelf!NoOffer /\ OfferedUpload' = OfferedUpload
    BY <1>18 DEF Delete, ram
  <2> QED BY <2>1, <2>2 DEF Shelf!Next, Shelf!Remove
<1>19. CASE Crash
  BY <1>3, <1>19 DEF Crash
<1>20. CASE UNCHANGED vars
  BY <1>2, <1>20 DEF vars, ram
<1> QED
  BY <1>4, <1>5, <1>6, <1>7, <1>8, <1>9, <1>10, <1>11, <1>12, <1>13, <1>14,
     <1>15, <1>16, <1>17, <1>18, <1>19, <1>20
  DEF Next

(* The journaled replacement implements the abstract shelf: for every set  *)
(* of books and any number of resets and failing card operations, an upload*)
(* appears at once and complete, and only its own target is ever touched.  *)
THEOREM ShelfImplemented == Spec => ImplementsShelf
<1>1. Init => Shelf!Init
  BY DEF Init, Shelf!Init, Shelf!NoOffer, OfferedUpload, ShownBooks, ShownAfterRecovery
<1>2. RefinementInv /\ RefinementInv' /\ [Next]_vars
          => [Shelf!Next]_<<ShownBooks, OfferedUpload>>
  BY StepIsShelfStep
<1> QED BY <1>1, <1>2, RefinementInvariant, PTL DEF Spec, ImplementsShelf, Shelf!Spec
============================================================================
