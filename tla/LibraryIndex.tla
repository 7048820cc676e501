---------------------------- MODULE LibraryIndex ----------------------------
(***************************************************************************)
(* The library index: the scan of the books, their external sort, the      *)
(* publication of the index in one of two slots, its selection, and the    *)
(* menu of the display that shows a window of it.                          *)
(*                                                                         *)
(* Source: library*.rs, storage_owner.rs (scan, scratch, mounted files)    *)
(* and runtime/{library_refresh_task,mounted_display_task,                 *)
(* mounted_reader_io}.rs of the firmware.                                  *)
(*                                                                         *)
(* A book is its number in the order of the names.  A request of the       *)
(* library task, what the owner does for it and what the client does with  *)
(* the answer are one action: the client is a local variable of the task,  *)
(* and the owner serves one request at a time.  A CRC is the sequence of   *)
(* records it was computed over.                                           *)
(***************************************************************************)
EXTENDS Naturals, SequencesExt, FiniteSetsExt

CONSTANTS
    Books,          \* 1 .. n, in the order of their names
    InitialDirs,    \* what may be on the card at the start, slot by slot
    DirSlots,       \* entries the books directory has room for
    Budget,         \* directory entries inspected by a scan step
    RunLength,      \* entries of a sorted run
    MaxEntries,     \* MAX_LIBRARY_ENTRIES
    Rows,           \* LIBRARY_VIEWPORT_CAPACITY, and names to prefetch
    Generations,    \* the generation is a counter modulo this
    FirstGeneration,\* generation of the index on the card at the start
    MaxActs,        \* bound: changes of the card and presses of a button
    MaxFaults,      \* bound: requests the card fails
    MaxCrashes,     \* bound: restarts
    MaxEvents       \* bound: all of these together

ASSUME ConstantsAssumption ==
    /\ Books \subseteq Nat \ {0} /\ IsFiniteSet(Books)
    /\ InitialDirs \subseteq [1 .. DirSlots -> Books \cup {0}]
    /\ DirSlots \in Nat \ {0} /\ Budget \in Nat \ {0} /\ RunLength \in Nat \ {0}
    /\ MaxEntries \in Nat /\ Rows \in Nat \ {0}
    /\ Generations \in Nat \ {0, 1} /\ FirstGeneration \in 1 .. (Generations - 1)
    /\ MaxActs \in Nat /\ MaxFaults \in Nat /\ MaxCrashes \in Nat
    /\ MaxEvents \in Nat

VARIABLES
    dir,        \* the books directory: for each slot a book or NoBook
    index,      \* the files of the two index slots
    owner,      \* the owner's scan, scratch file, mounted files and upload
    task,       \* library_refresh_task and its clients
    trigger,    \* LIBRARY_REFRESH_TRIGGER_CHANNEL
    completion, \* LIBRARY_REFRESH_COMPLETION_CHANNEL
    pending,    \* LIBRARY_REFRESH_BARRIER
    host,       \* where the diagnostic task is after a change of the card
    display,    \* the menu, its viewport, and what is prepared for it
    progress,   \* books with a record in the reader state
    acts, faults, crashes,
    stayed      \* history: books on the card and untouched since the start

card == <<dir, index, progress>>
channels == <<trigger, completion, pending>>
bounds == <<acts, faults, crashes>>
vars == <<card, owner, task, channels, host, display, bounds, stayed>>

NoBook == 0
NoSlot == "none"
Slots == {"A", "B"}
NoCursor == [slot |-> NoSlot, gen |-> 0, count |-> 0]
NoToken == [gen |-> 0, index |-> 0]

OnCard == {dir[k] : k \in 1 .. DirSlots} \ {NoBook}
InOrder(books) == SetToSortSeq(books, <)

Works == UNCHANGED faults

May == acts + faults + crashes < MaxEvents
Fails == May /\ faults < MaxFaults /\ faults' = faults + 1

(***************************************************************************)
(* An index file.  Its provisional header has no CRC.                      *)
(***************************************************************************)
NoFile == [gen |-> 0, count |-> 0, crc |-> <<NoBook>>, records |-> <<>>]

\* from_v2_header: a generation, and the length the count asks for.
HeaderFits(file) == file.gen # 0 /\ file.count = Len(file.records)

\* LibraryIndexCursorValidator: the records in their order, and the CRC.
RecordsFit(file) ==
    /\ file.crc = file.records
    /\ \A i \in 1 .. Len(file.records) - 1 : file.records[i] < file.records[i + 1]

ValidIndex(file) == HeaderFits(file) /\ RecordsFit(file)

CursorOf(slot) == [slot |-> slot, gen |-> index[slot].gen, count |-> index[slot].count]

\* Mutant: the larger number, whatever the wrap.
NewerUnwrapped(b, a) == b > a

\* Generation b is after a in the order of serial numbers.
Newer(b, a) ==
    LET delta == (b + Generations - a) % Generations
    IN delta # 0 /\ delta < Generations \div 2

\* select_library_index_cursor, among the slots found valid.
SelectCursor(valid) ==
    CASE valid = {} -> NoCursor
      [] valid = Slots -> CursorOf(IF Newer(index["B"].gen, index["A"].gen) THEN "B" ELSE "A")
      [] OTHER -> CursorOf(CHOOSE slot \in valid : TRUE)

Selected == SelectCursor({slot \in Slots : ValidIndex(index[slot])})

(***************************************************************************)
(* The library task.                                                       *)
(***************************************************************************)
IdleTask ==
    [at |-> "idle", status |-> "CardError", prefetch |-> <<>>, batch |-> <<>>, done |-> FALSE,
     entries |-> <<>>, total |-> 0, runs |-> <<>>, heads |-> <<>>, emitted |-> <<>>,
     prepared |-> <<>>, valid |-> {}, misread |-> FALSE, slot |-> NoSlot, gen |-> 0,
     cursor |-> NoCursor]

IdleOwner ==
    [scan |-> 0, scratch |-> "none", spool |-> <<>>, upload |-> NoSlot, session |-> FALSE,
     draft |-> NoFile, mountGen |-> 0, ready |-> FALSE, names |-> <<>>, files |-> <<>>]

At(phase) == task.at = phase

Record(book, token) == [book |-> book, token |-> token]

\* A request of the task is served, and the client takes the answer.
TaskOnly == UNCHANGED <<dir, progress, channels, host, display, acts, crashes, stayed>>

\* LibraryRunGenerationClient::begin resets the workspace.
Begin ==
    /\ At("idle")
    /\ trigger # <<>>
    /\ task' = [IdleTask EXCEPT !.at = "ScratchCreate", !.prefetch = Head(trigger)]
    /\ trigger' = Tail(trigger)
    /\ UNCHANGED <<card, owner, completion, pending, host, display, bounds, stayed>>

(***************************************************************************)
(* Run generation: the scan, and its sorted runs in the scratch file.      *)
(***************************************************************************)
\* LibraryRunGenerationClient::cleanup.
Cleanup(from) == task' = [task EXCEPT !.at = from, !.status = "CardError"]

ScratchCreate ==
    /\ At("ScratchCreate")
    /\ \/ /\ Works
          /\ owner' = [owner EXCEPT !.scratch = "write", !.spool = <<>>]
          /\ task' = [task EXCEPT !.at = "ScanStart"]
       \/ /\ Fails
          /\ owner' = [owner EXCEPT !.scratch = "none"]
          /\ Cleanup("ErrorDelete")
    /\ UNCHANGED index /\ TaskOnly

\* scan_start forgets every mounted file before it can fail.
ScanStart ==
    /\ At("ScanStart")
    /\ LET forgotten == [owner EXCEPT !.names = <<>>, !.files = <<>>, !.ready = FALSE]
       IN \/ /\ Works
             /\ owner' = [forgotten EXCEPT !.scan = 1]
             /\ task' = [task EXCEPT !.at = "Prefetch"]
          \/ /\ Fails
             /\ owner' = forgotten
             /\ Cleanup("ErrorDelete")
    /\ UNCHANGED index /\ TaskOnly

\* ScanPrefetch for each name of the window.  The card is not touched.
Prefetch ==
    /\ At("Prefetch")
    /\ owner' = [owner EXCEPT !.names = task.prefetch,
                              !.files = [i \in DOMAIN task.prefetch |-> NoBook]]
    /\ task' = [task EXCEPT !.at = "ScanStep", !.prefetch = <<>>]
    /\ UNCHANGED <<index, faults>> /\ TaskOnly

\* consume_batch: entries go to the buffer until it is full or there are too
\* many; then a run is written, or the scan goes on, or ends.
Consume(t) ==
    LET room == RunLength - Len(t.entries)
        most == Min({room, Len(t.batch), MaxEntries - t.total})
        next == [t EXCEPT !.entries = @ \o SubSeq(t.batch, 1, most),
                          !.batch = SubSeq(@, most + 1, Len(@)),
                          !.total = @ + most]
        goes(phase) == [next EXCEPT !.at = phase]
    IN CASE next.batch # <<>> /\ most = room -> goes("RunWrite")
         [] next.batch # <<>> /\ most # room ->
                [goes("ErrorCancel") EXCEPT !.status = "TooManyBooks"]
         [] next.batch = <<>> /\ ~t.done -> goes("ScanStep")
         [] next.batch = <<>> /\ t.done /\ next.entries # <<>> -> goes("RunWrite")
         [] OTHER -> goes("ScanFinish")

\* The directory has no entry after those inspected.
ScanEnds(from) == from + Budget > DirSlots

\* step_with_files and scan_step: a file whose name is to be prefetched stays
\* mounted under the place of the name, and its record carries the token.
ScanStep ==
    /\ At("ScanStep")
    /\ \/ /\ Works
          /\ LET past == IF ScanEnds(owner.scan) THEN DirSlots + 1 ELSE owner.scan + Budget
                 found == SelectSeq(SubSeq(dir, owner.scan, past - 1), LAMBDA b : b # NoBook)
                 place(b) == IF Contains(owner.names, b)
                             THEN CHOOSE i \in DOMAIN owner.names : owner.names[i] = b ELSE 0
                 token(b) == IF place(b) = 0 THEN NoToken
                             ELSE [gen |-> owner.mountGen + 1, index |-> place(b)]
             IN /\ owner' = [owner EXCEPT !.scan = past,
                                 !.files = [i \in DOMAIN owner.files |->
                                     IF Contains(found, owner.names[i])
                                     THEN owner.names[i] ELSE owner.files[i]]]
                /\ task' = Consume([task EXCEPT !.done = ScanEnds(owner.scan),
                               !.batch = [i \in DOMAIN found |-> Record(found[i], token(found[i]))]])
       \/ Fails /\ Cleanup("ErrorCancel") /\ UNCHANGED owner
    /\ UNCHANGED index /\ TaskOnly

\* flush_run.
SortedRun(entries) == SortSeq(entries, LAMBDA left, right : left.book < right.book)

RunWrite ==
    /\ At("RunWrite")
    /\ LET run == [start |-> task.total - Len(task.entries), len |-> Len(task.entries)]
           flushed == [task EXCEPT !.entries = <<>>, !.runs = Append(@, run)]
       IN \/ /\ Works
             /\ owner' = [owner EXCEPT !.spool = @ \o SortedRun(task.entries)]
             /\ task' = Consume(flushed)
          \/ /\ Fails
             /\ task' = [flushed EXCEPT !.at = "ErrorCancel", !.status = "CardError"]
             /\ UNCHANGED owner
    /\ UNCHANGED index /\ TaskOnly

\* scan_finish: from now on the tokens are good.
ScanFinish ==
    /\ At("ScanFinish")
    /\ owner' = [owner EXCEPT !.scan = 0, !.mountGen = @ + 1, !.ready = TRUE]
    /\ task' = [task EXCEPT !.at = "ScratchFlush"]
    /\ UNCHANGED <<index, faults>> /\ TaskOnly

ScratchFlush ==
    /\ At("ScratchFlush")
    /\ \/ /\ Works
          /\ owner' = [owner EXCEPT !.scratch = "read"]
          /\ task' = [task EXCEPT !.at = "SelectA"]
       \/ /\ Fails
          /\ owner' = [owner EXCEPT !.scratch = "none"]
          /\ Cleanup("ErrorDelete")
    /\ UNCHANGED index /\ TaskOnly

ErrorCancel ==
    /\ At("ErrorCancel")
    /\ owner' = [owner EXCEPT !.scan = 0, !.files = <<>>, !.ready = FALSE]
    /\ task' = [task EXCEPT !.at = "ErrorDelete"]
    /\ UNCHANGED <<index, faults>> /\ TaskOnly

\* A delete that fails too ends the cleanup.
ErrorDelete ==
    /\ At("ErrorDelete")
    /\ \/ Works
       \/ Fails
    /\ owner' = [owner EXCEPT !.scratch = "none"]
    /\ task' = [task EXCEPT !.at = "Finish"]
    /\ UNCHANGED index /\ TaskOnly

(***************************************************************************)
(* LibraryIndexSelectClient, and where the new index goes.  Only this task *)
(* writes the slots, so that the requests for one slot are one action.  A  *)
(* slot that cannot be read counts as invalid.                             *)
(***************************************************************************)
\* Mutant: over the selected index.
TargetSlotSame(cursor) == IF cursor.slot = NoSlot THEN "A" ELSE cursor.slot

TargetSlot(cursor) == IF cursor.slot = "A" THEN "B" ELSE "A"

\* wrapping_add(1).max(1), after 0 for none.
NextGeneration(gen) == IF gen + 1 = Generations THEN 1 ELSE gen + 1

\* The slot, if it is valid and could be read.
Examine(slot, found) ==
    \/ Works /\ found = IF ValidIndex(index[slot]) THEN {slot} ELSE {}
    \/ Fails /\ found = {}

Misread(slot, found) == task.misread \/ (ValidIndex(index[slot]) /\ found = {})

SelectA ==
    /\ At("SelectA")
    /\ \E found \in SUBSET {"A"} :
        /\ Examine("A", found)
        /\ task' = [task EXCEPT !.at = "SelectB", !.valid = found, !.misread = Misread("A", found)]
    /\ UNCHANGED <<index, owner>> /\ TaskOnly

SelectB ==
    /\ At("SelectB")
    /\ \E found \in SUBSET {"B"} :
        /\ Examine("B", found)
        /\ LET cursor == SelectCursor(task.valid \cup found)
           IN task' = [task EXCEPT !.at = "UploadBegin", !.misread = Misread("B", found),
                           !.slot = TargetSlot(cursor), !.gen = NextGeneration(cursor.gen)]
    /\ UNCHANGED <<index, owner>> /\ TaskOnly

(***************************************************************************)
(* LibraryPublicationClient.  An error of the owner leaves its phase, and  *)
(* cleanup aborts the upload; an error it finds itself leaves Complete     *)
(* (the match takes the phase out), and cleanup has nothing to do.         *)
(***************************************************************************)
Gives(next) == /\ Works
               /\ task' = next

\* Creating the file empties it; until the commit the card has no more of it.
UploadBegin ==
    /\ At("UploadBegin")
    /\ \/ /\ owner.upload = NoSlot
          /\ Gives([task EXCEPT !.at = "ProvisionalHeader"])
          /\ index' = [index EXCEPT ![task.slot] = NoFile]
          /\ owner' = [owner EXCEPT !.upload = task.slot, !.session = TRUE, !.draft = NoFile]
       \/ /\ owner.upload # NoSlot
          /\ Gives([task EXCEPT !.at = "CleanupDelete"])
          /\ UNCHANGED <<index, owner>>
       \/ /\ owner.upload = NoSlot
          /\ Fails
          /\ task' = [task EXCEPT !.at = "CleanupDelete"]
          /\ index' \in {index, [index EXCEPT ![task.slot] = NoFile]}
          /\ UNCHANGED owner
    /\ TaskOnly

OwnerFails ==
    /\ Fails
    /\ task' = [task EXCEPT !.at = "AbortThenDelete"]
    /\ UNCHANGED owner

\* minimum_head, the first of equals.
MinimumHead(heads) ==
    CHOOSE i \in DOMAIN heads : \A j \in DOMAIN heads :
        heads[i].book < heads[j].book \/ (heads[i].book = heads[j].book /\ i <= j)

\* PreparedMount: the place of the record in the index.
Mount(t, token) == [place |-> Len(t.emitted), token |-> token]

\* request_initial_or_emit and emit_next_or_finish, up to the next request.
\* A name that does not follow the previous one ends the publication.
Emit(t) ==
    LET head == MinimumHead(t.heads)
        entry == t.heads[head]
        taken == [t EXCEPT !.emitted = Append(@, entry.book),
                           !.prepared = IF entry.token = NoToken THEN @ ELSE Append(@, Mount(t, entry.token))]
    IN CASE Len(t.heads) < Len(t.runs) -> [t EXCEPT !.at = "InitialHead"]
         [] t.runs = <<>> -> [t EXCEPT !.at = "FinalHeader"]
         [] t.emitted # <<>> /\ Last(t.emitted) >= entry.book -> [t EXCEPT !.at = "Finish"]
         [] t.runs[head].len > 0 -> [taken EXCEPT !.at = "Replacement"]
         [] OTHER -> [taken EXCEPT !.at = "RecordWrite", !.heads = RemoveAt(@, head),
                                   !.runs = RemoveAt(@, head)]

ProvisionalHeader ==
    /\ At("ProvisionalHeader")
    /\ \/ /\ Gives(Emit(task))
          /\ owner' = [owner EXCEPT !.draft = [NoFile EXCEPT !.gen = task.gen, !.count = task.total]]
       \/ OwnerFails
    /\ UNCHANGED index /\ TaskOnly

\* The next record of run i from the scratch file.
NextOf(i) == owner.spool[task.runs[i].start + 1]

Advanced(i) == [task.runs EXCEPT ![i] = [start |-> @.start + 1, len |-> @.len - 1]]

InitialHead ==
    /\ At("InitialHead")
    /\ \/ /\ LET i == Len(task.heads) + 1
             IN Gives(Emit([task EXCEPT !.heads = Append(@, NextOf(i)), !.runs = Advanced(i)]))
          /\ UNCHANGED owner
       \/ OwnerFails
    /\ UNCHANGED index /\ TaskOnly

Replacement ==
    /\ At("Replacement")
    /\ \/ /\ LET i == MinimumHead(task.heads)
             IN Gives([task EXCEPT !.at = "RecordWrite", !.heads[i] = NextOf(i), !.runs = Advanced(i)])
          /\ UNCHANGED owner
       \/ OwnerFails
    /\ UNCHANGED index /\ TaskOnly

RecordWrite ==
    /\ At("RecordWrite")
    /\ \/ /\ Gives(Emit(task))
          /\ owner' = [owner EXCEPT !.draft.records = Append(@, Last(task.emitted))]
       \/ OwnerFails
    /\ UNCHANGED index /\ TaskOnly

FinalHeader ==
    /\ At("FinalHeader")
    /\ \/ /\ Gives([task EXCEPT !.at = "Commit"])
          /\ owner' = [owner EXCEPT !.draft.crc = task.emitted]
       \/ OwnerFails
    /\ UNCHANGED index /\ TaskOnly

\* upload_commit takes the session out, whatever follows.
Commit ==
    /\ At("Commit")
    /\ \/ /\ Gives([task EXCEPT !.at = "Validate"])
          /\ index' = [index EXCEPT ![task.slot] = owner.draft]
          /\ owner' = [owner EXCEPT !.upload = NoSlot, !.session = FALSE, !.draft = NoFile]
       \/ /\ Fails
          /\ task' = [task EXCEPT !.at = "AbortThenDelete"]
          /\ index' \in {index, [index EXCEPT ![task.slot] = owner.draft]}
          /\ owner' = [owner EXCEPT !.session = FALSE]
    /\ TaskOnly

\* The size, the header and every record are read back.
Validate ==
    /\ At("Validate")
    /\ \/ Gives([task EXCEPT !.at = IF ValidIndex(index[task.slot]) THEN "ScratchDelete" ELSE "Finish",
                             !.cursor = CursorOf(task.slot)])
       \/ Fails /\ task' = [task EXCEPT !.at = "CleanupDelete"]
    /\ UNCHANGED <<index, owner>> /\ TaskOnly

\* Only with this answer is the publication complete.
ScratchDelete ==
    /\ At("ScratchDelete")
    /\ owner' = [owner EXCEPT !.scratch = "none"]
    /\ \/ Gives([task EXCEPT !.at = "Finish", !.status = IF task.total = 0 THEN "NoBooks" ELSE "Ready"])
       \/ Fails /\ task' = [task EXCEPT !.at = "CleanupDelete"]
    /\ UNCHANGED index /\ TaskOnly

AbortThenDelete ==
    /\ At("AbortThenDelete")
    /\ \/ /\ owner.session
          /\ Gives([task EXCEPT !.at = "CleanupDelete"])
          /\ index' = [index EXCEPT ![task.slot] = NoFile]
          /\ owner' = [owner EXCEPT !.upload = NoSlot, !.session = FALSE, !.draft = NoFile]
       \/ /\ owner.session
          /\ Fails
          /\ task' = [task EXCEPT !.at = "Finish"]
          /\ owner' = [owner EXCEPT !.session = FALSE]
          /\ UNCHANGED index
       \/ /\ ~owner.session
          /\ Gives([task EXCEPT !.at = "Finish"])
          /\ UNCHANGED <<index, owner>>
    /\ TaskOnly

CleanupDelete ==
    /\ At("CleanupDelete")
    /\ \/ Works
       \/ Fails
    /\ owner' = [owner EXCEPT !.scratch = "none"]
    /\ task' = [task EXCEPT !.at = "Finish"]
    /\ UNCHANGED index /\ TaskOnly

\* The completion is sent; without a publication it has no cursor.
Finish ==
    /\ At("Finish")
    /\ completion = <<>>
    /\ LET published == task.status \in {"Ready", "NoBooks"}
       IN completion' = <<[status |-> task.status,
                           cursor |-> IF published THEN task.cursor ELSE NoCursor,
                           prepared |-> IF published THEN task.prepared ELSE <<>>]>>
    /\ task' = IdleTask
    /\ UNCHANGED <<card, owner, trigger, pending, host, display, bounds, stayed>>

TaskStep ==
    \/ Begin \/ ScratchCreate \/ ScanStart \/ Prefetch \/ ScanStep \/ RunWrite \/ ScanFinish
    \/ ScratchFlush \/ ErrorCancel \/ ErrorDelete \/ SelectA \/ SelectB \/ UploadBegin
    \/ ProvisionalHeader \/ InitialHead \/ Replacement \/ RecordWrite \/ FinalHeader \/ Commit
    \/ Validate \/ ScratchDelete \/ AbortThenDelete \/ CleanupDelete \/ Finish

(***************************************************************************)
(* The display: the viewport, the menu and the reader state.               *)
(***************************************************************************)
Viewport(cursor, start, entries) == [cursor |-> cursor, start |-> start, entries |-> entries]

NoViewport == Viewport(NoCursor, 0, <<>>)

\* MenuState and what the loop of the display remembers.
IdleDisplay ==
    [at |-> "boot", view |-> NoViewport, count |-> 0, selected |-> 0, hash |-> NoBook,
     prepared |-> <<>>, status |-> "none"]

Holds(view, place) == place >= view.start /\ place < view.start + Len(view.entries)

\* viewport_entry
EntryAt(view, place) == IF Holds(view, place) THEN view.entries[place - view.start + 1] ELSE NoBook

\* load_viewport_window: the records of the cursor's slot, neither their CRC
\* nor the generation; a read that fails leaves no viewport.
Window(cursor, requested) ==
    LET file == index[cursor.slot]
        start == Min({requested, cursor.count - 1})
        len == Min({cursor.count - start, Rows})
    IN IF cursor.count = 0 \/ Len(file.records) < start + len THEN NoViewport
       ELSE Viewport(cursor, start, SubSeq(file.records, start + 1, start + len))

\* Mutant: the search is left out.
SearchNot(view, hash) == view

\* load_selected_viewport: the window after the first one, and so on, then the
\* first; every window it loads replaces the one before.
SearchFrom(view, hash) ==
    LET cursor == view.cursor
        starts == {k * Rows + Len(view.entries) : k \in 0 .. cursor.count}
        found == {k \in starts : k < cursor.count /\ Contains(Window(cursor, k).entries, hash)}
    IN CASE Contains(view.entries, hash) \/ cursor = NoCursor -> view
         [] found # {} -> Window(cursor, Min(found))
         [] OTHER -> Window(cursor, 0)

Search(view, hash) ==
    IF hash = NoBook THEN view ELSE SearchFrom(view, hash)

PlaceOf(view, book) ==
    IF Contains(view.entries, book)
    THEN {view.start + i - 1 : i \in {j \in DOMAIN view.entries : view.entries[j] = book}} ELSE {}

TotalOf(view) == view.cursor.count

\* Names the window can prefetch: request_refresh.
Names(view) == view.entries

\* Rows kept before the selection when the window moves.
Back == Rows \div 3

\* The start of mounted_display_task: load_viewport, the saved selection, and
\* the refresh of the boot.
Boot ==
    /\ display.at = "boot"
    /\ trigger = <<>>
    /\ \E saved \in {NoBook, display.hash} :
        \E loaded \in {Window(Selected, 0), NoViewport} :
            LET first == IF Selected.count = 0 THEN Viewport(Selected, 0, <<>>) ELSE loaded
                view == Search(first, saved)
                place == PlaceOf(view, saved)
            IN /\ IF first = NoViewport /\ Selected.count # 0 THEN Fails ELSE Works
               /\ display' = [IdleDisplay EXCEPT !.at = "idle", !.view = view, !.hash = saved,
                                  !.count = TotalOf(view),
                                  !.selected = IF place = {} THEN 0 ELSE Min(place)]
               /\ trigger' = <<Names(view)>>
    /\ pending' = TRUE
    /\ UNCHANGED <<card, owner, task, completion, host, acts, crashes, stayed>>

\* resolve_refreshed_selection, when the selected book is gone.
Fallback(total) == Min({display.selected, total - 1})

\* The completion arrives: the window is loaded from the cursor and moved to
\* the selected book, or to the place it had.  The windows loaded one after the
\* other are one action.
Adopt ==
    /\ display.at = "idle"
    /\ completion # <<>>
    /\ LET done == Head(completion)
           book == EntryAt(display.view, display.selected)
           hash == IF book = NoBook THEN display.hash ELSE book
           start == Min({display.view.start, done.cursor.count - 1})
       IN \E window \in {Window(done.cursor, start), NoViewport} :
            LET first == IF done.cursor.count = 0 THEN Viewport(done.cursor, 0, <<>>) ELSE window
                view == Search(first, hash)
                total == TotalOf(view)
                place == PlaceOf(view, hash)
                moved == IF place = {} /\ total > 0 /\ ~Holds(view, Fallback(total))
                         THEN Window(view.cursor, IF Fallback(total) > Back THEN Fallback(total) - Back ELSE 0)
                         ELSE view
                selected == IF place # {} THEN Min(place) ELSE IF total = 0 THEN 0 ELSE Fallback(total)
                mounts == {m \in ToSet(done.prepared) : EntryAt(view, m.place) # NoBook}
            IN \/ /\ done.cursor = NoCursor
                  /\ Works
                  /\ display' = [display EXCEPT !.at = "prune", !.status = done.status]
               \/ /\ done.cursor # NoCursor
                  /\ first # NoViewport
                  /\ Works
                  /\ display' = [display EXCEPT !.at = "prune", !.status = done.status,
                         !.view = moved, !.count = total, !.selected = selected,
                         !.hash = IF place # {} THEN hash ELSE EntryAt(moved, selected),
                         !.prepared = SetToSeq({[book |-> EntryAt(view, m.place), token |-> m.token] : m \in mounts})]
               \/ /\ done.cursor # NoCursor
                  /\ first = NoViewport
                  /\ IF Window(done.cursor, start) = NoViewport THEN Works ELSE Fails
                  /\ display' = [display EXCEPT !.at = "prune", !.status = done.status,
                                     !.view = NoViewport]
    /\ completion' = <<>>
    /\ UNCHANGED <<card, owner, task, trigger, pending, host, acts, crashes, stayed>>

\* Mutant: the index is believed without its CRC and generation.
PrunableAnyway(cursor) == cursor # NoCursor

\* begin_cursor: the header is read again from the slot of the cursor.
HeaderIs(cursor) == cursor # NoCursor /\ CursorOf(cursor.slot) = cursor

\* LibraryIndexPruneClient: the whole index is read and must be the cursor's.
Prunable(cursor) == HeaderIs(cursor) /\ ValidIndex(index[cursor.slot])

\* prune_state_from_index, then the barrier is settled.
Prune ==
    /\ display.at = "prune"
    /\ \/ /\ display.status = "Ready"
          /\ Prunable(display.view.cursor)
          /\ Works
          /\ progress' = progress \cap ToSet(index[display.view.cursor.slot].records)
       \/ /\ display.status = "Ready"
          /\ Prunable(display.view.cursor)
          /\ Fails
          /\ UNCHANGED progress
       \/ /\ display.status # "Ready" \/ ~Prunable(display.view.cursor)
          /\ Works
          /\ UNCHANGED progress
    /\ display' = [display EXCEPT !.at = "idle"]
    /\ pending' = FALSE
    /\ UNCHANGED <<dir, index, owner, task, trigger, completion, host, acts, crashes, stayed>>

\* MenuNext and MenuPrev.
Scroll ==
    /\ display.at = "idle"
    /\ display.count > 0
    /\ May /\ acts < MaxActs
    /\ acts' = acts + 1
    /\ \E step \in {1, display.count - 1} :
        LET selected == (display.selected + step) % display.count
            start == IF selected > Back THEN selected - Back ELSE 0
            mustLoad == ~Holds(display.view, selected) /\ display.view.cursor # NoCursor
            show(view, prepared) ==
                display' = [display EXCEPT !.view = view, !.prepared = prepared,
                    !.selected = selected,
                    !.hash = IF EntryAt(view, selected) = NoBook THEN @ ELSE EntryAt(view, selected)]
        IN \/ /\ ~mustLoad
              /\ Works
              /\ show(display.view, display.prepared)
           \/ /\ mustLoad
              /\ Works
              /\ LET view == Window(display.view.cursor, start)
                 IN show(view, IF view = NoViewport THEN display.prepared ELSE <<>>)
           \/ /\ mustLoad
              /\ Fails
              /\ show(NoViewport, display.prepared)
    /\ UNCHANGED <<card, owner, task, channels, host, crashes, stayed>>

(***************************************************************************)
(* The diagnostic task changes the card, then asks for a refresh.  While   *)
(* an upload of the library is active its requests wait.                   *)
(***************************************************************************)
Without(book) == [k \in 1 .. DirSlots |-> IF dir[k] = book THEN NoBook ELSE dir[k]]

\* A directory entry is made in the first free place.
Put(book) ==
    LET free == {k \in 1 .. DirSlots : Without(book)[k] = NoBook}
    IN /\ free # {}
       /\ dir' = [Without(book) EXCEPT ![Min(free)] = book]

Delete(book) ==
    /\ book \in OnCard
    /\ dir' = Without(book)

Change ==
    /\ host = "idle"
    /\ May /\ acts < MaxActs
    /\ owner.upload = NoSlot
    /\ \E book \in Books :
        /\ Put(book) \/ Delete(book)
        /\ stayed' = stayed \ {book}
    /\ host' = "mark"
    /\ acts' = acts + 1
    /\ UNCHANGED <<index, progress, owner, task, channels, display, faults, crashes>>

\* request_library_refresh
MarkPending ==
    /\ host = "mark"
    /\ pending' = TRUE
    /\ host' = "send"
    /\ UNCHANGED <<card, owner, task, trigger, completion, display, bounds, stayed>>

\* LIBRARY_REFRESH_TRIGGER_CHANNEL holds one.
RoomForTrigger == Len(trigger) < 1

SendTrigger ==
    /\ host = "send"
    /\ RoomForTrigger
    /\ trigger' = Append(trigger, <<>>)
    /\ host' = "idle"
    /\ UNCHANGED <<card, owner, task, completion, pending, display, bounds, stayed>>

\* Power is lost; a file being written may have got to the card or not.
Crash ==
    /\ May /\ crashes < MaxCrashes
    /\ crashes' = crashes + 1
    /\ index' \in IF owner.session THEN {index, [index EXCEPT ![owner.upload] = owner.draft]}
                  ELSE {index}
    /\ owner' = IdleOwner
    /\ task' = IdleTask
    /\ display' = [IdleDisplay EXCEPT !.hash = display.hash]
    /\ trigger' = <<>> /\ completion' = <<>> /\ pending' = TRUE /\ host' = "idle"
    /\ UNCHANGED <<dir, progress, acts, faults, stayed>>

DisplayStep == Boot \/ Adopt \/ Prune
HostStep == MarkPending \/ SendTrigger

Next == TaskStep \/ DisplayStep \/ Scroll \/ HostStep \/ Change \/ Crash

\* An index of the books that were on the card, and nothing in progress.
Init ==
    /\ dir \in InitialDirs
    /\ index = [slot \in Slots |->
                    IF slot = "A" THEN [gen |-> FirstGeneration, count |-> Cardinality(OnCard),
                                        crc |-> InOrder(OnCard), records |-> InOrder(OnCard)]
                    ELSE NoFile]
    /\ progress = OnCard
    /\ stayed = OnCard
    /\ owner = IdleOwner
    /\ task = IdleTask
    /\ trigger = <<>> /\ completion = <<>> /\ pending = TRUE
    /\ host = "idle"
    /\ display = IdleDisplay
    /\ acts = 0 /\ faults = 0 /\ crashes = 0

Spec == Init /\ [][Next]_vars

(***************************************************************************)
(* Properties.                                                             *)
(***************************************************************************)
Settled == host = "idle" /\ trigger = <<>> /\ At("idle") /\ completion = <<>> /\ display.at = "idle"

\* Every change of the card was followed by a refresh that began after it: when
\* all is quiet and the last refresh succeeded, the selected index lists
\* exactly the books on the card, in order.
IndexTruth ==
    Settled /\ display.status \in {"Ready", "NoBooks"} =>
        /\ Selected # NoCursor
        /\ index[Selected.slot].records = InOrder(OnCard)

\* Crashes, failures and interrupted publications never lose the selected
\* index or bring an older one back, unless a read error hid a valid slot from
\* the refresh.
SelectedNeverLost ==
    [][Selected # NoCursor /\ Selected' # Selected =>
        \/ task.misread
        \/ Selected'.slot # NoSlot /\ Newer(Selected'.gen, Selected.gen)]_vars

\* When all is quiet the menu shows a window of the selected index, the selected
\* place holds the book the reader state names, and a token that is still good
\* is for the book it was prepared for.
MenuTruth ==
    Settled /\ display.status = "Ready" /\ display.view.cursor # NoCursor =>
        /\ display.view.cursor = Selected
        /\ display.view = Window(Selected, display.view.start)
        /\ EntryAt(display.view, display.selected) = display.hash
        /\ \A m \in ToSet(display.prepared) :
            owner.ready /\ m.token.gen = owner.mountGen => owner.files[m.token.index] = m.book

\* A new index leaves the menu on the book it was on, wherever its place is
\* now, unless the index has been written over since.
SelectionKept ==
    [][LET book == EntryAt(display.view, display.selected)
       IN /\ display.at = "idle" /\ display'.at = "prune"
          /\ display'.view.cursor # NoCursor
          /\ CursorOf(display'.view.cursor.slot) = display'.view.cursor
          /\ book \in ToSet(index[display'.view.cursor.slot].records)
          => book = EntryAt(display'.view, display'.selected)]_vars

\* The progress of a book that never left the card is never pruned.
ProgressKept == stayed \subseteq progress

\* A scan lists no book twice, though books move while it goes on: a deleted
\* book comes back at a place the scan has passed, because the host has to wait
\* for its second trigger before a third change.
ScannedOnce ==
    At("SelectA") => \A i, j \in DOMAIN owner.spool :
        owner.spool[i].book = owner.spool[j].book => i = j

\* The docs: a refresh that failed leaves no upload of the library open, which
\* would shut every other task out of the card.
UploadReleased == At("idle") => owner.upload = NoSlot

\* The card, the index selected on it and the menu agree, and a scan counts
\* every book once.
LibraryTruth == ScannedOnce /\ IndexTruth /\ MenuTruth
=============================================================================
