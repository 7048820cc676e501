# A TLA+ model of BinBook

BinBook is a raster book format, a host toolchain that compiles books into it,
and the firmware of an e-reader (Xteink X4, ESP32-C3) that shows them.  These
modules model the parts of the program whose correctness depends on order or
on arithmetic at a boundary: what happens on the SD card when power is lost or a
call fails, who owns which buffer, request and upload, what the host and the
device tell each other over a serial line that loses frames, which picture the
panel shows after which refresh, and whether the page that the device decodes is
the page that the compiler laid out.  TLC checks the modules on small
instances; TLAPS proves the main invariants of nine of them for every value of
their constants.

Paths are relative to the repository; `fw/` is
`firmware/crates/binbook-fw/src/`, `host/` is `crates/binbook/src/`.

## 1. The system and its parts

All firmware tasks run on one cooperative executor (`fw/main.rs`): code between
two awaits is atomic, and every await may let any other task run.  There are two
builds: with the mounted storage owner, where every card access is a request
to one task, and without, where each call mounts the card itself.

| part | state it keeps | operations | how it meets the others |
|---|---|---|---|
| journaled replacement of a book (`crates/embedded-sd-storage`) | `BOOKS`, staged and backup files in `TMP`, two journal slots | begin, write, commit and publish, recover, abort, delete | called only by the storage owner |
| block cache and FAT files (`block_stream.rs`, `fat_directory.rs`, `sd_filesystem.rs`) | two cached blocks; extents of the open read and the open upload | partial and whole block I/O, flush, reads, uploads into clusters | below everything that touches the card |
| storage owner (`fw/storage_owner.rs`, `fw/runtime/storage_owner_task.rs`) | a mailbox of 8, the one upload session and its client, the scan, mounted files | read, scan, begin, write, commit, abort | one request channel, one response channel per client; lends and returns buffers |
| reader state (`fw/state_owner.rs`, `fw/owner_reader.rs`) | two slots on the card; the state, its slot and generation in RAM | load, save with readback, prune, idle flush | client `State` of the owner, run by the display task |
| power (`fw/power.rs`, `fw/runtime/input_task.rs`) | request and acknowledgement channels | full refresh, prepare sleep, deep sleep | the input task asks, the display task answers |
| bulk transfer, device (`fw/bulk_*.rs`, `fw/runtime/diagnostic_bulk*.rs`) | slots, credits, the generation, pending owner operations and replies | open, data, credit, status, finish, abort, idle timeout | frames from the host, requests to the owner |
| bulk transfer, host (`host/bulk_*.rs`, `host/frame_router.rs`) | offsets, credits, undelivered frames | upload, readback | frames |
| legacy storage commands (`fw/runtime/diagnostic_owner_storage.rs`, `fw/diag_storage.rs`) | one exchange | the older upload and readback | shares the diagnostic response channel with the bulk transfer |
| library (`fw/library_*.rs`) | two index slots, the spool of sorted runs, the barrier | scan, external sort, publish, select, load a window | client `Library`; a completion event to the display task |
| display of the mounted build (`fw/runtime/mounted_display_task.rs`) | mode, lifecycle, page, deferred gray, two planes of the controller | menu, restore, open, turn, close, refresh, refine | the busiest client of the owner |
| page engine of the other build (`crates/xteink-x4-display`, `fw/runtime/display_task.rs`) | phase, page, preview, overlay deadline | turn, preview, overlay, recovery, probes, menu | request queue and epoch in, events out |
| console and aggregator (`fw/runtime/diagnostic_console.rs`, `fw/runtime_aggregator.rs`, `host/serial_transport.rs`) | reservations, snapshot, completions, serial buffers | commands, queries, bursts of keys | channels to the display task, frames to the host |
| book pipeline (`crates/binbook-*`, `crates/gray2-render`) | none across calls | parse, lay out, compile, validate, open, decode | the file |
| protocol codecs, gestures, command-line tools, Python | none, or a few samples | conversions | |

What is hard in this code: a reset between two card operations; an operation
that fails after it had half its effect; requests of several tasks interleaved
at one owner with priorities that reorder them; answers that arrive after the
one who asked has gone; two timers of the same length on the two ends of a
lossy line; a refresh whose two planes must match what the panel shows; counters
and pools at their limits; pages, characters and reads that end in the middle of
something.  `PROJECT.json` lists these hazards at their lines, with the properties
that cover them.

## 2. The modules

| module | models | composes |
|---|---|---|
| `BookShelf` | abstract: a book is replaced in one step | |
| `UploadJournal` | the publication journal, step by step, with power cuts | implements `BookShelf` |
| `StorageOwner` | mailbox, affinity, leases, response routing, the client tasks | |
| `ReaderPersistence` | A/B state slots, saves, power requests, deep sleep | |
| `BulkUpload` | host, wires, diagnostic task and storage owner in one upload | |
| `BulkReadback` | the same for a readback, with a legacy exchange beside it | |
| `LibraryIndex` | scan, sort, publication and selection of the index, and the menu over it | |
| `Reading` | the display task of the mounted build and the controller's two planes | |
| `BlockStream` | the write-back block cache | |
| `RawStorage` | files as clusters, uploads, cached reads and state slots without the owner | |
| `MCCard` | the two ways of using the card | `BlockStream`, `RawStorage` |
| `PageEngine` | the page engine and its display task | |
| `Console` | host, console task, aggregator | `PageEngine` |
| `BookLayout`, `BookFile`, `BookReader` | operators: layout; writer; validator, device reads, decoders | each extends the one before |
| `Book` | the way of one book from source to panel | the three above |
| `UploadJournalProofs`, `StorageOwnerProofs`, `ReaderPersistenceProofs`, `BulkUploadProofs`, `BulkReadbackProofs`, `CardProofs`, `ReadingProofs`, `ConsoleProofs` | theorems | |
| `MCUploadJournal`, `MCStorageOwner`, `MCLibraryIndex`, `MCBook` | constants for TLC | |

### UploadJournal and BookShelf

One variable per directory: `books` is `BOOKS`, `stage`, `backup` and `moved`
are the three kinds of files in `TMP`, `slots` are `XFERA.DAT` and `XFERB.DAT`.
`pc` is the step of the storage owner.  Each card operation of
`publish_book_upload` (`Stash`, `DropStale`, `Retire`, `Expose`, `DropOld`) and
of `recover_book_upload` (`StartRecovery`, `Restore`, `Sweep`, `FinishRecovery`)
is one action, and a journal write is one as well.  `Crash` may happen before
any of them and leaves the slot under write old, new or torn
(`SlotsAfterCut`).  With `MaxFaults` a card operation may also return an error,
and the action is then the whole error path of the code.

The files hold one of a few contents, or `Partial`.  The FAT library is
external: a rename is atomic and refuses an existing destination, and calls
reach the card in their order.  (`BlockStream` shows what the cache below keeps
and what it does not: nothing is promised before a flush.)

`StartRecovery` and `FinishRecovery` read the journal, and a slot that cannot be
opened or read (`unread`) is skipped like an invalid one, as `read_upload_journal`
does: the recovery then works on the older record, or on none, and succeeds.

`gap` remembers the names whose old copy was renamed before that was
recorded: this is the window in which a reset hides a book, and `RecoveredShelf`
says that it is the only one, unless the card fails under the recovery
(`impaired`): it does not see the newest record, or its restore fails, which the
code ignores.  When such a recovery overwrites the record, or ends, with the book
still out of `BOOKS`, the book counts as lost (`Overlooked`): one name, the one the
record was about.  As long as the record is there, and if a later recovery reads it
first, the book comes back.  That no stale book comes back is part of
`ImplementsShelf`: the abstract shelf changes a book only to the one committed last.

### StorageOwner

Requests are records with their client, their lender's buffer and, for the
properties only, the task that sent them.  `Collect` moves what the channel has
into the mailbox, or refuses it; `ExecuteImmediate` answers a refused request;
`ExecuteNext` chooses by affinity and priority and performs; `Route` sends the
answer to the channel of its client, not of its task.  The code runs execute
and route without an await between them, so the model has a few more
interleavings than the program.  `Send`, `Begin`, `Write`, `Commit`, `Abort` and
`Receive` are the clients: the display task saves state, the library refresh
publishes the index, the diagnostic task runs uploads.  Scans and scratch-file
requests are one kind; what they do is in `LibraryIndex`.

### ReaderPersistence

A version number stands for the contents of the reader's state; `durable` is
the newest version that a load or a save reported.  Generations are counted
modulo `Modulus`, with the comparison of the code, so that they wrap in every
run.  A save is the sequence begin, write, commit, verify or abort, each with
its failures and with what it may leave on the card; an owner whose commit failed
refuses the later ones.  The display task's loop is a choice among its four
sources, the input task waits for its acknowledgement, `FallAsleep` is
`rtc.sleep_deep`, and `Crash` may happen at any time.  A state that fails to
encode is not modelled.

### BulkUpload and BulkReadback

Both ends of one transfer.  The host is `bulk_upload_stream`, or the readback
stream, with its serial transport: `Receive` takes the frame it waits for from
the router, `Timeout`, `Unroutable` and `Garble` are the ways in which a wait
fails.  The device is one record: the runtime that the coordinator holds, its
pending requests, slots, credits, the slot generation and the one deferred
control.  `HandleFrame` and `HandleOwner` are the two things that an iteration of
the diagnostic loop does, with all they call; they return the new device, the
frame for the one-frame transmit buffer, and the request for the owner.

An uploaded chunk is the number of the session that sent it, so a mixture of two
files is visible; `changed` are sessions whose file changed after it was measured,
and the CRC comparison is that the whole file is of one unchanged session.  A
chunk read back is its position, and the CRC is the sequence.  `Kill` stops the
host program anywhere; `Start` runs it again with request numbers from 1.  The
HELLO exchange before a transfer is external: it leaves the wires empty, but not
the device idle.

In a readback the device reads into leases that travel with the requests.  The
slots are filled in the order of the reads, sent in the order of the file and
released by credits, each of which may be lost or late.  The program `read`
is the older single command on the same response channel (`Submit`, `Mine`): while it
waits, it takes or passes on what the bulk transfer left there.  A CRC of
the file, and the output that is only saved when it matches, are `SavedWhole`.

### LibraryIndex

A book is its place in the order of names.  The owner scans directory entries in
batches of `Budget` (`scan_step`) while uploads and deletes change the directory;
the task spools sorted runs of `RunLength`, merges them from scratch files and
publishes records and a header into the slot that is not selected.  Generations
count from near their wrap.  `Newer` compares them, `Selected` is what a boot
selects.  The display side takes completions and triggers, reloads its window,
looks for the book that was selected (`SearchFrom`), and prunes progress of books
that the index does not list (`Prunable`).  A token of a mounted file carries the
mount's generation.

`stayed` are the books that were on the card, untouched, since the last prune:
`ProgressKept` says that the progress of none of them is forgotten.
`LibraryTruth` has three parts: a scan gives no book twice; when nothing is
pending, the selected slot lists the card in order; and the menu's window, row
and mounted files are those of the selected slot.

### Reading

`glass` is what the panel shows, `red` and `black` are the two planes of the
controller, `fb` the framebuffer.  A differential refresh shows `black` where it
differs from `red`; the three waveforms are three ways of `Refresh`.  The
lifecycle of `owner_book.rs` (`life`), the mode of the buttons and the reader's
state are separate variables because they change at different awaits, and the
properties relate them: `ShownIsSaved` (what is saved is what is shown),
`CommitShown` (progress changes to a page only when that page is on the glass),
`GrayOnItsPage` (the deferred gray pass refines the page it was loaded for)
and `BaseIsShown` (a differential refresh starts from what is on the panel).
`lost` and `stray` remember a failed panel and a picture drawn by an operation
that does not tell the planes; the properties speak of the rest.

### BlockStream, RawStorage and MCCard

`BlockStream` has blocks of two parts and writes that are numbered, so that
older and newer contents can be compared.  Whole blocks bypass the cache after what
overlaps was written back (`BackBefore`), parts go through a slot that may have to be evicted.
Every card operation may fail in the middle of a batch, and `Reset` loses the cache.
A read that fails may have changed the buffer of the slot, which keeps the name of its
old block (`GarbageIn`); `garbled` remembers that block, and what is read from it, or
later stored, may then be garbage.  All other blocks, and what is written to this one
afterwards, are as they should be.

`RawStorage` is the build in which every call mounts the card: a file is a list of
clusters, `reading` and `active` are the two extents that outlive a call
(`active_read`, `active_upload`), and the state and the index are saved through
the same upload slot that the host uses.  Deletes and truncations free clusters
that other extents may still name.  `orphan` says that the file of
an upload was deleted under it.
`Boot` is a reset with the load of the state, in which any slot may be unreadable
(`unread`): `StateSlots::load` takes it for absent.  `misled` says that the last boot
so missed the newest slot.  It went on with an older state or none, and the next
save may overwrite the newest one; `StateSurvives` speaks again from the next save
whose record is the newest of the card, or from a boot that reads it.

### PageEngine and Console

The engine's phases (`ready`, `preview`, `gray`, `fault`), the preview and its
cleanup, the overlay with the epoch it began with, and the one recovery that a
failure is given.  An operation of the panel is a start and an end, and requests
may come between them.  `glass` follows what each refresh drives: a differential
from a picture that is not there comes out `mixed`.  The display task
publishes its events to a channel with room for a few, the rest waits in its sink.

`Console` adds the host's two kinds of use (one command, a burst of keys),
stopped and restarted hosts, the serial buffers, the loop of the console task
and the aggregator, which reserves a command, matches completions by sequence
and answers queries only when no event waits.  `AnswerOwed` says where every
request that a host waits for is; `ConsoleNotStuck` that the console and the
aggregator never wait for each other; `ReaderAgrees` that engine, panel and
snapshot have one page.

### BookLayout, BookFile, BookReader and Book

These are operators, translated function by function, and `Book` composes them:
a source (a small EPUB, or images) is laid out and compiled, the file
written, one stored field damaged or none, opened, validated, and its planes
decoded by the host at once and by the device in reads of any size.  A
character counts its bytes, a byte of a plane is one pixel, a CRC is the content
it was taken of (and 0 is that of nothing, as in the code), strings are
positions in the string table.  Shaping, scaling and dithering are external, and
white space inside a text node is not collapsed (`html.rs`): texts are chosen as
they are after it, and no property is about it.
The modules compute, so what could go wrong is in the data: `MCBook` chooses
documents with tables, lists, figures, page breaks, images that fail, fonts that
collide, and several hundred damages per file.

## 3. The runs

| run | bounds | states | shows |
|---|---|---|---|
| `journal` | 2 names, 2 contents, 7 generations, 2 power cuts, 1 fault (also an unreadable slot) | 2.5 M | no partial book is visible; what is missing is covered by the newest record; recovery restores all but the named losses; the refinement of `BookShelf` |
| `owner` | 3 tasks, 5 in flight, queue 5, 1 upload of 2 chunks per task that uploads, 1 fault of 2 kinds | 0.3 M | no overflow, no upload disturbs another; a read of the display is always served |
| `owner_overflow` | the same tasks, queue 2, 2 uploads of 2 chunks, 1 fault of 4 kinds | 1.0 M | one answer per request and every buffer home, although requests overflow and overtake |
| `persistence` | generations modulo 4, 3 changes, 2 faults, any number of power cuts | 0.4 M | saved state survives, nothing is forgotten, acknowledgements pair, sleep needs a durable save; power requests are answered, dirty states are saved |
| `bulk` | 3 chunks, window 2, 2 host sessions, 2 faults of 9 kinds | 26 k | what is published is whole, the host is told the truth, no credit, slot or upload is lost; host and device end; without a fault an upload succeeds |
| `readback` | 5 chunks, window 4, 4 slots, 2 programs, 2 faults of 7 kinds | 63 k | the saved file is the file; no slot is released or reused on its way; without a fault a readback succeeds |
| `library` | 3 books, directories of 4 slots, batches and runs of 2, 2 changes, 1 fault, 1 crash, generations modulo 8 from 7 | 1.8 M | `LibraryTruth`, progress and selection kept, the selected slot never lost |
| `reading` | 2 books of 2 pages, queue 2, 3 presses, 1 power gesture, 1 replaced book, 1 picture of the host, 1 fault | 4.3 M | shown is saved, commits are shown, refreshes start from what is there |
| `reading_buttons` | 1 book, 3 presses, no fault | | finding, section 5 |
| `card` | 3 blocks, 2 slots, 2 writes, 2 failures; 4 clusters, 2 uploads, 2 changes, 2 failures or resets with any slots unreadable | 1.4 M | the cache cannot be told from the card, but for garbage in named blocks; uploads write into their own clusters and end whole; the state survives unless a boot missed it |
| `diagnostics` | 2 pages, all channels of 2, 3 requests, burst of 3, commands goto and white, 1 stop, 2 faults, 1 power gesture | 3.4 M | no answer is lost, no mutual wait, engine, panel and snapshot agree, the overlay yields |
| `book` | pages of 4 bytes, 2 page capacities, planes of 4 by 3 pixels in chunks of 2 rows, one damaged field | 158 k | layout, links, writer against validator, damage noticed or harmless, the device decodes what was rendered |

Why the bounds are enough.  A publication uses one generation, and a recovery
compares two records: seven generations let two publications follow two
recoveries, with both slots used several times.  Two cuts put a reset inside
the recovery from a reset.  The mailbox of the instance is as full as that of the
firmware can get (limits add up to the capacity).  Modulus 4 is the smallest with
a gap between "newer" and "older" under the comparison of the code; the card
starts with any generation, so that every run of a few saves wraps it.  A window of
two with three chunks has full, partial and last windows; two sessions are what it
takes for one to meet the leftovers of another.  Five chunks reuse a readback slot.
Three books in runs of two need two runs, a merge and a scan of two batches, with
a change between them.  Two books are what it takes to open the wrong one, two
pages to show the wrong one.  Three blocks and two slots evict.  Channels of two
with three requests overflow and wrap.  A page of four bytes ends inside
characters of two and three bytes, and a plane of four by three has chunks, a short
last chunk, and runs that span rows.

The damages of `book` are those of `MCDamaged`: header, section table, and the records,
strings and bytes of the sections, one field to one or a few other values.  Left out are
the offsets of the table and of the sections, because a section is a sequence in the
model and has no bytes at a wrong offset.

The bounds keep every run within about a minute on two workers.  What they leave out
was run once with more: three faults in `bulk`, a third command and a second key in
`diagnostics`, three changes in `library`, a third write in `card`, without an error.

`CHECK_DEADLOCK FALSE` stands where a behaviour really ends: the bounds on resets,
sessions, presses or requests are used up, a book was read to its end, or a client
waits for a queue that its own request overflowed.

Further configurations are kept for what the code is known to get wrong and
are described in section 5: `MCUploadJournalReset`, `MCUploadJournalForeign`,
`MCStorageOwnerCommitFails`, `MCStorageOwnerScrolling`,
`ReaderPersistenceUnreadable`, `BulkUploadStuck`, `BulkUploadLoss`,
`MCLibraryIndexLeak`, `MCCardGarbled` and `MCBookLinks`.

### Fairness

The executor polls every ready task: weak fairness of the owner's loop, of
the display task, of the diagnostic loop and of the receivers.  `CarryOn` in
`StorageOwner` is the loop of `save_state` and of the publication, and for uploads
the 60-second idle timeout.  The idle save needs strong fairness: requests
of the user may interrupt it again and again, but the code reads the due time
in each iteration (`state_flush.due`), and requests come to an end.  That an idle
save cannot starve a power request needs no fairness: the loop's `select4` polls
the power channel before the timer, a guard of `SaveWhenIdle` and `Prune`.  The timers
of both ends expire (`Timeout`, `ExpireIdle`), and the host reads what arrives.
A timer expires by right only when nothing else can happen (`~Busy`): an answer takes
less than 60 seconds.  One that expires before is the fault `late`, to which no
fairness applies.

## 4. The proofs

`UploadJournalProofs` proves, for all names, contents and bounds:

* `TypeCorrect`;
* `BooksAlwaysComplete`: no partial file in `BOOKS`;
* `MissingAlwaysCovered` and `ShelfAlwaysRecovered`, from the inductive invariant
  `CoverInv`.  `BooksComplete` and the two others are not inductive, and the order of
  the records does not help: a recovery that could read no slot starts the
  generations over, so a lower one may be the younger.  What holds is that the slots
  alternate: the OldMoved record of a replacement goes into the other slot than its
  Verified record, so while a book is missing the two slots hold just this pair
  (`CoveredBy`), of one generation, in which OldMoved is the newer.  `ControlInv` says
  that the Verified record stays until the book is exposed and that a recovery works on
  a record of the card, the newest one unless `impaired`; `ShelfInv` where no book is
  missing.  Each action preserves each part;
* `ShelfImplemented`: the protocol implements `BookShelf`.  The mapping is
  `ShownBooks`, what would be visible after the recovery that is due, and
  `OfferedUpload`, the upload that may still change it.  `StepIsShelfStep` takes the
  actions one by one: `Expose` of a name that shows nothing is `Put`, a delete is
  `Remove`, a cut before the old copy is recorded is `Lose`, and the rest is a stutter or
  a change of the offer.  It needs `CoverInv`, `CompleteInv`, and
  `OfferInv`: the stage of an upload, wherever it has been moved, holds what was offered.
  `CutLosesOne` says that a cut hides at most the name whose replacement or recovery it
  interrupts.
  The abstract shelf reads three kinds of names as absent, each a documented weakness
  of the code and each named in the mapping: those in `gap`, those in `early` (deleted
  while a recovery was due), and those without a committed book (`NoForeignCopy`,
  section 5).

`StorageOwnerProofs` proves `TypeCorrect` and `NeverOverflows`: if the limits of the
tasks fit into the queue (`InFlightFits`; with the firmware's constants
1 + 1 + 6 = 8), no request is ever refused.  The invariant `CountInv` counts the
requests of every task in flight.  `InFlightFits` is an assumption of the
theorem and not of the module, because `MCStorageOwnerOverflow.cfg` is without it.
`TrafficSettles` needs no such limit: on the overflow path, too, each step moves every
request it touches from one place to one other (`SendEffect`, `MoveEffect`,
`ExecuteEffect`, `ReceiveEffect`), so that a task has in flight what is counted for it,
and a buffer that it does not have is in one of its requests or answers (`SettleInv`).
It assumes `NoSharedChannel`: no response channel has two receivers, without which
`MCStorageOwnerScrolling.cfg` loses a buffer.
`UploadsStayApart` proves `UploadsApart` from `UploadInv`, which joins the three views
of one upload.  The task's (`PhasesInv`): its stage says which begin, commit or abort of
it is under way, and that it is served from the answer of its begin to the execution of
its commit or abort.  The owner's (`OwnerInv`, `AskedInv`, `AnsweredInv`): protocol,
session and affinity begin and end together; whoever asks for a begin is not served, and
whoever asks for a commit is served and has every chunk on the card.  The queues'
(`IdsInv`, `OpenInv`, `OrderInv`): an id in a request was given out, the present one only
to the task served; a chunk sent is written, asked, or answered with an error; and in the
mailbox with the channel behind it the writes of the upload are in their order, behind
those applied.  The pop keeps that order because all of them have one client, hence one
priority, and equals leave in the order they came (`NextWriteIsFirst`).
It assumes `InFlightFits` (the overflow path ignores the affinity and the order),
`NoSharedChannel` (a task that takes another's answer forgets its own upload), and that
the card refuses no commit and no abort, without which `MCStorageOwnerCommitFails.cfg`
keeps the affinity of an upload that is gone.  Any other request may fail at any time.

`ReaderPersistenceProofs` proves `TypeCorrect` and

* `SavedAlwaysSurvives`, under the assumption that no request of a load fails
  (`"load" \notin FaultyKinds`; without it the property is false, as
  `ReaderPersistenceUnreadable.cfg` shows).  `SavedSurvives` speaks of the card
  alone and is not inductive.  `SlotsInv` adds what the display task knows: the two
  slots hold neighbouring generations, the loaded slot is the durable one, and the
  target holds nothing, the predecessor of the loaded slot, or a newer state whose
  save was not reported.  That a successor is newer, across the wrap and for every
  even modulus of at least 4, is the lemma `SuccIsNewer`;
* `NothingEverForgotten`, under the same assumption.  `NothingForgotten` speaks of an
  idle task; `FlushInv` says it of every step of a save, because a failure of any of
  them must find the state marked or mark it again;
* `AcknowledgementsPair` and `SleepAlwaysAuthorised`, from `SleepInv`: a pending request is
  the one that the input task waits for, and a save that will answer it has at
  least its version.

`BulkUploadProofs` proves, for every size of a file, window and number of slots, sessions
and faults of every kind,

* `PublishedFilesAreWhole`.  What is published depends on what is still under way, so
  `BulkInv` says for each phase of a stream what the device waits for, what is in the
  mailbox and among the answers, and what the owner holds: nothing (`IdlePhase`); the
  begin or its answer (`OpenPhase`); the writes that the device waits for, in their order,
  those without an error already in the file (`ActivePhase`, `Writes`); one commit, and
  only for a file that is whole and unchanged, or one abort (`FinishPhase`); the writes
  of the aborted stream, and at most one abort that overtakes them (`AbortPhase`,
  `Stale`).  `StreamInStep` takes every handler through every phase: a frame that comes
  late, twice or never meets a phase that refuses it;
* `NothingIsLost`, from the same invariant: that credits, held back credits and taken
  slots add up to the window, that the owner has no upload without a stream, and that
  slots are released with the last answer, whichever it is;
* `HostAlwaysInformed`: success is reported only of what is published, a confirmed cleanup
  only of what is neither published nor open, and what counts as durable is in the
  owner's file.  The truth of an answer must outlive its way to the host, past aborts of
  the idle timer, other sessions and frames nobody took.  `TruthInv` says of every frame
  on the line what it promises for as long as it is there (`FrameTrue`): an upload that is
  `Closed` stays closed because no id is given twice, a file only fills while
  its upload is open (`Filled`), and the upload that an open announces is `Untouched` until
  its host has taken the announcement.  Each id is announced in one frame (`Once`), and no
  frame speaks of an upload before that (`Quiet`), so that a stream has one host and what
  is in its file is of that host's session.  The device has a lemma for each handler
  (`OpenTold`, `FinishTold`, ...), the host one for each action (`StartTrue`,
  `ReceiveTrue`, ...).

`BulkReadbackProofs` proves, for every size of a file, window and number of slots, any
number of sessions, older commands beside them and faults of every kind,

* `SavedAlwaysWhole`: what the host saves is the file, and
* `PipelineAlwaysSound`: the device counts as durable only what the host has written, and
  no lease is in two places or filled again before its chunk is acknowledged.

Both follow from one inductive invariant, `BulkInv`.  A message with the owner, or its
answer, says little by itself: whose lease it carries depends on the read that the
device still waits for, which may be of a stream that has ended.  So `Leases` gives every
lease that is not at home to exactly one such read, of this generation or an earlier one,
and `Flight` gives every message with the owner to one of them, and every answer without
an error a lease that holds what was asked for.  The window is `Ordered` by file offset;
what was sent is, as far as no chunk is missing, the front of it (`SentInOrder`), which is
why a credit for a slot releases the right chunk, and what is read now comes
after what was sent (`ReadsInOrder`).  `Behind` ties the device to its host: a host that
has not seen the answer to its open has acknowledged nothing of the stream, whatever
an earlier host left on the line.  That every data frame holds the bytes of its offset
(`Honest`), and that the host writes only the offset it expects (`Written`), then
leave only the file to be saved.  Each handler of the device has a lemma (`OpenHandled`,
`CreditHandled`, ..., `ReadDoneHandled`), each action one that uses them.  The proof
takes free slots in the order of their rank (`RankIsOnto`), because more than one read may
be produced by one call.

`CardProofs` proves `CacheAlwaysSound`, for a card, a cache and batches of any
size, and also for reads that fail and leave garbage in their slot: it is then seen in,
and stored to, no block but those in `garbled`.  `CacheSound` only speaks of what a read
returns; the
invariant `StreamInv` adds that a block is in one slot at most (`OneSlot`), that what
is cached is what was written last and, when clean, what the card has
(`CacheAgrees`), that what is not cached is on the card (`CardAgrees`), and that
flushed, stored and wanted contents are ordered (`Ordered`).  All actions but
loads and direct writes are a write-back of some slots followed by cleaning or
dropping them, so one lemma, `WriteBackKeeps`, serves them.  `StreamSpec` is the
cache alone, which `card` runs beside `RawStorage`.

`CardProofs` also proves, for cards of any size, any files of the host and any number
of calls, deletes, failures and resets,

* `UploadsAreSound`.  `Apart` says that no cluster belongs to two files or twice to
  one: every call rewrites one file at most, with clusters that no other file has
  (`Rewrites`).  On it rest `SessionInv` (an upload in progress has its session, its
  size and its progress) and `ContentInv` (the cached extents are those of the
  directory, and the clusters of the upload hold what was written so far);
* `StateAlwaysSurvives`, from `StateInv`: the slot that was loaded or saved last holds
  what was promised, and the other one an older record, or the newer one of a save that
  failed after it had been written, or none.  A boot may have found any slot or none, so
  which slot is under write does not follow from the card alone: `OddInA` says that
  slot A only ever holds odd generations and slot B even ones, and hence that two
  records never have the same.  Nothing is promised while the reader is `misled`.

Both are about cards on which no file was deleted while it was being uploaded
(`~orphan`): no command refuses that, and the rest of the upload then goes into clusters
that may be another file's.

`ReadingProofs` proves, for any books, pages, presses, pictures of the host, changes of
the card and failures,

* `ShownAlwaysSaved`: while a book is read, its page is on the panel, the
  loaded record is of that page and the reader's state has saved it;
* `CommitsAreShown`: progress changes only to a page that is on the panel;
* `RefreshesAreRight`: a gray pass refines the page it was loaded for, and a differential
  refresh starts from what is on the panel.

All three leave out what follows a request that was served on another screen than its own
(`stray`) and, where they speak of the panel, one that failed (`lost`), as the properties
say.  None of them is inductive, because the lifecycle, the warm book, the reader's state, the
planes and the buttons change at different awaits.  `Inv` says for each place of the task
what they know of each other: `BookInv`, in every state, the book, the page and what is
saved, and what a refresh under way finds in the planes; `ScreenInv`, as long as no
request was served on the wrong screen (`stray`), that the mode of the
buttons and a gray pass that is due follow the lifecycle; `GlassInv`, as long as in
addition the panel has not failed (`lost`), what the panel shows.  Each action has its
lemma.  The finding of `reading_buttons` is where `ScreenInv` ends: the request
served there is what `stray` records.

`ConsoleProofs` proves `OverlayAlwaysYields` for every number of pages, requests and
failures and every capacity.  The property compares two steps; `YieldInv` says that
while an overlay is being written the epoch has moved as soon as a request waits,
because both are changed by the same call (`reserve_and_enqueue`).  It also proves
`ConsoleNeverStuck`, from `StuckInv`: no more is outstanding than the request queue
holds whenever the console asks the aggregator, one more between a reservation and
the next drain, and a completion that waits for room is the last outstanding one beside
those in the channel.  A full channel and one that waits are then one too many for a
console that asks, so it does not ask and will drain.  It assumes
`CapacityAssumption`: the completion queue is at least as long as the request queue
(both are 16, `async_refresh.rs:65-66`).

`AnswersAlwaysOwed` proves `AnswerOwed`, for every number of keys in a burst, requests
and stopped invocations.  What could lose an answer is an older command: the code names a
command by its sequence, and an invocation counts from one again.  `OwedInv` follows the
order in which the commands were sent (`Before`): what is in the transmit buffer,
reserved or completed is older than the command in the console's hands, and that one
older than the frames behind it (`Passed`, `LineInv`).  So the answer that an immediate
command throws away (`replace_tx_response`) was owed to nobody: the host sends
a command that is no key only when it waits for nothing (`NothingOwedBefore`).  A
reservation is the only one of its sequence, so that a completion takes the right one, and
the display task forgets no request (`KeepsOngoing`, one case for each of its steps)
but that of a book it cannot show.

`ReaderAlwaysAgrees` proves `ReaderAgrees`, for every book, capacity and number of
failures.  Neither half is inductive.  `PictureInv` drops `job = Idle`: in every state the
panel shows the page of the engine, gray or not, or the menu, unless something was drawn
over it.  `ToldInv` says what the snapshot will be: the last event that waits and sets a
page, in the sink or else in the channel, sets the page of the engine, and the last that
sets the page count opens the book; where none waits, the snapshot already has it.  The
count is needed for the page, because a completion sets the page of an open book only.
`JoinedTells` says how two sequences of events tell together, so that moving events from the
sink to the channel (`PublishTells`) and from there into the snapshot (`CommitKeepsTold`)
tells the same.

Only model-checked: `LibraryIndex`, `Book`, and all liveness, which is out of the
prover's reach together with ENABLED and induction over data.
`BookLayout` and the modules above it compute with recursive functions over
documents and bytes, whose results for every input would need that induction.
`LibraryIndex` has no proof yet: `SelectedNeverLost` needs only the order of the
generations and who writes which slot; `LibraryTruth` needs the sort and the merge for
sequences of every length.

## 5. Where the program and its documents differ

`reading_buttons` expects a violation: Select, pressed before the library came
back with a restore pending, opens the book; the restore then opens it again, is
refused, and draws the error screen with the buttons in menu mode over an open
book (`mounted_display_task.rs:957`).  Back then returns to a menu that the reader
is not in, against `docs/reference/xteink-x4-firmware-flashing.md:107-108`.

The passing runs leave out, by a bound or an exception named in the module, what
the code is known to do against a document, a comment or an assertion of its own.
A configuration shows each of these:

* `MCUploadJournalReset.cfg` (`TargetPreserved`): a reset between the rename of the
  old book and its record hides it under its backup name (`sd_filesystem.rs:350`),
  against `docs/plans/2026-07-15-serial-transfer-throughput-phase-2.md:861-863`.
* `MCUploadJournalForeign.cfg` (`NoForeignCopy`): generations restart at 1 when both
  records are torn, and a rename into `BOOKS` that fails puts back whatever backup has
  the generation of the upload, also when the upload replaced no book
  (`sd_filesystem.rs:362-365`): a stale copy of another, or of a deleted, book appears
  under the new name.  The proof of `ShelfImplemented` met it; it takes three power cuts
  and one failure, more than the bounds of `journal`.
* `MCStorageOwnerCommitFails.cfg` (`AffinityHasHolder`): a commit that fails leaves
  the owner bound to a client without an upload (`storage_owner.rs:1163`), against
  `docs/specs/2026-07-01-library-menu-reading-flow-design.md:289-291`.
* `MCStorageOwnerScrolling.cfg` (`BuffersReturned`): the display and the refresh receive
  from one channel and may take each other's buffer
  (`mounted_reader_io.rs:279`, `library_refresh_task.rs:281` assert they do not).
* `ReaderPersistenceUnreadable.cfg` (`SavedSurvives`): a card error of the newer slot is
  taken for an empty slot and the next save overwrites it (`state_owner.rs:154`).
* `BulkUploadStuck.cfg` (`UploadEndsAnyway`): `complete_finish` returns on an owner
  error before it clears `pending_finish`, and the device stays in upload mode until
  a reset (`bulk_upload_runtime_control.rs:94`).  `complete_open` and
  `complete_abort` do the same (`bulk_upload_runtime.rs:124`): one refused open ends
  all transfers.  `BothEnd` excepts these (`Wedged`).
* `BulkUploadLoss.cfg` (`LossRecovered`): the host's poll and the device's idle timer
  last the same 60 seconds, so after a lost frame the device may have aborted what
  the host asks about.
* `MCLibraryIndexLeak.cfg` (`UploadReleased`): an error after the begin of the index
  publication leaves its upload with the owner (`library_publication.rs:237`),
  against the message of the test `library_publication.rs:209-212`.
* `MCCardGarbled.cfg` (`ReadsLatestAlways`): a batch read that fails may leave its bytes in
  the buffer of a slot that still has its old block (`block_stream.rs:139-147`),
  against `tests/block_stream.rs:101`.
* `MCBookLinks.cfg` (`LinksLandAlways`): an anchor takes the last page there is when it
  is met (`pagination.rs:63-67`).  When the character after it does not fit on that
  page, or a picture or a page break follows, what the link is about opens the next
  page (`:153-164`), and the link leads one page too early.  `LinksLandOnText` excepts
  these anchors (`TurnsPage`) and no others.

Other differences and surprises met while modelling; the models do them as the
code does:

* Journal: a journal slot that cannot be opened or read is skipped
  (`sd_filesystem.rs:479-485`).  When it is the one of the OldMoved record, the recovery
  takes the Verified record before it, sweeps the new copy, overwrites the OldMoved
  record with its Clear and succeeds: the replaced book is then in `TMP` only.  When
  neither can be read, the recovery succeeds with nothing done and the generations start
  over, so that the next upload may overwrite the record.  `gap` counts both, for the one
  book that was out of `BOOKS`.
* Reader state without the owner: a card error of a slot is taken for an absent slot
  here, too (`storage_access.rs:396-412`, 515-527); the reader goes on with an older
  state or an empty one, and the next save may overwrite the newest (`misled`).
* Reader state: a few changes are not marked dirty (`ChangeSilently`, `Prune`);
  what changes between the sleep acknowledgement and the release of the button
  is lost.
* Upload: a credit event on its way is added to the full window of a later status,
  and credits wait for the whole window and not for half of it.
* Readback: `complete_open` does not clear `pending_open` after an owner error or a
  size of 0 (`bulk_readback_runtime.rs:104-121`).  A legacy exchange may drop the
  lease of a bulk answer (`BufferReturned`, against the comment at
  `diagnostic_owner_storage.rs:755`), and a full window may not resume
  production (`ProductionResumes`, phase 2 plan :458-463).
* Library: a read error during selection hides a valid slot, and the selected slot
  becomes the target (`misread`); a failure after the commit leaves the menu on the
  old slot while a boot takes the new one; window reads check neither CRC nor
  generation; one completion settles the barrier of several triggers; mounted files
  are not dropped by an upload or delete before the next scan; a scan misses a
  book that was replaced and took a lower place.
* Reading: a turn whose plane could not be written still activates the refresh (:1113);
  a refused PrepareSleep does not cancel the gray pass; restore opens what is
  selected; a book replaced while its entry is retained opens with stale offsets
  (`OpensCurrent`, against `owner_book.rs:42-44`).
* Storage without the owner: a delete is not refused during an upload of that name; the
  session of a host that died is never cleared and blocks saves until a reset; an
  upload whose CRC does not match stays published; a begin that fails half-way
  has truncated the old book; `LibraryIndexStore::save` leaves its upload active
  when the codec fails, and a begin with a name too long for the session leaves it
  without one (`diag_storage.rs:199-211`): `UploadHasSession` is about the begins of
  names that fit, and a save of the index is one step.
* Console and engine: a select whose first page cannot be shown sends no
  completion, and its reservation stays (`lost`); an immediate answer throws away
  answers that wait in the transmit buffer (`Replaced`); sequences restart with
  every invocation, so that a late answer may meet a new request; a boundary turn
  clears the gray deadline; a failed cleanup of a preview answers the turn's
  sequence a second time; a turn after a pattern, or a select over an open book,
  drives only the dots that differ, and the picture is mixed.
* Books: a contents entry without a fragment leads to page 0
  (`compile.rs:148-153`), and so do anchors on images, breaks, rules and fitted
  rows; two font families from one file compile into a book that the validator
  refuses (`resource_indices.rs:57`, `link_validation.rs:99`); the rendition
  hash leaves out the dither option; an entry without a target shifts the parents of
  the later ones; the validator checks neither overlaps nor sections with a CRC
  of 0, so that two damages together may pass; fitted rows cut cell text and drop
  images; in a compound selector only the last part is matched (`css.rs:180-197`).

## 6. Not modelled, and the plan

Not modelled: debounce and hold timing (`input.rs`, `power.rs`; what presses and
holds request is in `Reading` and `ReaderPersistence`); the frame codecs
(a frame is a record, a garbled one is dropped); LZ4, which the writer never
uses; glyph shaping, justification, dithering, image decoding, ZIP and XML; the
controller's register sequences; the event log ring, traces and metrics;
`SetRefreshMode` and the probes of the mounted build; the host's negotiation, its
batching of the older upload and its wait for the library; command-line
diagnostics and Python scripts; SPI and the FAT library.

The plan, in order of importance:

1. Prove `LibraryTruth` and `SelectedNeverLost` of `LibraryIndex`.
2. An abstract specification of the library (a sorted set that changes in one
   step) that `LibraryIndex` implements.
3. `PowerHold` and the debounce as a function of the sampled button; COBS.
