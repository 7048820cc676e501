----------------------------- MODULE PageEngine -----------------------------
(***************************************************************************)
(* The display task of the build without the mounted owner, and the page   *)
(* engine it drives: page turns, the preview of the fast mode and its      *)
(* cleanup, the deferred gray overlay, the recovery after a failure of the *)
(* panel, the menu around the book, and the events the task publishes.     *)
(*                                                                         *)
(* Source: crates/xteink-x4-display/src/{engine,engine_flow,engine_state}, *)
(* runtime/{display_task,display_backend}.rs of the firmware.              *)
(*                                                                         *)
(* An operation of the panel is two steps, its start and its end: the      *)
(* other tasks run in between, and what they can change is the queue and   *)
(* the epoch.  Deadlines are a choice: a due gray overlay may start at     *)
(* every poll.  The controller state the engine records is left out, no    *)
(* decision reads it; so are the events that only reach the log.           *)
(***************************************************************************)
EXTENDS Integers, SequencesExt

CONSTANTS
    PageCount,      \* pages of the book, from 0
    EventCapacity,  \* room of RUNTIME_EVENT_CHANNEL
    MaxFaults,      \* bound: failures of the panel and of the card
    MaxPowers       \* bound: gestures of the power button

VARIABLES
    queue,      \* REQUEST_CHANNEL
    epoch,      \* REQUEST_EPOCH
    mode,       \* DISPLAY_MODE
    book,       \* the backend holds an open book
    engine,     \* DisplayEngine
    job,        \* what the display task is doing
    progress,   \* the page of the book in the reader state
    sink,       \* events of the sink that found no room in the channel
    events,     \* RUNTIME_EVENT_CHANNEL
    glass,      \* what the panel shows
    stray,      \* history: something was drawn the next differential does not start from
    powers, faults

engineVars ==
    <<queue, epoch, mode, book, engine, job, progress, sink, events, glass, stray, powers, faults>>

Pages == 0 .. PageCount - 1
NoPreview == [target |-> -1, epoch |-> 0, seq |-> 0]
PowerSequence == 0          \* u16::MAX, no console command of the model has it

Picture(kind, page) == [kind |-> kind, page |-> page]
PagePicture(page) == Picture("page", page)
Screen(kind) == Picture(kind, 0)
MenuPicture == Screen("menu")
Gray(page) == Picture("gray", page)

\* What is staged as the old picture: the fast base of a page, gray or not, or the
\* framebuffer of the menu, which holds the last notice drawn with it.
Shows(picture) ==
    IF picture.kind = "page" THEN glass \in {picture, Gray(picture.page)}
    ELSE glass.kind \in {"menu", "notice"}

\* A differential refresh drives the dots that differ between two pictures; when the
\* panel shows neither the old one, what comes out is of both.
Differential(from, to) == IF Shows(from) THEN to ELSE Screen("mixed")

\* A refresh of every dot of the menu, or of a notice in its place, that may fail.
Redrawn(kind) == {Screen(kind), Screen("lost")}

Idle == [at |-> "idle"]
Works == UNCHANGED faults
Fails == faults < MaxFaults /\ faults' = faults + 1

(***************************************************************************)
(* The events.  They go to the channel while it has room, the rest waits   *)
(* in the sink, and the task ends a request only when the sink is empty.   *)
(***************************************************************************)
DoneEvent(seq, ok, page) == [kind |-> "done", seq |-> seq, ok |-> ok, page |-> page]
PageEvent(page) == [kind |-> "page", page |-> page]
OpenEvent(page) == [kind |-> "open", page |-> page]
MenuEvent == [kind |-> "menu"]
FastEvent(fast) == [kind |-> "fast", fast |-> fast]
CommandEvent == [kind |-> "command"]

Fitting(pushed) ==
    LET room == EventCapacity - Len(events) IN IF Len(pushed) < room THEN Len(pushed) ELSE room

\* Pushes what fits, in order.
Push(pushed) ==
    /\ events' = events \o SubSeq(pushed, 1, Fitting(pushed))
    /\ sink' = SubSeq(pushed, Fitting(pushed) + 1, Len(pushed))

\* The end of a request, or of a poll: push and flush.
Publish(pushed) ==
    /\ Push(sink \o pushed)
    /\ job' = IF sink' = <<>> THEN Idle ELSE [at |-> "flush"]

Flush ==
    /\ job.at = "flush"
    /\ Len(events) < EventCapacity
    /\ Publish(<<>>)
    /\ UNCHANGED <<queue, epoch, mode, book, engine, progress, glass, stray, powers, faults>>

(***************************************************************************)
(* Where a request leads.                                                  *)
(***************************************************************************)
\* apply_page_turn and the page of Goto.
TargetOf(request) ==
    CASE request.kind = "next" -> IF engine.page < PageCount - 1 THEN engine.page + 1 ELSE PageCount - 1
      [] request.kind = "prev" -> IF engine.page > 0 THEN engine.page - 1 ELSE 0
      [] OTHER -> request.page

IsTurn(request) == request.kind \in {"next", "prev", "goto"}
IsMenu(request) == request.kind \in {"menuNext", "select", "back"}

\* What the engine answers without the panel.
NeedsPanel(request) ==
    \/ IsMenu(request)
    \/ /\ engine.phase # "fault"
       /\ \/ request.kind \in {"white", "full"}
          \/ IsTurn(request) /\ TargetOf(request) # engine.page

\* A page turn ends the waits of the page before it, even when it goes nowhere.
Interrupted == [engine EXCEPT !.gray = FALSE, !.preview = NoPreview]

\* set_progress after a request that succeeded.
Progress(page) == IF mode = "reading" THEN page ELSE progress

Take == job.at = "idle" /\ queue # <<>> /\ queue' = Tail(queue)

\* A request the engine answers at once: a fault, a turn at the boundary, a mode.
ServeAtOnce ==
    /\ Take
    /\ LET request == Head(queue) IN
        /\ ~NeedsPanel(request)
        /\ IF engine.phase = "fault"
             THEN /\ Publish(<<DoneEvent(request.seq, FALSE, engine.page)>>)
                  /\ UNCHANGED <<engine, progress>>
             ELSE /\ progress' = Progress(engine.page)
                  /\ IF IsTurn(request)
                       THEN /\ engine' = Interrupted
                            /\ Publish(<<DoneEvent(request.seq, TRUE, engine.page)>>)
                       ELSE /\ engine' = [engine EXCEPT !.fast = (request.kind = "fast")]
                            /\ Publish(<<FastEvent(request.kind = "fast"),
                                         DoneEvent(request.seq, TRUE, engine.page)>>)
    /\ UNCHANGED <<epoch, mode, book, glass, stray, powers, faults>>

Start ==
    /\ Take
    /\ NeedsPanel(Head(queue))
    /\ job' = [at |-> "request", request |-> Head(queue)]
    /\ engine' = IF IsTurn(Head(queue)) THEN Interrupted
                 ELSE IF Head(queue).kind \in {"menuNext", "back"}
                      THEN [Interrupted EXCEPT !.phase = "ready"]      \* cancel_overlay
                 ELSE engine
    /\ UNCHANGED <<epoch, mode, book, progress, sink, events, glass, stray, powers, faults>>

Serving(kinds) == job.at = "request" /\ job.request.kind \in kinds

(***************************************************************************)
(* The end of an operation of the engine.                                  *)
(***************************************************************************)
\* Mutant: the recovery draws the page the turn started from.
SeededOld(page) == engine.page

Seeded(page) == page

\* recover: one attempt, to the page that was asked for; then a fault until the next open.
Recover(seq, page) ==
    \/ /\ ~engine.recovered /\ book
       /\ faults < MaxFaults /\ faults' = faults + 1
       /\ engine' = [engine EXCEPT !.page = page, !.phase = "ready", !.recovered = TRUE]
       /\ glass' = PagePicture(Seeded(page))
       /\ stray' = FALSE
       /\ progress' = IF seq # <<>> THEN Progress(page) ELSE progress
       /\ Publish((IF page # engine.page THEN <<PageEvent(page)>> ELSE <<>>)
                  \o [i \in DOMAIN seq |-> DoneEvent(seq[i], TRUE, page)])
    \/ /\ IF book /\ ~engine.recovered
            THEN faults + 1 < MaxFaults /\ faults' = faults + 2
            ELSE IF book THEN Fails ELSE Works
       /\ engine' = [engine EXCEPT !.phase = "fault", !.recovered = TRUE]
       /\ glass' = IF book THEN Screen("lost") ELSE glass
       /\ stray' = TRUE
       /\ Publish([i \in DOMAIN seq |-> DoneEvent(seq[i], FALSE, engine.page)])
       /\ UNCHANGED progress

\* navigate and preview_navigate, after the refresh.
FinishTurn ==
    /\ Serving({"next", "prev", "goto"})
    /\ LET request == job.request
           page == TargetOf(request) IN
        \/ /\ book /\ Works
           /\ engine' = [engine EXCEPT
                !.page = page, !.recovered = FALSE,
                !.phase = IF engine.fast THEN "preview" ELSE "gray",
                !.gray = ~engine.fast,
                !.preview = IF engine.fast
                            THEN [target |-> page, epoch |-> epoch, seq |-> request.seq]
                            ELSE NoPreview]
           /\ glass' = Differential(PagePicture(engine.page), PagePicture(page))
           /\ UNCHANGED stray
           /\ progress' = Progress(page)
           /\ Publish(<<PageEvent(page), DoneEvent(request.seq, TRUE, page)>>)
        \/ Recover(<<request.seq>>, page)
    /\ UNCHANGED <<queue, epoch, mode, book, powers>>

\* run_probe: the page in its grays, or a pattern that has nothing of a page.
Probed(kind) == IF kind = "full" THEN Gray(engine.page) ELSE Screen("pattern")

\* probe: the diagnostic patterns, and the full refresh of the current page.
FinishProbe ==
    /\ Serving({"white", "full"})
    /\ LET request == job.request IN
        \/ /\ request.kind = "full" => book
           /\ Works
           /\ glass' = Probed(request.kind)
           /\ stray' = (request.kind # "full")
           /\ progress' = Progress(engine.page)
           /\ Publish(<<DoneEvent(request.seq, TRUE, engine.page)>>)
           /\ UNCHANGED engine
        \/ /\ IF request.kind = "full" /\ ~book THEN Works ELSE Fails
           /\ engine' = [engine EXCEPT !.phase = "fault", !.recovered = TRUE]
           /\ glass' = Screen("lost")
           /\ stray' = TRUE
           /\ Publish(<<DoneEvent(request.seq, FALSE, engine.page)>>)
           /\ UNCHANGED progress
    /\ UNCHANGED <<queue, epoch, mode, book, powers>>

(***************************************************************************)
(* advance: the cleanup of a preview, and the gray overlay.                *)
(***************************************************************************)
Poll == job.at = "idle" /\ queue = <<>> /\ mode = "reading"

\* cleanup_preview: given up when a request came since the preview.
StartCleanup ==
    /\ Poll
    /\ engine.phase = "preview"
    /\ engine' = [engine EXCEPT !.phase = "ready", !.preview = NoPreview]
    /\ job' = IF engine.preview # NoPreview /\ engine.preview.epoch = epoch
                THEN [at |-> "cleanup", seq |-> engine.preview.seq] ELSE job
    /\ UNCHANGED <<queue, epoch, mode, book, progress, sink, events, glass, stray, powers, faults>>

\* The panel drives what the preview left in its memories.  A failure is answered with
\* the sequence of the turn, whose answer was sent before.
FinishCleanup ==
    /\ job.at = "cleanup"
    /\ \/ /\ Works
          /\ engine' = [engine EXCEPT !.phase = "gray", !.gray = TRUE]
          /\ Publish(<<>>)
          /\ UNCHANGED <<progress, glass, stray>>
       \/ Recover(<<job.seq>>, engine.page)
    /\ UNCHANGED <<queue, epoch, mode, book, powers>>

StartOverlay ==
    /\ Poll
    /\ engine.phase = "gray" /\ engine.gray
    /\ engine' = [engine EXCEPT !.phase = "ready", !.gray = FALSE]
    /\ job' = [at |-> "overlay", epoch |-> epoch]
    /\ UNCHANGED <<queue, epoch, mode, book, progress, sink, events, glass, stray, powers, faults>>

\* Mutant: the epoch is not looked at again before the overlay is activated.
UndisturbedSince(before) == TRUE

Undisturbed(before) == epoch = before

\* render_staged_overlay: cancelled at a strip, or activated after the last look.
CancelOverlay ==
    /\ job.at = "overlay"
    /\ ~Undisturbed(job.epoch)
    /\ Publish(<<>>)
    /\ UNCHANGED <<queue, epoch, mode, book, engine, progress, glass, stray, powers, faults>>

ActivateOverlay ==
    /\ job.at = "overlay"
    /\ Undisturbed(job.epoch)
    /\ glass' = IF glass.kind = "page" THEN Gray(engine.page) ELSE glass
    /\ job' = [job EXCEPT !.at = "base"]
    /\ UNCHANGED <<queue, epoch, mode, book, engine, progress, sink, events, stray, powers, faults>>

\* base_sync: written, or given up; the glass keeps the gray page.
FinishBase ==
    /\ job.at = "base"
    /\ Publish(<<>>)
    /\ UNCHANGED <<queue, epoch, mode, book, engine, progress, glass, stray, powers, faults>>

\* A strip of the overlay or of the base cannot be read or written.
OverlayFails ==
    /\ job.at \in {"overlay", "base"}
    /\ Recover(<<>>, engine.page)
    /\ UNCHANGED <<queue, epoch, mode, book, powers>>

(***************************************************************************)
(* The menu.                                                               *)
(***************************************************************************)
MenuAnswer == <<DoneEvent(job.request.seq, TRUE, engine.page)>>

\* The menu, drawn while the display is in this mode, covers a page; or it is lost.
Covers(shown) == shown = "reading" \/ glass'.kind = "lost"

\* MenuNext and MenuPrev: a transition, or a clean refresh when it failed.
FinishMenu ==
    /\ Serving({"menuNext"})
    /\ \/ /\ Works
          /\ glass' = Differential(MenuPicture, MenuPicture)
          /\ stray' = (stray \/ mode = "reading")
       \/ Fails /\ glass' \in Redrawn("menu") /\ stray' = Covers(mode)
    /\ Publish(MenuAnswer)
    /\ UNCHANGED <<queue, epoch, mode, book, engine, progress, powers>>

\* MenuBack: the menu, the mode, the save of the state, the scan of the card.
FinishBack ==
    /\ Serving({"back"})
    /\ \/ /\ book /\ Works
          /\ glass' = Differential(PagePicture(engine.page), MenuPicture)
          /\ UNCHANGED stray
       \/ /\ IF book THEN Fails ELSE Works
          /\ glass' = MenuPicture
          /\ stray' = FALSE
       \/ Fails /\ glass' \in Redrawn("menu") \cup Redrawn("notice") /\ stray' = Covers("menu")
    /\ book' = FALSE
    /\ mode' = "menu"
    /\ Publish(<<MenuEvent>> \o MenuAnswer)
    /\ UNCHANGED <<queue, epoch, engine, progress, powers>>

NewEngine(page, phase) ==
    [page |-> page, phase |-> phase, gray |-> phase = "gray", preview |-> NoPreview,
     recovered |-> phase = "fault", fast |-> FALSE]

\* MenuSelect opens the book at its page: over the menu, or cleanly when that fails.
FinishSelect ==
    /\ Serving({"select"})
    /\ \/ /\ Works
          /\ glass' = Differential(MenuPicture, PagePicture(progress))
          /\ stray' = (stray \/ mode = "reading")
       \/ Fails /\ glass' = PagePicture(progress) /\ stray' = FALSE
    /\ engine' = NewEngine(progress, "gray")
    /\ book' = TRUE
    /\ mode' = "reading"
    /\ Publish(<<OpenEvent(progress)>> \o <<DoneEvent(job.request.seq, TRUE, progress)>>)
    /\ UNCHANGED <<queue, epoch, progress, powers>>

\* The book cannot be opened, or the library is not ready and is scanned first.
SelectRefused ==
    /\ Serving({"select"})
    /\ Fails
    /\ glass' \in Redrawn("menu")
    /\ stray' = Covers(mode)
    /\ Publish(MenuAnswer)
    /\ UNCHANGED <<queue, epoch, mode, book, engine, progress, powers>>

\* The first page could not be shown: the task goes on without an answer.
SelectLost ==
    /\ Serving({"select"})
    /\ faults + 1 < MaxFaults /\ faults' = faults + 2
    /\ engine' = NewEngine(0, "fault")
    /\ glass' = Screen("lost")
    /\ stray' = TRUE
    /\ book' = FALSE
    /\ job' = Idle
    /\ UNCHANGED <<queue, epoch, mode, progress, sink, events, powers>>

(***************************************************************************)
(* The power button: a full refresh, or the preparation of the sleep.      *)
(***************************************************************************)
PowerRefresh ==
    /\ job.at = "idle" /\ powers < MaxPowers /\ powers' = powers + 1
    /\ IF mode = "menu"
         THEN /\ \/ Works /\ glass' = MenuPicture
                 \/ Fails /\ glass' = Screen("lost")
              /\ stray' = Covers(mode)
              /\ Publish(<<>>)
         ELSE IF engine.phase = "fault"
         THEN /\ Publish(<<DoneEvent(PowerSequence, FALSE, engine.page)>>)
              /\ UNCHANGED <<glass, stray, faults>>
         ELSE /\ job' = [at |-> "request", request |-> [kind |-> "full", seq |-> PowerSequence]]
              /\ UNCHANGED <<sink, events, glass, stray, faults>>
    /\ UNCHANGED <<queue, epoch, mode, book, engine, progress>>

\* The state could not be saved, the sleep is called off; a success ends the run.
SleepRefused ==
    /\ job.at = "idle" /\ powers < MaxPowers /\ powers' = powers + 1
    /\ Fails
    /\ glass' \in Redrawn("notice")
    /\ stray' = Covers(mode)
    /\ progress' = Progress(engine.page)
    /\ Publish(<<>>)
    /\ UNCHANGED <<queue, epoch, mode, book, engine>>

\* The start: the menu, or the book that was open when the reader was put to sleep.
EngineInit ==
    /\ queue = <<>> /\ epoch = 0 /\ job = Idle /\ sink = <<>>
    /\ stray = FALSE /\ powers = 0 /\ faults = 0
    /\ progress \in Pages
    /\ \/ /\ mode = "menu" /\ book = FALSE
          /\ engine = NewEngine(0, "ready") /\ events = <<>> /\ glass = MenuPicture
       \/ /\ mode = "reading" /\ book = TRUE
          /\ engine = NewEngine(progress, "gray") /\ events = <<OpenEvent(progress)>>
          /\ glass = PagePicture(progress)

EngineNext ==
    \/ Flush \/ ServeAtOnce \/ Start \/ FinishTurn \/ FinishProbe
    \/ StartCleanup \/ FinishCleanup
    \/ StartOverlay \/ CancelOverlay \/ ActivateOverlay \/ FinishBase \/ OverlayFails
    \/ FinishMenu \/ FinishBack \/ FinishSelect \/ SelectRefused
    \/ PowerRefresh \/ SleepRefused
=============================================================================
