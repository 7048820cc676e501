------------------------------- MODULE Reading -------------------------------
(***************************************************************************)
(* The menu, the reading of a book and what the panel shows: the buttons,  *)
(* the queue of display requests, mounted_display_task with its lifecycle, *)
(* the deferred gray refinement, and the two planes of the controller's    *)
(* RAM from which a differential refresh makes the next picture.           *)
(*                                                                         *)
(* Source: runtime/{mounted_display_task,mounted_reader_io,input_task}.rs, *)
(* owner_book.rs, owner_reader.rs, async_refresh.rs, menu.rs of the        *)
(* firmware, ui_render.rs, panel.rs and the ssd1677 driver.                *)
(*                                                                         *)
(* A picture is a record of what it shows.  An action goes from one await  *)
(* at which another task can see or change something to the next: within   *)
(* it only the queue can grow, and the queue is read between requests.     *)
(***************************************************************************)
EXTENDS Integers, SequencesExt, FiniteSetsExt

CONSTANTS
    Books,          \* 1 .. n, in the order of the menu
    PageCount,      \* pages of every book, from 0
    QueueCapacity,  \* PAGE_TURN_QUEUE_CAPACITY
    HostRequests,   \* requests the host may send besides those of a button
    MaxPresses,     \* bound: buttons and requests of the host
    MaxPower,       \* bound: gestures of the power button
    MaxChanges,     \* bound: changes of the card
    MaxFaults       \* bound: failures of the card and of the panel

ASSUME ConstantsAssumption ==
    /\ Books \subseteq Nat \ {0} /\ Books # {} /\ IsFiniteSet(Books)
    /\ PageCount \in Nat \ {0} /\ QueueCapacity \in Nat \ {0}
    /\ HostRequests \subseteq {"goto", "refresh", "pattern", "Next", "Select", "Back", "TurnNext"}
    /\ MaxPresses \in Nat /\ MaxPower \in Nat /\ MaxChanges \in Nat /\ MaxFaults \in Nat

VARIABLES
    card,       \* the version of each book on the card, 0 when there is none
    queue,      \* the requests for the display task
    epoch,      \* REQUEST_EPOCH
    bump,       \* the input task has sent a request and not yet counted it
    mode,       \* DISPLAY_MODE
    task,       \* where the display task is, and for whom it serves a request
    life,       \* OwnerReaderLifecycle
    book, info, \* the open book and the page whose record is loaded, kept warm
    errorShown, \* open_error
    menu,       \* the books listed, and the one selected
    reader,     \* ReaderState in RAM
    gray,       \* OwnerGrayRefinement
    restoring,  \* restore_reading
    fb,         \* the picture in the framebuffer of the menu
    red, black, \* the planes in the controller's RAM
    glass,      \* what the panel shows
    lost,       \* history: the panel failed since its last clean refresh
    stray,      \* history: a request was served on another screen than its own
    refreshes,  \* completions of the library that have not arrived
    presses, powers, changes, faults

panel == <<red, black, glass, lost>>
warm == <<book, info>>
marks == <<restoring, stray>>
bounds == <<presses, powers, changes>>
input == <<queue, epoch, bump, presses>>
outside == <<card, refreshes, powers, changes>>
vars == <<card, refreshes, bounds, faults, queue, epoch, bump, mode, task, life, warm, errorShown,
          menu, reader, gray, restoring, fb, panel, stray>>

Closed == [name |-> 0, version |-> 0]
NoInfo == [version |-> 0, page |-> -1]
NoGray == [page |-> -1, epoch |-> 0]
NoBook == 0

Picture(kind, name, version, page) == [kind |-> kind, name |-> name, version |-> version, page |-> page]
MenuOf(name) == Picture("menu", name, 0, 0)
Screen(kind) == Picture(kind, 0, 0, 0)
PageOf(opened, loaded) ==
    Picture("page", opened.name, IF loaded.version = opened.version THEN opened.version ELSE 0, loaded.page)

\* The version of the file the open book names, as it is on the card now.
FileVersion == IF book = Closed THEN 0 ELSE card[book.name]

Works == UNCHANGED faults
Fails == faults < MaxFaults /\ faults' = faults + 1

Idle == [at |-> "idle", by |-> "nobody"]
At(place) == task.at = place

(***************************************************************************)
(* The buttons.  The mode is read when the button is pressed, the request  *)
(* is counted only after an event has been sent.                           *)
(***************************************************************************)
\* button_to_request: Select, Back, one of Up and Left, one of Down and Right.
RequestOf(button) ==
    CASE mode = "menu" /\ button # "Back" -> button
      [] mode = "reading" /\ button = "Next" -> "TurnNext"
      [] mode = "reading" /\ button = "Prev" -> "TurnPrev"
      [] mode = "reading" /\ button \in {"Select", "Back"} -> "Back"
      [] mode = "error" /\ button \in {"Select", "Back"} -> button
      [] OTHER -> "none"

Press ==
    /\ ~bump
    /\ presses < MaxPresses
    /\ presses' = presses + 1
    /\ \E request \in {RequestOf(b) : b \in {"Next", "Prev", "Select", "Back"}} \cup HostRequests :
        /\ request # "none"
        /\ Len(queue) < QueueCapacity
        /\ queue' = Append(queue, request)
        /\ bump' = TRUE
    /\ UNCHANGED <<outside, faults, epoch, mode, task, life, warm, errorShown, menu, reader, gray,
                   marks, fb, panel>>

Bump ==
    /\ bump
    /\ bump' = FALSE
    /\ epoch' = epoch + 1
    /\ UNCHANGED <<outside, faults, queue, presses, mode, task, life, warm, errorShown, menu, reader,
                   gray, marks, fb, panel>>

(***************************************************************************)
(* The panel.  A step ends with a refresh that works or fails; the planes  *)
(* it writes first may fail too, and then the refresh does not happen.     *)
(***************************************************************************)
\* activate_differential, activate_fast_differential: from red to black.
Differential(previous, target) ==
    /\ red' = previous
    /\ black' = target
    /\ glass' = target
    /\ lost' = lost

\* activate_clean, render_ui_bw and full_refresh_current_page: whatever was there.
Cleanly(target) ==
    /\ red' = target
    /\ black' = target
    /\ glass' = target
    /\ lost' = FALSE

\* A plane could not be written or the refresh failed.
PanelFails ==
    /\ Fails
    /\ lost' = TRUE
    /\ UNCHANGED <<red, black, glass>>

\* render_ui_transition and the menu's own staging: the framebuffer goes to red
\* before the new picture is composed in it.
Previous(next) == fb

\* render_ui_transition, to a picture composed in the framebuffer.
Transition(next) ==
    /\ Differential(Previous(next), next)
    /\ fb' = next

(***************************************************************************)
(* A request is taken, and its end: what the loop does after               *)
(* handle_request.                                                         *)
(***************************************************************************)
\* Mutant: a pending refinement stays.
CancelNot == gray' = gray

Cancel == gray' = NoGray

\* gray.schedule, with the epoch of this moment.
Schedule(page) == gray' = [page |-> page, epoch |-> epoch]

\* Requests go to the display task in order, before power and completions.
Turnable == At("idle") /\ queue # <<>>
Serves(request) == Turnable /\ Head(queue) = request
Taken == queue' = Tail(queue)

\* handle_request returns: the restore of the boot sets the menu when it fails.
Ends(success) ==
    /\ task' = Idle
    /\ reader' = IF task.by = "restore" /\ ~success
                 THEN [reader EXCEPT !.mode = "menu", !.active = NoBook] ELSE reader
    /\ UNCHANGED gray

\* A request that does nothing.
Refused == UNCHANGED <<mode, life, warm, errorShown, menu, reader, fb, panel, faults>>

\* The request was made for another screen and does harm on this one.
Strays(harmful) == stray' = (stray \/ harmful)

Listed(name) == IF name \in menu.list THEN name ELSE NoBook

\* MenuState::transition, wrapping around.
Neighbour(request) ==
    LET after == {b \in menu.list : b > menu.selected}
        before == {b \in menu.list : b < menu.selected}
    IN IF request = "Next" THEN IF after # {} THEN Min(after) ELSE Min(menu.list)
       ELSE IF before # {} THEN Max(before) ELSE Max(menu.list)

\* MenuNext and MenuPrev.  The framebuffer is composed though red failed.
Move ==
    /\ Serves("Next") \/ Serves("Prev")
    /\ Taken /\ Cancel
    /\ Strays(life.phase = "reading")
    /\ LET to == IF menu.list = {} THEN NoBook ELSE Neighbour(Head(queue))
       IN /\ menu' = [menu EXCEPT !.selected = to]
          /\ reader' = IF to = NoBook THEN reader ELSE [reader EXCEPT !.selected = to]
          /\ \/ Works /\ Transition(MenuOf(to))
             \/ PanelFails /\ fb' = MenuOf(to)
    /\ UNCHANGED <<outside, epoch, bump, presses, mode, task, life, warm, errorShown, restoring>>

(***************************************************************************)
(* MenuSelect: open the book, load the page, stage it, show it.            *)
(***************************************************************************)
Selected == Listed(menu.selected)

\* lookup_page, else the first page.
SavedPage(name, version) ==
    IF reader.pages[name].version = version THEN reader.pages[name].page ELSE 0

\* can_reuse_warm_open, given the rendition of the book that is kept, twice.
WarmOpen(name) ==
    /\ book # Closed /\ info # NoInfo
    /\ book.name = name
    /\ SavedPage(name, book.version) = info.page

Opens(from) == task' = [at |-> from, by |-> task.by]

\* begin_open, open_book and metadata_opened.
Open(name) ==
    \/ /\ life.phase = "menu"
       /\ \/ WarmOpen(name) /\ Works /\ book' = book /\ info' = info
          \/ /\ ~WarmOpen(name) /\ Works /\ card[name] # 0
             /\ book' = [name |-> name, version |-> card[name]]
             /\ info' = info
       /\ life' = [phase |-> "rendering", page |-> Min({SavedPage(name, book'.version), PageCount - 1})]
       /\ Opens(IF WarmOpen(name) THEN "Stage" ELSE "Page")
    \/ /\ life.phase = "menu"
       /\ ~WarmOpen(name)
       /\ IF card[name] = 0 THEN Works ELSE Fails
       /\ book' = Closed /\ info' = info
       /\ UNCHANGED life
       /\ Opens("Error")
    \/ /\ life.phase # "menu"
       /\ Works
       /\ UNCHANGED <<warm, life>>
       /\ Opens("Error")

Select ==
    /\ Serves("Select")
    /\ Taken /\ Cancel
    /\ Strays(life.phase = "reading")
    /\ \/ Selected # NoBook /\ Open(Selected)
       \/ Selected = NoBook /\ Works /\ UNCHANGED <<task, life, warm>>
    /\ UNCHANGED <<outside, epoch, bump, presses, mode, errorShown, menu, reader, restoring, fb, panel>>

\* The MenuSelect of the boot, which does not come from the queue.
Restore ==
    /\ At("Restore")
    /\ Strays(life.phase = "reading")
    /\ \/ Selected # NoBook /\ Open(Selected) /\ UNCHANGED <<reader, gray>>
       \/ Selected = NoBook /\ Works /\ Ends(FALSE) /\ UNCHANGED <<life, warm>>
    /\ UNCHANGED <<outside, input, mode, errorShown, menu, restoring, fb, panel>>

\* load_page: the record is read from the file as it is now.
Load(page) == [version |-> FileVersion, page |-> page]

LoadPage ==
    /\ At("Page")
    /\ \/ /\ FileVersion # 0 /\ Works
          /\ info' = Load(life.page)
          /\ life' = life
          /\ Opens("Stage")
       \/ /\ IF FileVersion # book.version THEN Works ELSE Fails
          /\ info' = NoInfo
          /\ life' = [phase |-> "menu", page |-> 0]
          /\ Opens("Error")
    /\ UNCHANGED <<outside, input, mode, book, errorShown, menu, reader, gray, marks, fb, panel>>

\* The open failed after the page was loaded: book and page are forgotten.
Abandon ==
    /\ life' = [phase |-> "menu", page |-> 0]
    /\ book' = Closed /\ info' = NoInfo
    /\ Opens("Error")

\* Both planes are written, and the buttons are for the book from now on.
Stage ==
    /\ At("Stage")
    /\ \/ /\ FileVersion # 0 /\ Works
          /\ red' = fb /\ black' = PageOf(book, info)
          /\ mode' = "reading"
          /\ Opens("Show")
          /\ UNCHANGED <<life, warm, glass, lost>>
       \/ /\ IF FileVersion # book.version THEN Works ELSE Fails
          /\ red' \in {red, fb} /\ black' \in {black, Screen("partial")}
          /\ Abandon
          /\ UNCHANGED <<mode, glass, lost>>
    /\ UNCHANGED <<outside, input, errorShown, menu, reader, gray, marks, fb>>

\* Mutant: the page is saved before it is known to be shown.
CommitsAnyway(shown) == TRUE

\* commit_visible_page
Commits(shown) == shown

SaveCommitted(name, page, shown) ==
    IF Commits(shown) /\ name # NoBook
    THEN [mode |-> "reading", active |-> name, selected |-> name,
          pages |-> [reader.pages EXCEPT ![name] = [version |-> book.version, page |-> page]]]
    ELSE reader

Show ==
    /\ At("Show")
    /\ \/ /\ Works
          /\ Differential(red, black)
          /\ life' = [life EXCEPT !.phase = "reading"]
          /\ mode' = "reading"
          /\ errorShown' = FALSE
          /\ Schedule(life.page)
          /\ task' = Idle
          /\ reader' = SaveCommitted(book.name, life.page, TRUE)
          /\ UNCHANGED warm
       \/ /\ PanelFails
          /\ Abandon
          /\ reader' = SaveCommitted(book.name, life.page, FALSE)
          /\ UNCHANGED <<mode, errorShown, gray>>
    /\ UNCHANGED <<outside, input, menu, marks, fb>>

\* show_open_error, whether it can be shown or not.
ShowError ==
    /\ At("Error")
    /\ \/ Works /\ Transition(Screen("error"))
       \/ PanelFails /\ fb' = Screen("error")
    /\ mode' = "error"
    /\ errorShown' = TRUE
    /\ Ends(FALSE)
    /\ UNCHANGED <<outside, input, life, warm, menu, marks>>

(***************************************************************************)
(* Turn and Goto.  A plane that cannot be written does not stop the        *)
(* refresh: the panel then shows what black RAM happened to hold.          *)
(***************************************************************************)
\* begin_turn and begin_goto clamp.
Target(request) ==
    CASE request = "TurnNext" -> Min({life.page + 1, PageCount - 1})
      [] request = "TurnPrev" -> Max({life.page - 1, 0})
      [] OTHER -> PageCount - 1

\* Mutant: a turn ends on the page that was asked for.
FinishAnyway(from, target, shown) == target

\* finish_turn
Finish(from, target, shown) == IF shown THEN target ELSE from

TurnShows(shown, next) ==
    /\ life' = [life EXCEPT !.page = Finish(life.page, next.page, shown)]
    /\ info' = IF shown THEN next ELSE info
    /\ reader' = SaveCommitted(reader.active, next.page, shown)

Turn ==
    /\ Serves("TurnNext") \/ Serves("TurnPrev") \/ Serves("goto")
    /\ Taken
    /\ LET to == Target(Head(queue))
           next == Load(to)
       IN \/ /\ life.phase # "reading"
             /\ Cancel /\ Refused
          \/ /\ life.phase = "reading" /\ to = life.page
             /\ Schedule(to) /\ Refused
          \/ /\ life.phase = "reading" /\ to # life.page
             /\ FileVersion # 0 /\ Works
             /\ Differential(PageOf(book, info), PageOf(book, next))
             /\ TurnShows(TRUE, next)
             /\ IF reader.active = NoBook THEN Cancel ELSE Schedule(to)
          \/ /\ life.phase = "reading" /\ to # life.page
             /\ IF FileVersion # book.version THEN Works ELSE Fails
             /\ TurnShows(FALSE, next)
             /\ lost' = TRUE /\ glass' = black
             /\ red' \in {red, PageOf(book, info)}
             /\ Cancel
             /\ UNCHANGED black
    /\ UNCHANGED <<outside, epoch, bump, presses, mode, task, book, errorShown, menu, marks, fb>>

(***************************************************************************)
(* MenuBack                                                                *)
(***************************************************************************)
Back ==
    /\ Serves("Back")
    /\ Taken /\ Cancel
    /\ Strays(life.phase = "menu" /\ ~errorShown)
    /\ \/ /\ errorShown
          /\ \/ /\ Works
                /\ Transition(MenuOf(menu.selected))
                /\ errorShown' = FALSE
                /\ mode' = "menu"
             \/ PanelFails /\ fb' \in {fb, MenuOf(menu.selected)} /\ UNCHANGED <<mode, errorShown>>
          /\ UNCHANGED task
       \/ /\ ~errorShown /\ info = NoInfo
          /\ UNCHANGED <<mode, task, errorShown, fb, panel, faults>>
       \/ /\ ~errorShown /\ info # NoInfo
          /\ fb' = MenuOf(menu.selected)
          /\ \/ /\ Works
                /\ red' = fb' /\ black' = fb'
                /\ mode' = "menu"
                /\ task' = [at |-> "Leave", by |-> "queue"]
                /\ UNCHANGED <<glass, lost>>
             \/ /\ PanelFails
                /\ mode' = "reading"
                /\ UNCHANGED task
          /\ UNCHANGED errorShown
    /\ UNCHANGED <<outside, epoch, bump, presses, life, warm, menu, reader, restoring>>

\* lifecycle.close, and only when the menu was shown.
Closes(shown) == shown /\ life.phase = "reading"

Leave ==
    /\ At("Leave")
    /\ \E shown \in BOOLEAN :
        /\ IF shown THEN Works /\ Cleanly(black) ELSE PanelFails
        /\ IF Closes(shown)
           THEN /\ life' = [phase |-> "menu", page |-> 0]
                /\ reader' = [reader EXCEPT !.mode = "menu", !.active = NoBook]
                /\ mode' = "menu"
           ELSE mode' = "reading" /\ UNCHANGED <<life, reader>>
    /\ task' = Idle
    /\ UNCHANGED <<outside, input, warm, errorShown, menu, gray, marks, fb>>

(***************************************************************************)
(* A full refresh, by the power button or by the host; the sleep that is   *)
(* refused because the state could not be saved; a test pattern.           *)
(***************************************************************************)
Current == IF mode = "reading" THEN PageOf(book, info) ELSE fb

FullRefresh ==
    \/ /\ mode = "reading" /\ (book = Closed \/ info = NoInfo)
       /\ Works /\ Cancel
       /\ UNCHANGED panel
    \/ /\ mode # "reading" \/ (book # Closed /\ info # NoInfo)
       /\ \/ /\ mode = "reading" => FileVersion # 0
             /\ Works
             /\ Cleanly(Current)
             /\ IF mode = "reading" /\ life.phase = "reading" THEN Schedule(life.page) ELSE Cancel
          \/ /\ PanelFails
             /\ Cancel
          \/ /\ mode = "reading" /\ FileVersion # book.version
             /\ Works /\ Cancel
             /\ UNCHANGED panel

\* The host's probes: its full refresh is scheduled for gray as a turn is.
Probe ==
    /\ Serves("refresh") \/ Serves("pattern")
    /\ Taken
    /\ IF Head(queue) = "refresh" THEN FullRefresh
       ELSE Works /\ Cancel /\ glass' = Screen("pattern") /\ UNCHANGED <<red, black, lost>>
    /\ UNCHANGED <<outside, epoch, bump, presses, mode, task, life, warm, errorShown, menu, reader,
                   marks, fb>>

Quiet == At("idle") /\ queue = <<>>

Power ==
    /\ Quiet
    /\ powers < MaxPower
    /\ powers' = powers + 1
    /\ FullRefresh
    /\ UNCHANGED <<card, refreshes, changes, input, mode, task, life, warm, errorShown, menu, reader,
                   marks, fb>>

\* show_sleep_cancelled: over the page, or instead of the menu.  A refinement
\* that is pending stays so.
SleepRefused ==
    /\ Quiet
    /\ powers < MaxPower
    /\ powers' = powers + 1
    /\ Fails
    /\ IF mode = "reading" /\ book # Closed /\ info # NoInfo
       THEN /\ fb' = Screen("notice")
            /\ Differential(PageOf(book, info), Screen("notice"))
       ELSE Transition(Screen("notice"))
    /\ UNCHANGED <<card, refreshes, changes, input, mode, task, life, warm, errorShown, menu, reader,
                   gray, marks>>

(***************************************************************************)
(* A refresh of the library is complete.                                   *)
(***************************************************************************)
Present == {b \in Books : card[b] # 0}

\* The place of the selected book, or the one at its place, or the last.
Adopted ==
    LET hash == IF Selected # NoBook THEN Selected ELSE reader.selected
        next == {b \in Present : b >= menu.selected}
    IN CASE Present = {} -> NoBook
         [] hash \in Present -> hash
         [] OTHER -> IF next # {} THEN Min(next) ELSE Max(Present)

\* prune_state_from_index, which forgets the active book if it is gone.
Pruned(state) ==
    LET gone(b) == b \notin Present
    IN [state EXCEPT !.pages = [b \in Books |-> IF gone(b) THEN NoInfo ELSE @[b]],
                     !.mode = IF state.active # NoBook /\ gone(state.active) THEN "menu" ELSE @,
                     !.active = IF @ # NoBook /\ gone(@) THEN NoBook ELSE @]

Refreshed ==
    /\ Quiet
    /\ refreshes > 0
    /\ refreshes' = refreshes - 1
    /\ \/ /\ menu' = [list |-> Present, selected |-> Adopted]
          /\ LET state == [reader EXCEPT !.selected = Adopted]
             IN reader' = IF Present = {} THEN state ELSE Pruned(state)
          /\ \/ mode = "menu" /\ Works /\ Transition(MenuOf(Adopted))
             \/ mode = "menu" /\ PanelFails /\ fb' = MenuOf(Adopted)
             \/ mode # "menu" /\ Works /\ UNCHANGED <<fb, panel>>
          /\ task' = IF restoring /\ (reader'.mode = "reading" \/ Present = {})
                     THEN [at |-> "Restore", by |-> "restore"] ELSE Idle
       \/ /\ Fails
          /\ task' = IF restoring THEN [at |-> "Restore", by |-> "restore"] ELSE Idle
          /\ UNCHANGED <<menu, reader, fb, panel>>
    /\ restoring' = FALSE
    /\ UNCHANGED <<card, bounds, stray, input, mode, life, warm, errorShown, gray>>

\* An upload replaces a book or a command deletes it; a refresh will follow.
Change ==
    /\ changes < MaxChanges
    /\ changes' = changes + 1
    /\ \E b \in Books : card' \in {[card EXCEPT ![b] = changes + 2], [card EXCEPT ![b] = 0]}
    /\ card' # card
    /\ refreshes' = refreshes + 1
    /\ UNCHANGED <<powers, faults, input, mode, task, life, warm, errorShown, menu, reader, gray,
                   marks, fb, panel>>

(***************************************************************************)
(* The gray refinement of the page, when nothing else has come for a while.*)
(***************************************************************************)
Overlay(plane) == Picture(plane, book.name, book.version, info.page)

\* take_due.  The delay is not modelled: it is due at any time.
Refine ==
    /\ Quiet
    /\ gray # NoGray
    /\ gray' = NoGray
    /\ task' = IF gray.epoch = epoch /\ book # Closed /\ info # NoInfo
               THEN [at |-> "Lsb", by |-> "gray"] ELSE Idle
    /\ UNCHANGED <<outside, faults, input, mode, life, warm, errorShown, menu, reader, marks, fb, panel>>

\* stage_plane_for_epoch: all of it, or a part when a request was counted or
\* the card failed.
StagesPlane(place, next, plane) ==
    /\ At(place)
    /\ \/ /\ FileVersion # 0 /\ Works
          /\ plane' = Overlay(place)
          /\ task' = [at |-> next, by |-> "gray"]
       \/ /\ IF FileVersion # book.version \/ bump \/ queue # <<>> THEN Works ELSE Fails
          /\ plane' \in {plane, Screen("partial")}
          /\ task' = Idle
    /\ UNCHANGED <<outside, input, mode, life, warm, errorShown, menu, reader, gray, marks, fb,
                   glass, lost>>

StageLsb == StagesPlane("Lsb", "Msb", black) /\ UNCHANGED red
StageMsb == StagesPlane("Msb", "Gray", red) /\ UNCHANGED black

\* The last look at the epoch, and activate_staged_gray.
ShowGray ==
    /\ At("Gray")
    /\ \/ /\ Works
          /\ glass' = Overlay("gray")
          /\ UNCHANGED lost
       \/ /\ IF bump \/ queue # <<>> THEN Works /\ UNCHANGED lost ELSE Fails /\ lost' = TRUE
          /\ UNCHANGED glass
    /\ task' = Idle
    /\ UNCHANGED <<outside, input, mode, life, warm, errorShown, menu, reader, gray, marks, fb,
                   red, black>>

Request == Move \/ Select \/ Turn \/ Back \/ Probe
Opening == Restore \/ LoadPage \/ Stage \/ Show \/ ShowError
Refinement == Refine \/ StageLsb \/ StageMsb \/ ShowGray

Next ==
    \/ Press \/ Bump \/ Request \/ Opening \/ Leave \/ Power \/ SleepRefused \/ Refreshed
    \/ Change \/ Refinement

\* After the boot: the menu is shown, and a book that was being read waits for
\* the first refresh of the library to be opened again.
Init ==
    /\ card = [b \in Books |-> 1]
    /\ queue = <<>> /\ epoch = 0 /\ bump = FALSE
    /\ mode = "menu"
    /\ task = Idle
    /\ life = [phase |-> "menu", page |-> 0]
    /\ book = Closed /\ info = NoInfo
    /\ errorShown = FALSE
    /\ gray = NoGray
    /\ restoring \in BOOLEAN
    /\ \E b \in Books :
        /\ menu = [list |-> Books, selected |-> b]
        /\ reader = [mode |-> IF restoring THEN "reading" ELSE "menu",
                     active |-> IF restoring THEN b ELSE NoBook, selected |-> b,
                     pages |-> [n \in Books |-> IF n = b THEN [version |-> 1, page |-> PageCount - 1]
                                                ELSE NoInfo]]
        /\ fb = MenuOf(b) /\ red = MenuOf(b) /\ black = MenuOf(b) /\ glass = MenuOf(b)
    /\ lost = FALSE /\ stray = FALSE
    /\ refreshes = 1
    /\ presses = 0 /\ powers = 0 /\ changes = 0 /\ faults = 0

Spec == Init /\ [][Next]_vars

(***************************************************************************)
(* Properties.                                                             *)
(***************************************************************************)
\* While a book is read, its page is on the panel, in black and white or in
\* gray, or under the notice of a refused sleep; and the reader state has it.
ShownIsSaved ==
    At("idle") /\ life.phase = "reading" /\ ~stray =>
        /\ mode = "reading"
        /\ info.page = life.page
        /\ ~lost => \/ glass.kind \in {"notice", "pattern"}
                    \/ glass.kind \in {"page", "gray"} /\ glass.name = book.name /\ glass.page = life.page
        /\ reader.active # NoBook =>
            reader.pages[book.name] = [version |-> book.version, page |-> life.page]

\* Progress is committed only for a page that is on the panel, whole.
CommitShown ==
    [][\A b \in Books :
        reader'.pages[b] # reader.pages[b] /\ reader'.pages[b] # NoInfo =>
            /\ glass'.kind = "page" /\ glass'.name = b /\ glass'.page = reader'.pages[b].page
            /\ lost' = lost]_vars

\* The gray overlay goes over its own page, and only when nothing else has been
\* put on the panel since (but for the notice of a refused sleep, a diagnostic
\* pattern before a turn that stays on its page, and the error of a restore
\* that came too late).
GrayOnItsPage ==
    [][glass'.kind = "gray" /\ glass.kind # "gray" /\ ~lost /\ ~stray =>
        \/ glass.kind \in {"notice", "pattern"}
        \/ glass.kind = "page" /\ glass.name = glass'.name /\ glass.page = glass'.page]_vars

\* A differential refresh starts from the picture the panel shows, as long as
\* the panel has not failed, no diagnostic pattern or notice is on it, and no
\* book is selected while another is open.
BaseIsShown ==
    [][glass' # glass /\ ~lost /\ ~lost' /\ glass'.kind \in {"page", "menu", "error"}
       /\ glass.kind \notin {"pattern", "notice"} /\ ~stray' /\ red' # black' =>
        \/ red' = glass
        \/ glass.kind = "gray" /\ red'.name = glass.name /\ red'.page = glass.page]_vars

\* The docs: between two requests the buttons are those of the screen the
\* reader is on.
ButtonsMatch == At("idle") => (mode = "reading" <=> life.phase = "reading")

\* The docs: retained metadata is used only for a book it describes exactly.
OpensCurrent ==
    [][life.phase = "menu" /\ life'.phase = "rendering" => book'.version = card[book'.name]]_vars

\* Each of the three waveforms is used on the picture it was computed for
\* (mounted_display_task.rs, the base and the gray deadline).
RefreshesRight == GrayOnItsPage /\ BaseIsShown
=============================================================================
