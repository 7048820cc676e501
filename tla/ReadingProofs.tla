--------------------------- MODULE ReadingProofs ----------------------------
(***************************************************************************)
(* Proofs about Reading, for any books, any number of pages, presses,      *)
(* changes of the card and failures: what is on the panel, what is saved,  *)
(* and what a refresh starts from.                                         *)
(***************************************************************************)
EXTENDS Reading, TLAPS

(* What the variables range over.  The epoch and the bounds need no type.  *)
Pages == 0 .. PageCount - 1
Loaded == {NoInfo} \cup [version : Nat \ {0}, page : Pages]
Opened == {Closed} \cup [name : Books, version : Nat \ {0}]

Phases == {"menu", "rendering", "reading"}
Rendering == {"Page", "Stage", "Show"}
Refining == {"Lsb", "Msb", "Gray"}
Places == {"idle", "Restore", "Error", "Leave"} \cup Rendering \cup Refining

ReaderOK(r) ==
    r \in [mode : {"menu", "reading"}, active : Books \cup {NoBook}, selected : {r.selected},
          pages : [Books -> Loaded]]

(* What is selected in the menu may be anything: it is looked up first.    *)
TypeOK ==
    /\ card \in [Books -> Nat] /\ changes \in Nat
    /\ task \in [at : Places, by : {"nobody", "queue", "restore", "gray"}]
    /\ life \in [phase : Phases, page : Pages]
    /\ book \in Opened /\ info \in Loaded
    /\ mode \in {"menu", "reading", "error"}
    /\ errorShown \in BOOLEAN /\ lost \in BOOLEAN /\ stray \in BOOLEAN
    /\ menu = [list |-> menu.list, selected |-> menu.selected] /\ menu.list \subseteq Books
    /\ ReaderOK(reader)

(* What the lifecycle, the warm book and the reader state know of each     *)
(* other at every await, whatever was served on the wrong screen.          *)
BookInv ==
    /\ life.phase = "rendering" <=> task.at \in Rendering
    /\ task.at \in Rendering => book # Closed
    /\ task.at \in {"Stage", "Show"} => info.page = life.page
    /\ task.at = "Show" => red = fb /\ black = PageOf(book, info)
    /\ life.phase = "reading" =>
        /\ book # Closed /\ info.page = life.page
        /\ reader.active # NoBook =>
            /\ reader.active = book.name
            /\ reader.pages[book.name] = [version |-> book.version, page |-> life.page]

(* The screen the buttons are for, and the refinement that is due, follow  *)
(* the lifecycle as long as no request was served on the wrong screen.     *)
ScreenInv ==
    /\ task.at = "Error" => life.phase = "menu"
    /\ task.at = "Leave" => life.phase = "reading" /\ black = fb
    /\ task.at \in Refining => life.phase = "reading"
    /\ gray # NoGray => life.phase = "reading" /\ task.at # "Leave"
    /\ life.phase = "reading" => ~errorShown /\ (mode = "reading" \/ task.at = "Leave")
    /\ life.phase = "menu" => mode # "reading" \/ task.at = "Error"

(* The panel shows the page of the book, in black and white or in gray, or *)
(* else what the framebuffer of the menu holds.                            *)
GlassInv ==
    \/ glass.kind \in {"notice", "pattern"}
    \/ IF life.phase = "reading"
       THEN \/ glass = PageOf(book, info)
            \/ glass.kind = "gray" /\ glass.name = book.name /\ glass.page = info.page
       ELSE glass = fb

Inv ==
    /\ TypeOK /\ BookInv
    /\ black.kind # "gray" /\ fb.kind # "gray"
    /\ ~stray => ScreenInv
    /\ ~stray /\ ~lost => GlassInv

(***************************************************************************)
(* The operators.                                                          *)
(***************************************************************************)
LEMMA MinOfTwo ==
    ASSUME NEW a \in Int, NEW b \in Int
    PROVE  Min({a, b}) = IF a <= b THEN a ELSE b
<1> DEFINE m == IF a <= b THEN a ELSE b
<1>1. m \in {a, b} /\ \A y \in {a, b} : m <= y
  OBVIOUS
<1>2. ASSUME NEW x \in {a, b}, \A y \in {a, b} : x <= y
      PROVE  x = m
  BY <1>2
<1> QED BY <1>1, <1>2 DEF Min

LEMMA MaxOfTwo ==
    ASSUME NEW a \in Int, NEW b \in Int
    PROVE  Max({a, b}) = IF a >= b THEN a ELSE b
<1> DEFINE m == IF a >= b THEN a ELSE b
<1>1. m \in {a, b} /\ \A y \in {a, b} : m >= y
  OBVIOUS
<1>2. ASSUME NEW x \in {a, b}, \A y \in {a, b} : x >= y
      PROVE  x = m
  BY <1>2
<1> QED BY <1>1, <1>2 DEF Max

(* begin_turn and begin_goto stay in the book.                             *)
LEMMA TargetIsPage ==
    ASSUME life.page \in Pages, NEW request
    PROVE  Target(request) \in Pages
<1>1. PageCount \in Nat \ {0}
  BY ConstantsAssumption
<1>2. life.page + 1 \in Int /\ life.page - 1 \in Int /\ PageCount - 1 \in Int
  BY <1>1 DEF Pages
<1>3. Min({life.page + 1, PageCount - 1}) \in Pages
  BY <1>1, <1>2, MinOfTwo DEF Pages
<1>4. Max({life.page - 1, 0}) \in Pages
  BY <1>1, <1>2, MaxOfTwo DEF Pages
<1> QED BY <1>1, <1>3, <1>4 DEF Target, Pages

(* A saved page is in the book, and a book is opened on it.                *)
LEMMA SavedPageIsPage ==
    ASSUME TypeOK, NEW name \in Books, NEW version \in Nat \ {0}
    PROVE  /\ SavedPage(name, version) \in Pages
           /\ Min({SavedPage(name, version), PageCount - 1}) = SavedPage(name, version)
<1>1. PageCount \in Nat \ {0}
  BY ConstantsAssumption
<1>2. reader.pages[name] \in Loaded
  BY DEF TypeOK, ReaderOK
<1>3. SavedPage(name, version) \in Pages
  BY <1>1, <1>2 DEF SavedPage, Loaded, NoInfo, Pages
<1> QED BY <1>1, <1>3, MinOfTwo DEF Pages

(* What is committed is a reader state again.                              *)
LEMMA SaveCommittedOK ==
    ASSUME TypeOK, book # Closed, NEW name \in Books \cup {NoBook}, NEW page \in Pages, NEW shown
    PROVE  ReaderOK(SaveCommitted(name, page, shown))
<1>1. book.version \in Nat \ {0}
  BY DEF TypeOK, Opened
<1>2. [version |-> book.version, page |-> page] \in Loaded
  BY <1>1 DEF Loaded
<1>3. name # NoBook => [reader.pages EXCEPT ![name] = [version |-> book.version, page |-> page]]
                           \in [Books -> Loaded]
  BY <1>2 DEF TypeOK, ReaderOK
<1> QED BY <1>3 DEF SaveCommitted, TypeOK, ReaderOK

(* What is loaded from a book that is there is a page of it.               *)
LEMMA LoadedPage ==
    ASSUME TypeOK, book # Closed, FileVersion # 0, NEW page \in Pages
    PROVE  Load(page) \in Loaded /\ Load(page).page = page
<1>1. book.name \in Books /\ FileVersion \in Nat \ {0}
  BY DEF TypeOK, Opened, FileVersion
<1> QED BY <1>1 DEF Load, Loaded

(***************************************************************************)
(* Every action keeps the invariant.                                       *)
(***************************************************************************)
(* A button is pressed, or the host asks.                                  *)
LEMMA PressKeeps == ASSUME Inv, Press PROVE Inv'
<1>1. TypeOK'
  BY DEF Inv, Press, outside, panel, warm, marks, bounds, input, TypeOK, BookInv, Pages, Loaded, Opened, Places, Rendering, Refining, Phases
<1>2. BookInv'
  BY <1>1 DEF Inv, Press, outside, panel, warm, marks, bounds, input, TypeOK, BookInv, Rendering, Loaded, Opened, NoInfo, Closed, NoBook
<1>3. black'.kind # "gray" /\ fb'.kind # "gray"
  BY DEF Inv, Press, outside, panel, warm, marks, bounds, input, BookInv, PageOf, Picture
<1>4. ~stray' => ScreenInv'
  BY <1>1 DEF Inv, Press, outside, panel, warm, marks, bounds, input, ScreenInv, BookInv, TypeOK, Rendering, Refining
<1>5. ~stray' /\ ~lost' => GlassInv'
  BY <1>1, <1>2 DEF Inv, Press, outside, panel, warm, marks, bounds, input, ScreenInv, GlassInv, BookInv, TypeOK, Rendering, Refining
<1> QED BY <1>1, <1>2, <1>3, <1>4, <1>5 DEF Inv

(* The request is counted.                                                 *)
LEMMA BumpKeeps == ASSUME Inv, Bump PROVE Inv'
<1>1. TypeOK'
  BY DEF Inv, Bump, outside, panel, warm, marks, bounds, input, TypeOK, BookInv, Pages, Loaded, Opened, Places, Rendering, Refining, Phases
<1>2. BookInv'
  BY <1>1 DEF Inv, Bump, outside, panel, warm, marks, bounds, input, TypeOK, BookInv, Rendering, Loaded, Opened, NoInfo, Closed, NoBook
<1>3. black'.kind # "gray" /\ fb'.kind # "gray"
  BY DEF Inv, Bump, outside, panel, warm, marks, bounds, input, BookInv, PageOf, Picture
<1>4. ~stray' => ScreenInv'
  BY <1>1 DEF Inv, Bump, outside, panel, warm, marks, bounds, input, ScreenInv, BookInv, TypeOK, Rendering, Refining
<1>5. ~stray' /\ ~lost' => GlassInv'
  BY <1>1, <1>2 DEF Inv, Bump, outside, panel, warm, marks, bounds, input, ScreenInv, GlassInv, BookInv, TypeOK, Rendering, Refining
<1> QED BY <1>1, <1>2, <1>3, <1>4, <1>5 DEF Inv

(* The selection moves, only in the menu if nothing strays.                *)
LEMMA MoveKeeps == ASSUME Inv, Move PROVE Inv'
<1>1. TypeOK'
  <2>1. ReaderOK(reader')
    BY DEF Move, Inv, TypeOK, ReaderOK
  <2>2. life' \in [phase : Phases, page : Pages]
    BY DEF Move, Inv, TypeOK
  <2>3. task' \in [at : Places, by : {"nobody", "queue", "restore", "gray"}]
    BY DEF Move, Inv, TypeOK, Idle, Places, Rendering, Refining
  <2>4. book' \in Opened /\ info' \in Loaded
    BY DEF Move, Inv, TypeOK, warm
  <2>5. mode' \in {"menu", "reading", "error"} /\ errorShown' \in BOOLEAN /\ lost' \in BOOLEAN /\ stray' \in BOOLEAN
    BY DEF Move, Inv, TypeOK, marks, panel, Strays, Transition, Differential, PanelFails
  <2>6. card' \in [Books -> Nat] /\ changes' \in Nat
        /\ menu' = [list |-> menu'.list, selected |-> menu'.selected] /\ menu'.list \subseteq Books
    BY DEF Move, Inv, TypeOK, outside, bounds
  <2> QED BY <2>1, <2>2, <2>3, <2>4, <2>5, <2>6 DEF TypeOK
<1>2. BookInv'
  BY <1>1 DEF Inv, Move, Serves, Turnable, At, Cancel, Taken, Strays, Works, Transition, Differential, Previous, PanelFails, MenuOf, Picture, Fails, outside, panel, warm, marks, bounds, input, TypeOK, BookInv, Rendering, Loaded, Opened, NoInfo, Closed, NoBook
<1>3. black'.kind # "gray" /\ fb'.kind # "gray"
  BY DEF Inv, Move, Serves, Turnable, At, Cancel, Taken, Strays, Works, Transition, Differential, Previous, PanelFails, MenuOf, Picture, Fails, outside, panel, warm, marks, bounds, input, BookInv, PageOf, Picture
<1>4. ~stray' => ScreenInv'
  BY <1>1 DEF Inv, Move, Serves, Turnable, At, Cancel, Taken, Strays, Works, Transition, Differential, Previous, PanelFails, MenuOf, Picture, Fails, outside, panel, warm, marks, bounds, input, ScreenInv, BookInv, TypeOK, Rendering, Refining
<1>5. ~stray' /\ ~lost' => GlassInv'
  BY <1>1, <1>2 DEF Inv, Move, Serves, Turnable, At, Cancel, Taken, Strays, Works, Transition, Differential, Previous, PanelFails, MenuOf, Picture, Fails, outside, panel, warm, marks, bounds, input, ScreenInv, GlassInv, BookInv, TypeOK, Rendering, Refining
<1> QED BY <1>1, <1>2, <1>3, <1>4, <1>5 DEF Inv

(* The record of the page to open is loaded, or the book is given up.      *)
LEMMA LoadPageKeeps == ASSUME Inv, LoadPage PROVE Inv'
<1>1. TypeOK'
  <2>a. book # Closed /\ life.page \in Pages
    BY DEF LoadPage, At, Inv, BookInv, TypeOK, Rendering
  <2>b. FileVersion # 0 => Load(life.page) \in Loaded
    BY <2>a, LoadedPage DEF Inv
  <2>c. 0 \in Pages
    BY ConstantsAssumption DEF Pages
  <2>1. ReaderOK(reader')
    BY DEF LoadPage, Inv, TypeOK
  <2>2. life' \in [phase : Phases, page : Pages]
    BY <2>c DEF LoadPage, Inv, TypeOK, Phases
  <2>3. task' \in [at : Places, by : {"nobody", "queue", "restore", "gray"}]
    BY DEF LoadPage, Opens, Inv, TypeOK, Places, Rendering
  <2>4. book' \in Opened /\ info' \in Loaded
    BY <2>b DEF LoadPage, Inv, TypeOK, Loaded
  <2>5. mode' \in {"menu", "reading", "error"} /\ errorShown' \in BOOLEAN /\ lost' \in BOOLEAN /\ stray' \in BOOLEAN
    BY DEF LoadPage, Inv, TypeOK, marks, panel
  <2>6. card' \in [Books -> Nat] /\ changes' \in Nat
        /\ menu' = [list |-> menu'.list, selected |-> menu'.selected] /\ menu'.list \subseteq Books
    BY DEF LoadPage, Inv, TypeOK, outside, bounds
  <2> QED BY <2>1, <2>2, <2>3, <2>4, <2>5, <2>6 DEF TypeOK
<1>2. BookInv'
  BY <1>1 DEF LoadPage, At, Load, Opens, Inv, TypeOK, BookInv, Rendering
<1>3. black'.kind # "gray" /\ fb'.kind # "gray"
  BY DEF Inv, LoadPage, At, Works, Opens, FileVersion, Fails, outside, panel, warm, marks, bounds, input, BookInv, PageOf, Picture
<1>4. ~stray' => ScreenInv'
  BY <1>1 DEF Inv, LoadPage, At, Works, Opens, FileVersion, Fails, outside, panel, warm, marks, bounds, input, ScreenInv, BookInv, TypeOK, Rendering, Refining
<1>5. ~stray' /\ ~lost' => GlassInv'
  BY <1>1, <1>2 DEF Inv, LoadPage, At, Works, Opens, FileVersion, Fails, outside, panel, warm, marks, bounds, input, ScreenInv, GlassInv, BookInv, TypeOK, Rendering, Refining
<1> QED BY <1>1, <1>2, <1>3, <1>4, <1>5 DEF Inv

(* Both planes are written, or the book is given up.                       *)
LEMMA StageKeeps == ASSUME Inv, Stage PROVE Inv'
<1>1. TypeOK'
  <2>c. 0 \in Pages
    BY ConstantsAssumption DEF Pages
  <2>1. ReaderOK(reader')
    BY DEF Stage, Inv, TypeOK
  <2>2. life' \in [phase : Phases, page : Pages]
    BY <2>c DEF Stage, Abandon, Inv, TypeOK, Phases
  <2>3. task' \in [at : Places, by : {"nobody", "queue", "restore", "gray"}]
    BY DEF Stage, Abandon, Opens, Inv, TypeOK, Places, Rendering
  <2>4. book' \in Opened /\ info' \in Loaded
    BY DEF Stage, Abandon, Inv, TypeOK, warm, Loaded, Opened
  <2>5. mode' \in {"menu", "reading", "error"} /\ errorShown' \in BOOLEAN /\ lost' \in BOOLEAN /\ stray' \in BOOLEAN
    BY DEF Stage, Inv, TypeOK, marks, panel
  <2>6. card' \in [Books -> Nat] /\ changes' \in Nat
        /\ menu' = [list |-> menu'.list, selected |-> menu'.selected] /\ menu'.list \subseteq Books
    BY DEF Stage, Inv, TypeOK, outside, bounds
  <2> QED BY <2>1, <2>2, <2>3, <2>4, <2>5, <2>6 DEF TypeOK
<1>2. BookInv'
  BY <1>1 DEF Inv, Stage, At, Works, Opens, FileVersion, Fails, Abandon, Screen, Picture, PageOf, outside, panel, warm, marks, bounds, input, TypeOK, BookInv, Rendering, Loaded, Opened, NoInfo, Closed, NoBook
<1>3. black'.kind # "gray" /\ fb'.kind # "gray"
  BY DEF Inv, Stage, At, Works, Opens, FileVersion, Fails, Abandon, Screen, Picture, PageOf, outside, panel, warm, marks, bounds, input, BookInv, PageOf, Picture
<1>4. ~stray' => ScreenInv'
  BY <1>1 DEF Inv, Stage, At, Works, Opens, FileVersion, Fails, Abandon, Screen, Picture, PageOf, outside, panel, warm, marks, bounds, input, ScreenInv, BookInv, TypeOK, Rendering, Refining
<1>5. ~stray' /\ ~lost' => GlassInv'
  BY <1>1, <1>2 DEF Inv, Stage, At, Works, Opens, FileVersion, Fails, Abandon, Screen, Picture, PageOf, outside, panel, warm, marks, bounds, input, ScreenInv, GlassInv, BookInv, TypeOK, Rendering, Refining
<1> QED BY <1>1, <1>2, <1>3, <1>4, <1>5 DEF Inv

(* The error screen takes the place of the menu.                           *)
LEMMA ShowErrorKeeps == ASSUME Inv, ShowError PROVE Inv'
<1>1. TypeOK'
  <2>1. ReaderOK(reader')
    BY DEF ShowError, Ends, Inv, TypeOK, ReaderOK
  <2>2. life' \in [phase : Phases, page : Pages]
    BY DEF ShowError, Inv, TypeOK
  <2>3. task' \in [at : Places, by : {"nobody", "queue", "restore", "gray"}]
    BY DEF ShowError, Ends, Idle, Places
  <2>4. book' \in Opened /\ info' \in Loaded
    BY DEF ShowError, Inv, TypeOK, warm
  <2>5. mode' \in {"menu", "reading", "error"} /\ errorShown' \in BOOLEAN /\ lost' \in BOOLEAN /\ stray' \in BOOLEAN
    BY DEF ShowError, Inv, TypeOK, marks, panel, Transition, Differential, PanelFails
  <2>6. card' \in [Books -> Nat] /\ changes' \in Nat
        /\ menu' = [list |-> menu'.list, selected |-> menu'.selected] /\ menu'.list \subseteq Books
    BY DEF ShowError, Inv, TypeOK, outside, bounds
  <2> QED BY <2>1, <2>2, <2>3, <2>4, <2>5, <2>6 DEF TypeOK
<1>2. BookInv'
  BY <1>1 DEF Inv, ShowError, At, Works, Transition, Differential, Previous, PanelFails, Fails, Screen, Picture, Ends, Idle, outside, panel, warm, marks, bounds, input, TypeOK, BookInv, Rendering, Loaded, Opened, NoInfo, Closed, NoBook
<1>3. black'.kind # "gray" /\ fb'.kind # "gray"
  BY DEF Inv, ShowError, At, Works, Transition, Differential, Previous, PanelFails, Fails, Screen, Picture, Ends, Idle, outside, panel, warm, marks, bounds, input, BookInv, PageOf, Picture
<1>4. ~stray' => ScreenInv'
  BY <1>1 DEF Inv, ShowError, At, Works, Transition, Differential, Previous, PanelFails, Fails, Screen, Picture, Ends, Idle, outside, panel, warm, marks, bounds, input, ScreenInv, BookInv, TypeOK, Rendering, Refining
<1>5. ~stray' /\ ~lost' => GlassInv'
  BY <1>1, <1>2 DEF Inv, ShowError, At, Works, Transition, Differential, Previous, PanelFails, Fails, Screen, Picture, Ends, Idle, outside, panel, warm, marks, bounds, input, ScreenInv, GlassInv, BookInv, TypeOK, Rendering, Refining
<1> QED BY <1>1, <1>2, <1>3, <1>4, <1>5 DEF Inv

(* A full refresh shows the page of the book while the buttons are for it, and the *)
(* framebuffer of the menu otherwise: what is current.                     *)
LEMMA FullRefreshShows ==
    ASSUME Inv, task.at = "idle", FullRefresh, ~stray, ~lost',
           UNCHANGED <<life, warm, fb>>
    PROVE  GlassInv'
<1>1. ScreenInv
  BY DEF Inv
<1>2. CASE UNCHANGED panel
  BY <1>2 DEF Inv, panel, warm, GlassInv, PageOf, Picture
<1>3. CASE Cleanly(Current)
  <2>1. mode = "reading" <=> life.phase = "reading"
    BY <1>1 DEF ScreenInv, Inv, TypeOK, BookInv, Phases, Rendering
  <2>2. glass' = Current
    BY <1>3 DEF Cleanly
  <2> QED BY <2>1, <2>2 DEF GlassInv, Current, PageOf, Picture, warm
<1> QED BY <1>2, <1>3 DEF FullRefresh, PanelFails

(* A full refresh or a pattern of the host.                                *)
LEMMA ProbeKeeps == ASSUME Inv, Probe PROVE Inv'
<1>1. TypeOK'
  <2>1. ReaderOK(reader')
    BY DEF Probe, Inv, TypeOK
  <2>2. life' \in [phase : Phases, page : Pages]
    BY DEF Probe, Inv, TypeOK
  <2>3. task' \in [at : Places, by : {"nobody", "queue", "restore", "gray"}]
    BY DEF Probe, Inv, TypeOK, Idle, Places, Rendering, Refining
  <2>4. book' \in Opened /\ info' \in Loaded
    BY DEF Probe, Inv, TypeOK, warm
  <2>5. mode' \in {"menu", "reading", "error"} /\ errorShown' \in BOOLEAN /\ lost' \in BOOLEAN /\ stray' \in BOOLEAN
    BY DEF Probe, Inv, TypeOK, marks, panel, FullRefresh, Cleanly, PanelFails
  <2>6. card' \in [Books -> Nat] /\ changes' \in Nat
        /\ menu' = [list |-> menu'.list, selected |-> menu'.selected] /\ menu'.list \subseteq Books
    BY DEF Probe, Inv, TypeOK, outside, bounds
  <2> QED BY <2>1, <2>2, <2>3, <2>4, <2>5, <2>6 DEF TypeOK
<1>2. BookInv'
  BY <1>1 DEF Inv, Probe, Serves, Turnable, At, Cancel, Taken, Works, FullRefresh, Cleanly, Current, Schedule, PanelFails, Fails, PageOf, Screen, Picture, outside, panel, warm, marks, bounds, input, TypeOK, BookInv, Rendering, Loaded, Opened, NoInfo, Closed, NoBook
<1>3. black'.kind # "gray" /\ fb'.kind # "gray"
  BY DEF Inv, Probe, Serves, Turnable, At, Cancel, Taken, Works, FullRefresh, Cleanly, Current, Schedule, PanelFails, Fails, PageOf, Screen, Picture, outside, panel, warm, marks, bounds, input, BookInv, PageOf, Picture
<1>4. ~stray' => ScreenInv'
  BY <1>1 DEF Inv, Probe, Serves, Turnable, At, Cancel, Taken, Works, FullRefresh, Cleanly, Current, Schedule, PanelFails, Fails, PageOf, Screen, Picture, outside, panel, warm, marks, bounds, input, ScreenInv, BookInv, TypeOK, Rendering, Refining
<1>5. ~stray' /\ ~lost' => GlassInv'
  <2>1. CASE FullRefresh
    BY <2>1, FullRefreshShows DEF Probe, Inv, marks, Serves, Turnable, Quiet, At
  <2> QED BY <2>1 DEF Probe, GlassInv, Screen, Picture
<1> QED BY <1>1, <1>2, <1>3, <1>4, <1>5 DEF Inv

(* A full refresh by the power button.                                     *)
LEMMA PowerKeeps == ASSUME Inv, Power PROVE Inv'
<1>1. TypeOK'
  <2>1. ReaderOK(reader')
    BY DEF Power, Inv, TypeOK
  <2>2. life' \in [phase : Phases, page : Pages]
    BY DEF Power, Inv, TypeOK
  <2>3. task' \in [at : Places, by : {"nobody", "queue", "restore", "gray"}]
    BY DEF Power, Inv, TypeOK, Idle, Places, Rendering, Refining
  <2>4. book' \in Opened /\ info' \in Loaded
    BY DEF Power, Inv, TypeOK, warm
  <2>5. mode' \in {"menu", "reading", "error"} /\ errorShown' \in BOOLEAN /\ lost' \in BOOLEAN /\ stray' \in BOOLEAN
    BY DEF Power, Inv, TypeOK, marks, panel, FullRefresh, Cleanly, PanelFails
  <2>6. card' \in [Books -> Nat] /\ changes' \in Nat
        /\ menu' = [list |-> menu'.list, selected |-> menu'.selected] /\ menu'.list \subseteq Books
    BY DEF Power, Inv, TypeOK, outside, bounds
  <2> QED BY <2>1, <2>2, <2>3, <2>4, <2>5, <2>6 DEF TypeOK
<1>2. BookInv'
  BY <1>1 DEF Inv, Power, Quiet, At, Cancel, Works, FullRefresh, Cleanly, Current, Schedule, PanelFails, Fails, PageOf, Screen, Picture, outside, panel, warm, marks, bounds, input, TypeOK, BookInv, Rendering, Loaded, Opened, NoInfo, Closed, NoBook
<1>3. black'.kind # "gray" /\ fb'.kind # "gray"
  BY DEF Inv, Power, Quiet, At, Cancel, Works, FullRefresh, Cleanly, Current, Schedule, PanelFails, Fails, PageOf, Screen, Picture, outside, panel, warm, marks, bounds, input, BookInv, PageOf, Picture
<1>4. ~stray' => ScreenInv'
  BY <1>1 DEF Inv, Power, Quiet, At, Cancel, Works, FullRefresh, Cleanly, Current, Schedule, PanelFails, Fails, PageOf, Screen, Picture, outside, panel, warm, marks, bounds, input, ScreenInv, BookInv, TypeOK, Rendering, Refining
<1>5. ~stray' /\ ~lost' => GlassInv'
  <2>1. CASE FullRefresh
    BY <2>1, FullRefreshShows DEF Power, Inv, marks, Serves, Turnable, Quiet, At
  <2> QED BY <2>1 DEF Power
<1> QED BY <1>1, <1>2, <1>3, <1>4, <1>5 DEF Inv

(* The notice of a refused sleep.                                          *)
LEMMA SleepRefusedKeeps == ASSUME Inv, SleepRefused PROVE Inv'
<1>1. TypeOK'
  <2>1. ReaderOK(reader')
    BY DEF SleepRefused, Inv, TypeOK
  <2>2. life' \in [phase : Phases, page : Pages]
    BY DEF SleepRefused, Inv, TypeOK
  <2>3. task' \in [at : Places, by : {"nobody", "queue", "restore", "gray"}]
    BY DEF SleepRefused, Inv, TypeOK, Idle, Places, Rendering, Refining
  <2>4. book' \in Opened /\ info' \in Loaded
    BY DEF SleepRefused, Inv, TypeOK, warm
  <2>5. mode' \in {"menu", "reading", "error"} /\ errorShown' \in BOOLEAN /\ lost' \in BOOLEAN /\ stray' \in BOOLEAN
    BY DEF SleepRefused, Inv, TypeOK, marks, panel, Differential, Transition
  <2>6. card' \in [Books -> Nat] /\ changes' \in Nat
        /\ menu' = [list |-> menu'.list, selected |-> menu'.selected] /\ menu'.list \subseteq Books
    BY DEF SleepRefused, Inv, TypeOK, outside, bounds
  <2> QED BY <2>1, <2>2, <2>3, <2>4, <2>5, <2>6 DEF TypeOK
<1>2. BookInv'
  BY <1>1 DEF Inv, SleepRefused, Quiet, At, Fails, Screen, Picture, Differential, Transition, Previous, outside, panel, warm, marks, bounds, input, TypeOK, BookInv, Rendering, Loaded, Opened, NoInfo, Closed, NoBook
<1>3. black'.kind # "gray" /\ fb'.kind # "gray"
  BY DEF Inv, SleepRefused, Quiet, At, Fails, Screen, Picture, Differential, Transition, Previous, outside, panel, warm, marks, bounds, input, BookInv, PageOf, Picture
<1>4. ~stray' => ScreenInv'
  BY <1>1 DEF Inv, SleepRefused, Quiet, At, Fails, Screen, Picture, Differential, Transition, Previous, outside, panel, warm, marks, bounds, input, ScreenInv, BookInv, TypeOK, Rendering, Refining
<1>5. ~stray' /\ ~lost' => GlassInv'
  BY <1>1, <1>2 DEF Inv, SleepRefused, Quiet, At, Fails, Screen, Picture, Differential, Transition, Previous, outside, panel, warm, marks, bounds, input, ScreenInv, GlassInv, BookInv, TypeOK, Rendering, Refining
<1> QED BY <1>1, <1>2, <1>3, <1>4, <1>5 DEF Inv

(* The card changes under the open book.                                   *)
LEMMA ChangeKeeps == ASSUME Inv, Change PROVE Inv'
<1>1. TypeOK'
  <2>1. ReaderOK(reader')
    BY DEF Change, Inv, TypeOK
  <2>2. life' \in [phase : Phases, page : Pages]
    BY DEF Change, Inv, TypeOK
  <2>3. task' \in [at : Places, by : {"nobody", "queue", "restore", "gray"}]
    BY DEF Change, Inv, TypeOK, Idle, Places, Rendering, Refining
  <2>4. book' \in Opened /\ info' \in Loaded
    BY DEF Change, Inv, TypeOK, warm
  <2>5. mode' \in {"menu", "reading", "error"} /\ errorShown' \in BOOLEAN /\ lost' \in BOOLEAN /\ stray' \in BOOLEAN
    BY DEF Change, Inv, TypeOK, marks, panel
  <2>6. card' \in [Books -> Nat] /\ changes' \in Nat
        /\ menu' = [list |-> menu'.list, selected |-> menu'.selected] /\ menu'.list \subseteq Books
    BY DEF Change, Inv, TypeOK, bounds
  <2> QED BY <2>1, <2>2, <2>3, <2>4, <2>5, <2>6 DEF TypeOK
<1>2. BookInv'
  BY <1>1 DEF Inv, Change, outside, panel, warm, marks, bounds, input, TypeOK, BookInv, Rendering, Loaded, Opened, NoInfo, Closed, NoBook
<1>3. black'.kind # "gray" /\ fb'.kind # "gray"
  BY DEF Inv, Change, outside, panel, warm, marks, bounds, input, BookInv, PageOf, Picture
<1>4. ~stray' => ScreenInv'
  BY <1>1 DEF Inv, Change, outside, panel, warm, marks, bounds, input, ScreenInv, BookInv, TypeOK, Rendering, Refining
<1>5. ~stray' /\ ~lost' => GlassInv'
  BY <1>1, <1>2 DEF Inv, Change, outside, panel, warm, marks, bounds, input, ScreenInv, GlassInv, BookInv, TypeOK, Rendering, Refining
<1> QED BY <1>1, <1>2, <1>3, <1>4, <1>5 DEF Inv

(* The refinement is due.                                                  *)
LEMMA RefineKeeps == ASSUME Inv, Refine PROVE Inv'
<1>1. TypeOK'
  BY DEF Inv, Refine, Quiet, At, Idle, outside, panel, warm, marks, bounds, input, TypeOK, BookInv, Pages, Loaded, Opened, Places, Rendering, Refining, Phases
<1>2. BookInv'
  BY <1>1 DEF Inv, Refine, Quiet, At, Idle, outside, panel, warm, marks, bounds, input, TypeOK, BookInv, Rendering, Loaded, Opened, NoInfo, Closed, NoBook
<1>3. black'.kind # "gray" /\ fb'.kind # "gray"
  BY DEF Inv, Refine, Quiet, At, Idle, outside, panel, warm, marks, bounds, input, BookInv, PageOf, Picture
<1>4. ~stray' => ScreenInv'
  BY <1>1 DEF Inv, Refine, Quiet, At, Idle, outside, panel, warm, marks, bounds, input, ScreenInv, BookInv, TypeOK, Rendering, Refining
<1>5. ~stray' /\ ~lost' => GlassInv'
  BY <1>1, <1>2 DEF Inv, Refine, Quiet, At, Idle, outside, panel, warm, marks, bounds, input, ScreenInv, GlassInv, BookInv, TypeOK, Rendering, Refining
<1> QED BY <1>1, <1>2, <1>3, <1>4, <1>5 DEF Inv

(* Its first plane.                                                        *)
LEMMA StageLsbKeeps == ASSUME Inv, StageLsb PROVE Inv'
<1>1. TypeOK'
  <2>1. ReaderOK(reader')
    BY DEF StageLsb, StagesPlane, Inv, TypeOK
  <2>2. life' \in [phase : Phases, page : Pages]
    BY DEF StageLsb, StagesPlane, Inv, TypeOK
  <2>3. task' \in [at : Places, by : {"nobody", "queue", "restore", "gray"}]
    BY DEF StageLsb, StagesPlane, Inv, TypeOK, Idle, Places, Refining
  <2>4. book' \in Opened /\ info' \in Loaded
    BY DEF StageLsb, StagesPlane, Inv, TypeOK, warm
  <2>5. mode' \in {"menu", "reading", "error"} /\ errorShown' \in BOOLEAN /\ lost' \in BOOLEAN /\ stray' \in BOOLEAN
    BY DEF StageLsb, StagesPlane, Inv, TypeOK, marks
  <2>6. card' \in [Books -> Nat] /\ changes' \in Nat
        /\ menu' = [list |-> menu'.list, selected |-> menu'.selected] /\ menu'.list \subseteq Books
    BY DEF StageLsb, StagesPlane, Inv, TypeOK, outside
  <2> QED BY <2>1, <2>2, <2>3, <2>4, <2>5, <2>6 DEF TypeOK
<1>2. BookInv'
  BY <1>1 DEF Inv, StageLsb, StagesPlane, At, Works, Fails, Overlay, Screen, Picture, Idle, outside, panel, warm, marks, bounds, input, TypeOK, BookInv, Rendering, Loaded, Opened, NoInfo, Closed, NoBook
<1>3. black'.kind # "gray" /\ fb'.kind # "gray"
  BY DEF Inv, StageLsb, StagesPlane, At, Works, Fails, Overlay, Screen, Picture, Idle, outside, panel, warm, marks, bounds, input, BookInv, PageOf, Picture
<1>4. ~stray' => ScreenInv'
  BY <1>1 DEF Inv, StageLsb, StagesPlane, At, Works, Fails, Overlay, Screen, Picture, Idle, outside, panel, warm, marks, bounds, input, ScreenInv, BookInv, TypeOK, Rendering, Refining
<1>5. ~stray' /\ ~lost' => GlassInv'
  BY <1>1, <1>2 DEF Inv, StageLsb, StagesPlane, At, Works, Fails, Overlay, Screen, Picture, Idle, outside, panel, warm, marks, bounds, input, ScreenInv, GlassInv, BookInv, TypeOK, Rendering, Refining
<1> QED BY <1>1, <1>2, <1>3, <1>4, <1>5 DEF Inv

(* Its second plane.                                                       *)
LEMMA StageMsbKeeps == ASSUME Inv, StageMsb PROVE Inv'
<1>1. TypeOK'
  <2>1. ReaderOK(reader')
    BY DEF StageMsb, StagesPlane, Inv, TypeOK
  <2>2. life' \in [phase : Phases, page : Pages]
    BY DEF StageMsb, StagesPlane, Inv, TypeOK
  <2>3. task' \in [at : Places, by : {"nobody", "queue", "restore", "gray"}]
    BY DEF StageMsb, StagesPlane, Inv, TypeOK, Idle, Places, Refining
  <2>4. book' \in Opened /\ info' \in Loaded
    BY DEF StageMsb, StagesPlane, Inv, TypeOK, warm
  <2>5. mode' \in {"menu", "reading", "error"} /\ errorShown' \in BOOLEAN /\ lost' \in BOOLEAN /\ stray' \in BOOLEAN
    BY DEF StageMsb, StagesPlane, Inv, TypeOK, marks
  <2>6. card' \in [Books -> Nat] /\ changes' \in Nat
        /\ menu' = [list |-> menu'.list, selected |-> menu'.selected] /\ menu'.list \subseteq Books
    BY DEF StageMsb, StagesPlane, Inv, TypeOK, outside
  <2> QED BY <2>1, <2>2, <2>3, <2>4, <2>5, <2>6 DEF TypeOK
<1>2. BookInv'
  BY <1>1 DEF Inv, StageMsb, StagesPlane, At, Works, Fails, Overlay, Screen, Picture, Idle, outside, panel, warm, marks, bounds, input, TypeOK, BookInv, Rendering, Loaded, Opened, NoInfo, Closed, NoBook
<1>3. black'.kind # "gray" /\ fb'.kind # "gray"
  BY DEF Inv, StageMsb, StagesPlane, At, Works, Fails, Overlay, Screen, Picture, Idle, outside, panel, warm, marks, bounds, input, BookInv, PageOf, Picture
<1>4. ~stray' => ScreenInv'
  BY <1>1 DEF Inv, StageMsb, StagesPlane, At, Works, Fails, Overlay, Screen, Picture, Idle, outside, panel, warm, marks, bounds, input, ScreenInv, BookInv, TypeOK, Rendering, Refining
<1>5. ~stray' /\ ~lost' => GlassInv'
  BY <1>1, <1>2 DEF Inv, StageMsb, StagesPlane, At, Works, Fails, Overlay, Screen, Picture, Idle, outside, panel, warm, marks, bounds, input, ScreenInv, GlassInv, BookInv, TypeOK, Rendering, Refining
<1> QED BY <1>1, <1>2, <1>3, <1>4, <1>5 DEF Inv

(* The gray picture is shown, over the page it belongs to.                 *)
LEMMA ShowGrayKeeps == ASSUME Inv, ShowGray PROVE Inv'
<1>1. TypeOK'
  BY DEF Inv, ShowGray, At, Works, Fails, Overlay, Picture, Idle, outside, panel, warm, marks, bounds, input, TypeOK, BookInv, Pages, Loaded, Opened, Places, Rendering, Refining, Phases
<1>2. BookInv'
  BY <1>1 DEF Inv, ShowGray, At, Works, Fails, Overlay, Picture, Idle, outside, panel, warm, marks, bounds, input, TypeOK, BookInv, Rendering, Loaded, Opened, NoInfo, Closed, NoBook
<1>3. black'.kind # "gray" /\ fb'.kind # "gray"
  BY DEF Inv, ShowGray, At, Works, Fails, Overlay, Picture, Idle, outside, panel, warm, marks, bounds, input, BookInv, PageOf, Picture
<1>4. ~stray' => ScreenInv'
  BY <1>1 DEF Inv, ShowGray, At, Works, Fails, Overlay, Picture, Idle, outside, panel, warm, marks, bounds, input, ScreenInv, BookInv, TypeOK, Rendering, Refining
<1>5. ~stray' /\ ~lost' => GlassInv'
  BY <1>1, <1>2 DEF Inv, ShowGray, At, Works, Fails, Overlay, Picture, Idle, outside, panel, warm, marks, bounds, input, ScreenInv, GlassInv, BookInv, TypeOK, Rendering, Refining
<1> QED BY <1>1, <1>2, <1>3, <1>4, <1>5 DEF Inv

(* A book is opened from the menu, on the page that is saved for it; a warm book *)
(* has that page loaded already.  If nothing strays, no other book is open. *)
LEMMA OpenKeeps ==
    ASSUME Inv, NEW name \in Books, Open(name), task.at \in {"idle", "Restore"},
           UNCHANGED <<card, changes, menu, mode, errorShown, reader, fb, panel>>,
           gray' \in {gray, NoGray}, Strays(life.phase = "reading")
    PROVE  Inv'
<1>0. name # 0 /\ 0 \in Pages
  BY ConstantsAssumption DEF Pages
<1>1. ASSUME life' = [phase |-> "rendering", page |-> Min({SavedPage(name, book'.version), PageCount - 1})],
             book' \in Opened, book' # Closed
      PROVE  life' = [phase |-> "rendering", page |-> SavedPage(name, book'.version)] /\ life'.page \in Pages
  <2>1. book'.version \in Nat \ {0}
    BY <1>1 DEF Opened
  <2> QED BY <1>1, <2>1, SavedPageIsPage DEF Inv
<1>2. CASE WarmOpen(name) /\ UNCHANGED warm /\ Opens("Stage") /\ book # Closed
           /\ life' = [phase |-> "rendering", page |-> Min({SavedPage(name, book'.version), PageCount - 1})]
  <2>1. life' = [phase |-> "rendering", page |-> info.page] /\ life'.page \in Pages
    BY <1>1, <1>2 DEF WarmOpen, warm, Inv, TypeOK
  <2>2. TypeOK'
    BY <1>2, <2>1 DEF Inv, TypeOK, Opens, warm, panel, Strays, Phases, Places, Rendering
  <2>3. BookInv'
    BY <1>2, <2>1 DEF BookInv, Opens, warm, Rendering
  <2> QED BY <1>2, <2>1, <2>2, <2>3 DEF Inv, ScreenInv, GlassInv, Opens, Strays, panel, BookInv, TypeOK, Rendering, Refining, Phases
<1>3. CASE book' = [name |-> name, version |-> card[name]] /\ card[name] # 0 /\ info' = info /\ Opens("Page")
           /\ life' = [phase |-> "rendering", page |-> Min({SavedPage(name, book'.version), PageCount - 1})]
  <2>1. book' \in Opened /\ book' # Closed
    BY <1>0, <1>3 DEF Opened, Closed, Inv, TypeOK
  <2>2. life' \in [phase : Phases, page : Pages] /\ life'.phase = "rendering"
    BY <1>1, <1>3, <2>1 DEF Phases
  <2>3. TypeOK'
    BY <1>3, <2>1, <2>2 DEF Inv, TypeOK, Opens, panel, Strays, Places, Rendering
  <2>4. BookInv'
    BY <1>3, <2>1, <2>2 DEF BookInv, Opens, Rendering
  <2> QED BY <1>3, <2>2, <2>3, <2>4 DEF Inv, ScreenInv, GlassInv, Opens, Strays, panel, BookInv, TypeOK, Rendering, Refining, Phases
<1>4. CASE life' = life /\ Opens("Error") /\ info' = info /\ (book' = book \/ (book' = Closed /\ life.phase = "menu"))
  <2>1. TypeOK'
    BY <1>4 DEF Inv, TypeOK, Opens, panel, Strays, Places, Opened
  <2>2. BookInv'
    BY <1>4 DEF Inv, BookInv, TypeOK, Opens, Rendering, Phases
  <2> QED BY <1>4, <2>1, <2>2 DEF Inv, ScreenInv, GlassInv, Opens, Strays, panel, BookInv, TypeOK, Rendering, Refining, Phases
<1> QED BY <1>2, <1>3, <1>4 DEF Open, WarmOpen, warm

(* Select opens the listed book, or does nothing.                          *)
LEMMA SelectKeeps == ASSUME Inv, Select PROVE Inv'
<1>1. CASE Selected # NoBook /\ Open(Selected)
  <2>1. Selected \in Books
    BY <1>1 DEF Selected, Listed, Inv, TypeOK
  <2> QED BY <1>1, <2>1, OpenKeeps DEF Select, Serves, Turnable, At, Cancel, outside, bounds
<1>2. CASE UNCHANGED <<task, life, warm>>
  <2>1. TypeOK' /\ BookInv'
    BY <1>2 DEF Select, Inv, TypeOK, BookInv, outside, warm, panel, Strays, PageOf, Picture
  <2> QED BY <1>2, <2>1 DEF Select, Inv, Cancel, ScreenInv, GlassInv, Strays, panel, warm, TypeOK, PageOf, Picture
<1> QED BY <1>1, <1>2 DEF Select

(* So does the restore of the boot, and the failed one returns to the menu. *)
LEMMA RestoreKeeps == ASSUME Inv, Restore PROVE Inv'
<1>1. CASE Selected # NoBook /\ Open(Selected) /\ UNCHANGED <<reader, gray>>
  <2>1. Selected \in Books
    BY <1>1 DEF Selected, Listed, Inv, TypeOK
  <2> QED BY <1>1, <2>1, OpenKeeps DEF Restore, At, outside, bounds
<1>2. CASE Ends(FALSE) /\ UNCHANGED <<life, warm>>
  <2>1. ReaderOK(reader') /\ task' = Idle /\ gray' = gray
    BY <1>2 DEF Ends, Inv, TypeOK, ReaderOK
  <2>2. TypeOK'
    BY <1>2, <2>1 DEF Restore, Inv, TypeOK, outside, warm, panel, Strays, Idle, Places
  <2>3. BookInv'
    BY <1>2, <2>1, <2>2 DEF Restore, At, Ends, Idle, Inv, TypeOK, BookInv, warm, Rendering, ReaderOK
  <2> QED BY <1>2, <2>1, <2>2, <2>3 DEF Restore, At, Idle, Inv, ScreenInv, GlassInv, Strays, panel, warm, TypeOK, PageOf, Picture, Refining
<1> QED BY <1>1, <1>2 DEF Restore

(* Pruning keeps the record of the active book, or forgets that it is active. *)
LEMMA PrunedOK ==
    ASSUME NEW state, ReaderOK(state)
    PROVE  /\ ReaderOK(Pruned(state))
           /\ Pruned(state).active # NoBook =>
                /\ Pruned(state).active = state.active
                /\ Pruned(state).pages[state.active] = state.pages[state.active]
<1>1. NoInfo \in Loaded
  BY DEF Loaded
<1>2. state = [mode |-> state.mode, active |-> state.active, selected |-> state.selected, pages |-> state.pages]
      /\ state.pages \in [Books -> Loaded]
  BY DEF ReaderOK
<1> QED BY <1>1, <1>2 DEF Pruned, ReaderOK

(* The library comes back: the menu is adopted, and shown if it is there.  *)
LEMMA RefreshedKeeps == ASSUME Inv, Refreshed PROVE Inv'
<1>0. task.at = "idle" /\ task' \in [at : {"idle", "Restore"}, by : {"nobody", "restore"}]
  BY DEF Refreshed, Quiet, At, Idle
<1>1. /\ ReaderOK(reader')
      /\ reader'.active # NoBook => reader'.active = reader.active /\ reader'.pages[reader.active] = reader.pages[reader.active]
  <2>1. ReaderOK([reader EXCEPT !.selected = Adopted])
        /\ [reader EXCEPT !.selected = Adopted].active = reader.active
        /\ [reader EXCEPT !.selected = Adopted].pages = reader.pages
    BY DEF Inv, TypeOK, ReaderOK
  <2> QED BY <2>1, PrunedOK DEF Refreshed, Inv, TypeOK
<1>2. menu' = [list |-> menu'.list, selected |-> menu'.selected] /\ menu'.list \subseteq Books
  BY DEF Refreshed, Present, Inv, TypeOK
<1>3. TypeOK'
  BY <1>0, <1>1, <1>2 DEF Refreshed, Inv, TypeOK, bounds, input, warm, Transition, Differential, PanelFails, panel, Places
<1>4. BookInv'
  BY <1>0, <1>1 DEF Refreshed, Inv, BookInv, warm, Rendering
<1>5. black'.kind # "gray" /\ fb'.kind # "gray"
  BY DEF Refreshed, Inv, Transition, Differential, PanelFails, MenuOf, Picture, panel
<1>6. ~stray' => ScreenInv'
  BY <1>0 DEF Refreshed, Inv, ScreenInv, Refining
<1>7. ~stray' /\ ~lost' => GlassInv'
  <2>1. CASE UNCHANGED <<fb, panel>>
    BY <2>1 DEF Refreshed, Inv, GlassInv, warm, panel, PageOf, Picture
  <2>2. CASE mode = "menu" /\ Transition(MenuOf(Adopted))
    BY <1>0, <2>2 DEF Refreshed, Inv, ScreenInv, GlassInv, Transition, Differential
  <2> QED BY <2>1, <2>2 DEF Refreshed, PanelFails
<1> QED BY <1>3, <1>4, <1>5, <1>6, <1>7 DEF Inv

(* A turn or a goto.                                                       *)
LEMMA TurnKeeps == ASSUME Inv, Turn PROVE Inv'
<1>1. TypeOK'
  <2> DEFINE to == Target(Head(queue))
  <2>1. to \in Pages
    BY TargetIsPage DEF Inv, TypeOK
  <2>2. CASE life.phase = "reading"
    <3>1. book # Closed /\ reader.active \in Books \cup {NoBook}
      BY <2>2 DEF Inv, BookInv, TypeOK, ReaderOK
    <3>2. ReaderOK(SaveCommitted(reader.active, to, TRUE)) /\ ReaderOK(SaveCommitted(reader.active, to, FALSE))
      BY <2>1, <3>1, SaveCommittedOK DEF Inv
    <3>3. FileVersion # 0 => Load(to) \in Loaded /\ Load(to).page = to
      BY <2>1, <3>1, LoadedPage DEF Inv
    <3>4. Load(to).page = to
      BY DEF Load
    <3>5. info' \in Loaded /\ ReaderOK(reader') /\ life' \in [phase : Phases, page : Pages] /\ lost' \in BOOLEAN
      BY <2>1, <2>2, <3>2, <3>3, <3>4
      DEF Turn, Refused, TurnShows, Finish, Differential, panel, warm, Inv, TypeOK
    <3> QED BY <3>5 DEF Turn, Inv, TypeOK, outside, marks
  <2>3. CASE life.phase # "reading"
    BY <2>3 DEF Turn, Refused, Inv, TypeOK, outside, marks, panel, warm
  <2> QED BY <2>2, <2>3
<1>2. BookInv'
  <2> DEFINE to == Target(Head(queue))
  <2>0. task' = task /\ book' = book /\ task.at = "idle" /\ fb' = fb
    BY DEF Turn, Serves, Turnable, At
  <2>1. CASE UNCHANGED <<life, warm, reader>>
    BY <2>0, <2>1 DEF Inv, BookInv, Rendering, warm
  <2>2. CASE life.phase = "reading" /\ TurnShows(TRUE, Load(to))
    <3>1. life' = [life EXCEPT !.page = to] /\ info'.page = to
          /\ reader' = SaveCommitted(reader.active, to, TRUE)
      BY <2>2 DEF TurnShows, Finish, Load
    <3>2. life'.phase = "reading" /\ life'.page = to
      BY <2>2, <3>1 DEF Inv, TypeOK
    <3>3. CASE reader.active = NoBook
      BY <2>0, <2>2, <3>1, <3>2, <3>3 DEF Inv, BookInv, SaveCommitted, Rendering
    <3>4. CASE reader.active # NoBook
      <4>1. reader.active = book.name /\ book.name \in Books
        BY <2>2, <3>4 DEF Inv, BookInv, TypeOK, ReaderOK
      <4>2. reader' = [mode |-> "reading", active |-> book.name, selected |-> book.name,
               pages |-> [reader.pages EXCEPT ![book.name] = [version |-> book.version, page |-> to]]]
        BY <3>1, <3>4, <4>1 DEF SaveCommitted, Commits
      <4>3. reader'.pages[book.name] = [version |-> book.version, page |-> to] /\ reader'.active = book.name
        BY <4>1, <4>2 DEF Inv, TypeOK, ReaderOK
      <4> QED BY <2>0, <2>2, <3>1, <3>2, <4>3 DEF Inv, BookInv, Rendering
    <3> QED BY <3>3, <3>4
  <2>3. CASE life.phase = "reading" /\ TurnShows(FALSE, Load(to))
    BY <2>0, <2>3 DEF TurnShows, Finish, SaveCommitted, Commits, Inv, TypeOK, BookInv, Rendering
  <2> QED BY <2>1, <2>2, <2>3 DEF Turn, Refused
<1>3. black'.kind # "gray" /\ fb'.kind # "gray"
  BY DEF Inv, Turn, Serves, Turnable, At, Cancel, Taken, Refused, Schedule, Works, Differential, TurnShows, Finish, SaveCommitted, Commits, Load, PageOf, Picture, FileVersion, outside, panel, warm, marks, bounds, input, BookInv, PageOf, Picture
<1>4. ~stray' => ScreenInv'
  BY <1>1 DEF Inv, Turn, Serves, Turnable, At, Cancel, Taken, Refused, Schedule, Works, Differential, TurnShows, Finish, SaveCommitted, Commits, Load, PageOf, Picture, FileVersion, outside, panel, warm, marks, bounds, input, ScreenInv, BookInv, TypeOK, Rendering, Refining
<1>5. ~stray' /\ ~lost' => GlassInv'
  BY <1>1, <1>2 DEF Inv, Turn, Serves, Turnable, At, Cancel, Taken, Refused, Schedule, Works, Differential, TurnShows, Finish, SaveCommitted, Commits, Load, PageOf, Picture, FileVersion, outside, panel, warm, marks, bounds, input, ScreenInv, GlassInv, BookInv, TypeOK, Rendering, Refining
<1> QED BY <1>1, <1>2, <1>3, <1>4, <1>5 DEF Inv

(* MenuBack: to the menu, from a book or from an error.                    *)
LEMMA BackKeeps == ASSUME Inv, Back PROVE Inv'
<1>1. TypeOK'
  <2>1. ReaderOK(reader')
    BY DEF Back, Inv, TypeOK
  <2>2. life' \in [phase : Phases, page : Pages]
    BY DEF Back, Inv, TypeOK
  <2>3. task' \in [at : Places, by : {"nobody", "queue", "restore", "gray"}]
    BY DEF Back, Inv, TypeOK, Idle, Places, Rendering, Refining
  <2>4. book' \in Opened /\ info' \in Loaded
    BY DEF Back, Inv, TypeOK, warm
  <2>5. mode' \in {"menu", "reading", "error"} /\ errorShown' \in BOOLEAN /\ lost' \in BOOLEAN /\ stray' \in BOOLEAN
    BY DEF Back, Inv, TypeOK, marks, panel, Strays, Transition, Differential, PanelFails
  <2>6. card' \in [Books -> Nat] /\ changes' \in Nat
        /\ menu' = [list |-> menu'.list, selected |-> menu'.selected] /\ menu'.list \subseteq Books
    BY DEF Back, Inv, TypeOK, outside, bounds
  <2> QED BY <2>1, <2>2, <2>3, <2>4, <2>5, <2>6 DEF TypeOK
<1>2. BookInv'
  BY <1>1 DEF Inv, Back, Serves, Turnable, At, Cancel, Taken, Strays, Works, Transition, Differential, Previous, PanelFails, MenuOf, Picture, Fails, outside, panel, warm, marks, bounds, input, TypeOK, BookInv, Rendering, Loaded, Opened, NoInfo, Closed, NoBook
<1>3. black'.kind # "gray" /\ fb'.kind # "gray"
  BY DEF Inv, Back, Serves, Turnable, At, Cancel, Taken, Strays, Works, Transition, Differential, Previous, PanelFails, MenuOf, Picture, Fails, outside, panel, warm, marks, bounds, input, BookInv, PageOf, Picture
<1>4. ~stray' => ScreenInv'
  <2> SUFFICES ASSUME ~stray' PROVE ScreenInv'
    OBVIOUS
  <2>1. ~stray /\ ScreenInv /\ task.at = "idle" /\ life' = life /\ gray' = NoGray
    BY DEF Inv, Back, Serves, Turnable, At, Cancel, Strays, TypeOK
  <2>2. CASE errorShown
    BY <2>1, <2>2 DEF Back, ScreenInv, Inv, TypeOK, Phases, Refining
  <2>3. CASE ~errorShown
    <3>1. life.phase = "reading" /\ mode = "reading"
      <4>1. life.phase # "menu"
        BY <2>3 DEF Back, Strays, Inv, TypeOK
      <4> QED BY <2>1, <4>1 DEF Inv, TypeOK, BookInv, ScreenInv, Phases, Rendering
    <3> QED BY <2>1, <2>3, <3>1 DEF Back, ScreenInv, Refining
  <2> QED BY <2>2, <2>3
<1>5. ~stray' /\ ~lost' => GlassInv'
  <2> SUFFICES ASSUME ~stray', ~lost' PROVE GlassInv'
    OBVIOUS
  <2>1. ~stray /\ ScreenInv /\ task.at = "idle" /\ life' = life /\ UNCHANGED warm
    BY DEF Inv, Back, Serves, Turnable, At, Strays, TypeOK
  <2>2. CASE errorShown
    <3>1. life.phase # "reading"
      BY <2>1, <2>2 DEF ScreenInv
    <3>2. glass' = fb'
      BY <2>2 DEF Back, Transition, Differential, PanelFails
    <3> QED BY <2>1, <3>1, <3>2 DEF GlassInv
  <2>3. CASE ~errorShown
    <3>1. life.phase = "reading"
      BY <2>3, <2>1 DEF Back, Strays, Inv, TypeOK, BookInv, Phases, Rendering
    <3>2. glass' = glass /\ ~lost
      BY <2>3 DEF Back, PanelFails, panel
    <3> QED BY <2>1, <3>1, <3>2 DEF GlassInv, Inv, warm, PageOf
  <2> QED BY <2>2, <2>3
<1> QED BY <1>1, <1>2, <1>3, <1>4, <1>5 DEF Inv

(* The first page of a book is shown, or the book is given up.             *)
LEMMA ShowKeeps == ASSUME Inv, Show PROVE Inv'
<1>1. TypeOK'
  <2>a. book # Closed /\ book.name \in Books /\ life.page \in Pages
    BY DEF Show, At, Inv, BookInv, TypeOK, Rendering, Opened
  <2>b. 0 \in Pages
    BY ConstantsAssumption DEF Pages
  <2>c. \A shown \in BOOLEAN : ReaderOK(SaveCommitted(book.name, life.page, shown))
    BY <2>a, SaveCommittedOK DEF Inv
  <2>d. \/ Abandon
        \/ life' = [life EXCEPT !.phase = "reading"] /\ task' = Idle
    BY DEF Show
  <2>1. ReaderOK(reader')
    BY <2>c DEF Show
  <2>2. life' \in [phase : Phases, page : Pages]
    <3>1. life \in [phase : Phases, page : Pages]
      BY DEF Inv, TypeOK
    <3> QED BY <2>b, <2>d, <3>1 DEF Abandon, Phases
  <2>3. task' \in [at : Places, by : {"nobody", "queue", "restore", "gray"}]
    <3>1. task \in [at : Places, by : {"nobody", "queue", "restore", "gray"}]
      BY DEF Inv, TypeOK
    <3> QED BY <2>d, <3>1 DEF Abandon, Opens, Idle, Places
  <2>4. book' \in Opened /\ info' \in Loaded
    BY DEF Show, Abandon, Inv, TypeOK, warm, Opened, Loaded
  <2>5. mode' \in {"menu", "reading", "error"} /\ errorShown' \in BOOLEAN /\ lost' \in BOOLEAN /\ stray' \in BOOLEAN
    BY DEF Show, Inv, TypeOK, marks, panel, Differential, PanelFails
  <2>6. card' \in [Books -> Nat] /\ changes' \in Nat
        /\ menu' = [list |-> menu'.list, selected |-> menu'.selected] /\ menu'.list \subseteq Books
    BY DEF Show, Inv, TypeOK, outside, bounds
  <2> QED BY <2>1, <2>2, <2>3, <2>4, <2>5, <2>6 DEF TypeOK
<1>2. BookInv'
  <2>1. book # Closed /\ book.name \in Books /\ book.name # NoBook
    BY ConstantsAssumption DEF Show, At, Inv, BookInv, TypeOK, Opened, Rendering, NoBook
  <2>2. CASE Abandon
    <3>1. life'.phase = "menu" /\ task'.at = "Error"
      BY <2>2 DEF Abandon, Opens
    <3> QED BY <3>1 DEF BookInv, Rendering
  <2>3. CASE ~Abandon
    <3>0. life' = [life EXCEPT !.phase = "reading"] /\ task' = Idle /\ UNCHANGED warm
          /\ reader' = SaveCommitted(book.name, life.page, TRUE)
      BY <2>3 DEF Show
    <3>1. reader' = [mode |-> "reading", active |-> book.name, selected |-> book.name,
             pages |-> [reader.pages EXCEPT ![book.name] = [version |-> book.version, page |-> life.page]]]
      BY <2>1, <3>0 DEF SaveCommitted, Commits
    <3>2. reader'.pages[book.name] = [version |-> book.version, page |-> life.page] /\ reader'.active = book.name
      BY <2>1, <3>1 DEF Inv, TypeOK, ReaderOK
    <3>3. info.page = life.page
      BY DEF Show, At, Inv, BookInv
    <3>4. life'.phase = "reading" /\ life'.page = life.page /\ task'.at = "idle" /\ book' = book /\ info' = info
      BY <3>0 DEF Idle, warm, Inv, TypeOK
    <3> QED BY <2>1, <3>2, <3>3, <3>4 DEF BookInv, Rendering
  <2> QED BY <2>2, <2>3
<1>3. black'.kind # "gray" /\ fb'.kind # "gray"
  BY DEF Inv, Show, At, Works, Opens, Differential, Schedule, SaveCommitted, Commits, PanelFails, Fails, Abandon, Idle, PageOf, Picture, outside, panel, warm, marks, bounds, input, BookInv, PageOf, Picture
<1>4. ~stray' => ScreenInv'
  BY <1>1 DEF Inv, Show, At, Works, Opens, Differential, Schedule, SaveCommitted, Commits, PanelFails, Fails, Abandon, Idle, PageOf, Picture, outside, panel, warm, marks, bounds, input, ScreenInv, BookInv, TypeOK, Rendering, Refining
<1>5. ~stray' /\ ~lost' => GlassInv'
  BY <1>1, <1>2 DEF Inv, Show, At, Works, Opens, Differential, Schedule, SaveCommitted, Commits, PanelFails, Fails, Abandon, Idle, PageOf, Picture, outside, panel, warm, marks, bounds, input, ScreenInv, GlassInv, BookInv, TypeOK, Rendering, Refining
<1> QED BY <1>1, <1>2, <1>3, <1>4, <1>5 DEF Inv

(* The menu is shown over the book, or the book stays.                     *)
LEMMA LeaveKeeps == ASSUME Inv, Leave PROVE Inv'
<1>1. TypeOK'
  <2>a. ReaderOK([reader EXCEPT !.mode = "menu", !.active = NoBook])
    BY DEF Inv, TypeOK, ReaderOK
  <2>b. PageCount \in Nat \ {0}
    BY ConstantsAssumption
  <2>1. ReaderOK(reader')
    BY <2>a DEF Leave, Inv, TypeOK
  <2>2. life' \in [phase : Phases, page : Pages]
    BY <2>b DEF Leave, Inv, TypeOK, Phases, Pages
  <2>3. task' \in [at : Places, by : {"nobody", "queue", "restore", "gray"}]
    BY DEF Leave, Inv, TypeOK, Idle, Places, Rendering, Refining
  <2>4. book' \in Opened /\ info' \in Loaded
    BY DEF Leave, Inv, TypeOK, warm
  <2>5. mode' \in {"menu", "reading", "error"} /\ errorShown' \in BOOLEAN /\ lost' \in BOOLEAN /\ stray' \in BOOLEAN
    BY DEF Leave, Inv, TypeOK, marks, panel, Cleanly, PanelFails
  <2>6. card' \in [Books -> Nat] /\ changes' \in Nat
        /\ menu' = [list |-> menu'.list, selected |-> menu'.selected] /\ menu'.list \subseteq Books
    BY DEF Leave, Inv, TypeOK, outside, bounds
  <2> QED BY <2>1, <2>2, <2>3, <2>4, <2>5, <2>6 DEF TypeOK
<1>2. BookInv'
  BY <1>1 DEF Inv, Leave, At, Works, Cleanly, PanelFails, Fails, Closes, Idle, outside, panel, warm, marks, bounds, input, TypeOK, BookInv, Rendering, Loaded, Opened, NoInfo, Closed, NoBook
<1>3. black'.kind # "gray" /\ fb'.kind # "gray"
  BY DEF Inv, Leave, At, Works, Cleanly, PanelFails, Fails, Closes, Idle, outside, panel, warm, marks, bounds, input, BookInv, PageOf, Picture
<1>4. ~stray' => ScreenInv'
  BY <1>1 DEF Inv, Leave, At, Works, Cleanly, PanelFails, Fails, Closes, Idle, outside, panel, warm, marks, bounds, input, ScreenInv, BookInv, TypeOK, Rendering, Refining
<1>5. ~stray' /\ ~lost' => GlassInv'
  BY <1>1, <1>2 DEF Inv, Leave, At, Works, Cleanly, PanelFails, Fails, Closes, Idle, outside, panel, warm, marks, bounds, input, ScreenInv, GlassInv, BookInv, TypeOK, Rendering, Refining
<1> QED BY <1>1, <1>2, <1>3, <1>4, <1>5 DEF Inv

(***************************************************************************)
(* The specification.                                                      *)
(***************************************************************************)
LEMMA InvInit == Init => Inv
<1> SUFFICES ASSUME Init PROVE Inv
  OBVIOUS
<1>1. PageCount \in Nat \ {0} /\ Books \subseteq Nat \ {0}
  BY ConstantsAssumption
<1>2. PICK b \in Books :
        /\ menu = [list |-> Books, selected |-> b]
        /\ reader = [mode |-> IF restoring THEN "reading" ELSE "menu",
                     active |-> IF restoring THEN b ELSE NoBook, selected |-> b,
                     pages |-> [n \in Books |-> IF n = b THEN [version |-> 1, page |-> PageCount - 1]
                                                ELSE NoInfo]]
        /\ fb = MenuOf(b) /\ red = MenuOf(b) /\ black = MenuOf(b) /\ glass = MenuOf(b)
  BY DEF Init
<1>3. 0 \in Pages /\ PageCount - 1 \in Pages
  BY <1>1 DEF Pages
<1>4. ReaderOK(reader)
  BY <1>1, <1>2, <1>3 DEF ReaderOK, Loaded
<1>5. TypeOK
  BY <1>1, <1>2, <1>3, <1>4 DEF Init, TypeOK, Idle, Places, Phases, Opened, Loaded
<1>6. BookInv
  BY DEF Init, BookInv, Idle, Rendering
<1> QED BY <1>2, <1>5, <1>6 DEF Init, Inv, ScreenInv, GlassInv, Idle, Refining, MenuOf, Picture

LEMMA InvNext == Inv /\ [Next]_vars => Inv'
<1> SUFFICES ASSUME Inv, [Next]_vars PROVE Inv'
  OBVIOUS
<1>1. CASE UNCHANGED vars
  <2>1. TypeOK' /\ BookInv'
    BY <1>1 DEF vars, panel, warm, bounds, Inv, TypeOK, BookInv, PageOf, Picture
  <2> QED BY <1>1, <2>1 DEF vars, panel, warm, Inv, ScreenInv, GlassInv, PageOf, Picture
<1>2. CASE Request
  BY <1>2, MoveKeeps, SelectKeeps, TurnKeeps, BackKeeps, ProbeKeeps DEF Request
<1>3. CASE Opening
  BY <1>3, RestoreKeeps, LoadPageKeeps, StageKeeps, ShowKeeps, ShowErrorKeeps DEF Opening
<1>4. CASE Refinement
  BY <1>4, RefineKeeps, StageLsbKeeps, StageMsbKeeps, ShowGrayKeeps DEF Refinement
<1> QED
  BY <1>1, <1>2, <1>3, <1>4, PressKeeps, BumpKeeps, LeaveKeeps, PowerKeeps, SleepRefusedKeeps,
     RefreshedKeeps, ChangeKeeps
  DEF Next

LEMMA InvAlways == Spec => []Inv
BY InvInit, InvNext, PTL DEF Spec

(* While a book is read, its page is on the panel or under a notice or a   *)
(* pattern, the page record in RAM is that of the page, and the reader     *)
(* state has saved it, for all books, failures and changes of the card     *)
(* (mounted_display_task.rs, async_refresh.rs).                            *)
THEOREM ShownAlwaysSaved == Spec => []ShownIsSaved
<1>1. Inv => ShownIsSaved
  <2> SUFFICES ASSUME Inv, At("idle"), life.phase = "reading", ~stray
               PROVE  /\ mode = "reading" /\ info.page = life.page
                      /\ ~lost => \/ glass.kind \in {"notice", "pattern"}
                                  \/ /\ glass.kind \in {"page", "gray"}
                                     /\ glass.name = book.name /\ glass.page = life.page
                      /\ reader.active # NoBook =>
                          reader.pages[book.name] = [version |-> book.version, page |-> life.page]
    BY DEF ShownIsSaved
  <2> QED BY DEF Inv, At, BookInv, ScreenInv, GlassInv, PageOf, Picture
<1> QED BY <1>1, InvAlways, PTL

(***************************************************************************)
(* Progress is committed by a turn and by the first page of a book.        *)
(***************************************************************************)
(* A commit is of the page that was just shown, for the book that is open. *)
LEMMA CommitStep ==
    ASSUME Inv, [Next]_vars, NEW b \in Books,
           reader'.pages[b] # reader.pages[b], reader'.pages[b] # NoInfo
    PROVE  /\ glass'.kind = "page" /\ glass'.name = b /\ glass'.page = reader'.pages[b].page
           /\ lost' = lost
<1>0. ReaderOK(reader)
  BY DEF Inv, TypeOK
<1>1. CASE Show
  <2>1. book.name \in Books /\ book.name # NoBook /\ black = PageOf(book, info) /\ info.page = life.page
    BY <1>1, ConstantsAssumption DEF Show, At, Inv, BookInv, TypeOK, Opened, Rendering, NoBook
  <2>2. reader' = SaveCommitted(book.name, life.page, TRUE) /\ Differential(red, black)
    BY <1>1 DEF Show, SaveCommitted, Commits
  <2>3. reader'.pages = [reader.pages EXCEPT ![book.name] = [version |-> book.version, page |-> life.page]]
    BY <2>1, <2>2 DEF SaveCommitted, Commits
  <2>4. b = book.name /\ reader'.pages[b].page = life.page
    BY <1>0, <2>3 DEF ReaderOK
  <2> QED BY <2>1, <2>2, <2>4 DEF Differential, PageOf, Picture
<1>2. CASE Turn
  <2> DEFINE to == Target(Head(queue))
             next == Load(to)
  <2>1. life.phase = "reading" /\ reader' = SaveCommitted(reader.active, to, TRUE)
        /\ Differential(PageOf(book, info), PageOf(book, next)) /\ reader.active # NoBook
    BY <1>2 DEF Turn, Refused, TurnShows, SaveCommitted, Commits, Load
  <2>2. reader.active = book.name
    BY <2>1 DEF Inv, BookInv
  <2>3. reader'.pages = [reader.pages EXCEPT ![book.name] = [version |-> book.version, page |-> to]]
    BY <2>1, <2>2 DEF SaveCommitted, Commits
  <2>4. b = book.name /\ reader'.pages[b].page = to
    BY <1>0, <2>3 DEF ReaderOK
  <2> QED BY <2>1, <2>4 DEF Differential, PageOf, Picture, Load
<1>3. CASE Refreshed
  <2> DEFINE state == [reader EXCEPT !.selected = Adopted]
  <2>1. state.pages = reader.pages /\ ReaderOK(state)
    BY <1>0 DEF ReaderOK
  <2>2. Pruned(state).pages[b] \in {reader.pages[b], NoInfo}
    BY <2>1 DEF Pruned, ReaderOK
  <2>3. reader' \in {reader, state, Pruned(state)}
    BY <1>3 DEF Refreshed
  <2> QED BY <2>1, <2>2, <2>3
<1>4. CASE Move \/ Leave
  BY <1>0, <1>4 DEF Move, Leave, ReaderOK
<1>5. CASE ShowError \/ Restore
  BY <1>0, <1>5 DEF ShowError, Restore, Ends, ReaderOK
<1>6. Show \/ Turn \/ Refreshed \/ Move \/ Leave \/ ShowError \/ Restore
  BY DEF Next, Request, Opening, Refinement, vars, Press, Bump, Select, Back, Probe, LoadPage, Stage,
         Power, SleepRefused, Change, Refine, StageLsb, StageMsb, StagesPlane, ShowGray
<1> QED BY <1>1, <1>2, <1>3, <1>4, <1>5, <1>6

(* Progress is only ever committed for a page that is on the panel, whole, *)
(* however requests, failures and changes of the card come together        *)
(* (async_refresh.rs, commit_visible_page).                                *)
THEOREM CommitsAreShown == Spec => CommitShown
<1>1. Inv /\ [Next]_vars =>
        [\A b \in Books :
            reader'.pages[b] # reader.pages[b] /\ reader'.pages[b] # NoInfo =>
                /\ glass'.kind = "page" /\ glass'.name = b /\ glass'.page = reader'.pages[b].page
                /\ lost' = lost]_vars
  BY CommitStep
<1> QED BY <1>1, InvAlways, PTL DEF Spec, CommitShown

(***************************************************************************)
(* What a refresh starts from.                                             *)
(***************************************************************************)
(* Only the end of a refinement puts gray on the panel, and it began for   *)
(* the page that is there.                                                 *)
LEMMA GrayStep ==
    ASSUME Inv, [Next]_vars, glass'.kind = "gray", glass.kind # "gray", ~lost, ~stray
    PROVE  \/ glass.kind \in {"notice", "pattern"}
           \/ glass.kind = "page" /\ glass.name = glass'.name /\ glass.page = glass'.page
<1>1. black.kind # "gray" /\ fb.kind # "gray"
  BY DEF Inv
<1>2. CASE ShowGray
  <2>1. glass' = Overlay("gray") /\ life.phase = "reading"
    BY <1>2 DEF ShowGray, At, Inv, ScreenInv, Refining
  <2> QED BY <2>1 DEF Inv, GlassInv, Overlay, PageOf, Picture
<1>3. ~(Move \/ Back \/ ShowError \/ Refreshed \/ SleepRefused)
  <2>1. ~Move
    BY DEF Move, Transition, Differential, PanelFails, MenuOf, Picture
  <2>2. ~Back
    BY DEF Back, Transition, Differential, PanelFails, MenuOf, Picture, panel
  <2>3. ~ShowError
    <3>1. ShowError => glass' = Screen("error") \/ glass' = glass
      BY DEF ShowError, Transition, Differential, PanelFails
    <3> QED BY <3>1 DEF Screen, Picture
  <2>4. ~Refreshed
    BY DEF Refreshed, Transition, Differential, PanelFails, MenuOf, Picture, panel
  <2>5. ~SleepRefused
    BY DEF SleepRefused, Transition, Differential, Screen, Picture
  <2> QED BY <2>1, <2>2, <2>3, <2>4, <2>5
<1>4. ~(Turn \/ Show \/ Leave)
  <2>1. ~Turn
    <3>1. Turn => glass' \in {glass, black, PageOf(book, Load(Target(Head(queue))))}
      BY DEF Turn, Refused, Differential, panel
    <3> QED BY <1>1, <3>1 DEF PageOf, Picture
  <2>2. ~Show
    BY <1>1 DEF Show, Differential, PanelFails
  <2>3. ~Leave
    BY <1>1 DEF Leave, Cleanly, PanelFails
  <2> QED BY <2>1, <2>2, <2>3
<1>5. ~(Probe \/ Power)
  BY <1>1 DEF Probe, Power, FullRefresh, Cleanly, Current, PanelFails, Screen, PageOf, Picture, panel
<1> QED
  BY <1>2, <1>3, <1>4, <1>5
  DEF Next, Request, Opening, Refinement, vars, panel, Press, Bump, Select, Restore, LoadPage, Stage,
      Change, Refine, StageLsb, StageMsb, StagesPlane

(* A differential refresh was told the picture that the panel shows: the   *)
(* framebuffer of the menu while no book is read, else the open page.      *)
LEMMA BaseStep ==
    ASSUME Inv, [Next]_vars, glass' # glass, ~lost, ~lost', glass'.kind \in {"page", "menu", "error"},
           glass.kind \notin {"pattern", "notice"}, ~stray', red' # black'
    PROVE  \/ red' = glass
           \/ glass.kind = "gray" /\ red'.name = glass.name /\ red'.page = glass.page
<1>1. CASE Move
  <2>1. ~stray /\ life.phase # "reading" /\ red' = fb
    BY <1>1 DEF Move, Strays, Inv, TypeOK, Transition, Differential, Previous, PanelFails
  <2> QED BY <2>1 DEF Inv, GlassInv
<1>2. CASE Back
  <2>1. ~stray /\ errorShown /\ red' = fb
    BY <1>2 DEF Back, Strays, Inv, TypeOK, Transition, Differential, Previous, PanelFails, panel
  <2> QED BY <2>1 DEF Inv, ScreenInv, GlassInv
<1>3. CASE Turn
  <2>1. ~stray /\ life.phase = "reading" /\ red' = PageOf(book, info)
    BY <1>3 DEF Turn, Refused, Differential, panel, marks
  <2> QED BY <2>1 DEF Inv, GlassInv, PageOf, Picture
<1>4. CASE Show
  <2>1. ~stray /\ life.phase # "reading" /\ red' = fb
    BY <1>4 DEF Show, At, Inv, BookInv, Rendering, Differential, PanelFails, marks
  <2> QED BY <2>1 DEF Inv, GlassInv
<1>5. CASE ShowError
  <2>1. ~stray /\ life.phase # "reading" /\ red' = fb
    BY <1>5 DEF ShowError, At, Inv, ScreenInv, Transition, Differential, Previous, PanelFails, marks
  <2> QED BY <2>1 DEF Inv, GlassInv
<1>6. CASE Refreshed
  <2>1. ~stray /\ mode = "menu" /\ task.at = "idle" /\ red' = fb
    BY <1>6 DEF Refreshed, Quiet, At, Transition, Differential, Previous, PanelFails, panel
  <2> QED BY <2>1 DEF Inv, ScreenInv, GlassInv
<1>7. ~(Leave \/ Probe \/ Power \/ SleepRefused)
  BY DEF Leave, Probe, Power, SleepRefused, FullRefresh, Cleanly, Transition, Differential, PanelFails,
         Screen, Picture, panel
<1>8. ~(ShowGray \/ Stage)
  BY DEF ShowGray, Stage, Overlay, Picture
<1> QED
  BY <1>1, <1>2, <1>3, <1>4, <1>5, <1>6, <1>7, <1>8
  DEF Next, Request, Opening, Refinement, vars, panel, Press, Bump, Select, Restore, LoadPage,
      Change, Refine, StageLsb, StageMsb, StagesPlane

(* Each waveform is used on the picture it was computed for: gray goes     *)
(* over its own page, and a differential refresh starts from the picture   *)
(* that is on the panel (mounted_display_task.rs, the base and the         *)
(* deadline of the refinement).                                            *)
THEOREM RefreshesAreRight == Spec => RefreshesRight
<1>1. Inv /\ [Next]_vars =>
        [glass'.kind = "gray" /\ glass.kind # "gray" /\ ~lost /\ ~stray =>
            \/ glass.kind \in {"notice", "pattern"}
            \/ glass.kind = "page" /\ glass.name = glass'.name /\ glass.page = glass'.page]_vars
  BY GrayStep
<1>2. Inv /\ [Next]_vars =>
        [glass' # glass /\ ~lost /\ ~lost' /\ glass'.kind \in {"page", "menu", "error"}
           /\ glass.kind \notin {"pattern", "notice"} /\ ~stray' /\ red' # black' =>
            \/ red' = glass
            \/ glass.kind = "gray" /\ red'.name = glass.name /\ red'.page = glass.page]_vars
  BY BaseStep
<1> QED BY <1>1, <1>2, InvAlways, PTL DEF Spec, RefreshesRight, GrayOnItsPage, BaseIsShown
=============================================================================
