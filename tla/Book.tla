-------------------------------- MODULE Book --------------------------------
(***************************************************************************)
(* The way of a book: an EPUB or a sequence of images is compiled into     *)
(* pages, assembled, validated and published; a published file may be      *)
(* damaged by one stored field; the device opens a file, loads a page and  *)
(* decodes a plane from reads of any size.                                 *)
(*                                                                         *)
(* Source: crates/binbook-compiler/src/compile.rs, and the device's        *)
(* owner_book.rs over xteink-x4-display/src/page_source.rs.                *)
(***************************************************************************)
EXTENDS BookReader

CONSTANTS
    Sources,        \* books to compile
    Capacities,     \* sizes of the device's read buffer
    Damaged(_)      \* files that differ from one in a stored field

VARIABLES
    phase,      \* how far the book is
    source,     \* what is compiled
    layout,     \* the pages laid out so far, and the spine items they hold
    drawings,   \* what is drawn on each output page
    book,       \* the model the writer gets
    file,       \* the file, staged or published
    stream,     \* the device's plane decoder
    shown       \* the page and slot it decodes, and the rows it has

vars == <<phase, source, layout, drawings, book, file, stream, shown>>

NoFile == [size |-> 0]
NoStream == [failed |-> FALSE]
NoBook == [pages |-> <<>>, fonts |-> {}, nav |-> <<>>]
Nothing == [page |-> None, slot |-> None, rows |-> <<>>]

Init ==
    /\ phase = "source" /\ source \in Sources
    /\ layout = [items |-> 0, laid |-> NoPages]
    /\ drawings = <<>> /\ book = NoBook /\ file = NoFile
    /\ stream = NoStream /\ shown = Nothing

-----------------------------------------------------------------------------
Root(n) == ParseHtml(source.spine[n], source.sheet, source.resources)

LayItem ==
    /\ phase = "source" /\ source.kind = "epub" /\ layout.items < Len(source.spine)
    /\ layout' = [items |-> layout.items + 1,
                  laid |-> Paginate(Root(layout.items + 1), layout.items, layout.laid)]
    /\ UNCHANGED <<phase, source, drawings, book, file, stream, shown>>

\* render_document and compile_epub
Render ==
    /\ phase = "source" /\ source.kind = "epub" /\ layout.items = Len(source.spine)
    /\ LET laid == layout.laid
           rendered == Rendered(PopBlank(laid.pages), source.resources)
           drawn == FlattenSeq(rendered)
           items == ReadNavigation(source.toc, source.resources)
       IN  /\ drawings' = drawn
           /\ book' = [pages |-> [i \in DOMAIN drawn |-> CompileImage(Drawn(drawn[i]), source.format)],
                       fonts |-> UsedFonts(FontFaces(source.sheet, source.resources), laid.families, source.forced),
                       nav |-> AddNavigation(items, Anchors(laid, rendered), source.resources),
                       title |-> source.title, source |-> <<1>>, format |-> source.format,
                       forced |-> source.forced]
    /\ phase' = "rendered"
    /\ UNCHANGED <<source, layout, file, stream, shown>>

CompileImages ==
    /\ phase = "source" /\ source.kind = "images"
    /\ IF source.pictures = <<>> THEN phase' = "refused" /\ UNCHANGED book
       ELSE /\ book' = [pages |-> [i \in DOMAIN source.pictures |->
                                    CompileImage(Pictures[source.pictures[i]], source.format)],
                        fonts |-> {}, nav |-> <<>>, title |-> <<>>, source |-> source.pictures,
                        format |-> source.format, forced |-> <<>>]
            /\ phase' = "rendered"
    /\ UNCHANGED <<source, layout, drawings, file, stream, shown>>

\* write_to and validate: the file is written out only when nothing is wrong.
Stage ==
    /\ phase = "rendered"
    /\ IF Writable(book) THEN file' = Assemble(book) /\ phase' = "staged"
       ELSE phase' = "refused" /\ UNCHANGED file
    /\ UNCHANGED <<source, layout, drawings, book, stream, shown>>

Publish ==
    /\ phase = "staged"
    /\ phase' = IF Issues(file) = {} THEN "published" ELSE "refused"
    /\ UNCHANGED <<source, layout, drawings, book, file, stream, shown>>

\* One stored field of the file changes on its way to the device.
Damage ==
    /\ phase = "published" /\ source.followed /\ shown = Nothing
    /\ file' \in Damaged(file) /\ phase' = "damaged"
    /\ UNCHANGED <<source, layout, drawings, book, stream, shown>>

-----------------------------------------------------------------------------
(***************************************************************************)
(* The device, with a published or a damaged file.                         *)
(***************************************************************************)
Load ==
    /\ phase \in {"published", "damaged"} /\ source.followed /\ shown = Nothing
    /\ DeviceOpens(file)
    /\ \E n \in 0 .. CountOf(file, PageIndex) - 1 :
        /\ DeviceLoads(file, n)
        /\ \E slot \in DOMAIN RecordAt(file, PageIndex, n).planes :
            /\ stream' = Stream(RecordAt(file, PageIndex, n), slot)
            /\ shown' = [page |-> n, slot |-> slot, rows |-> <<>>]
    /\ UNCHANGED <<phase, source, layout, drawings, book, file>>

Reading == shown # Nothing /\ ~stream.failed /\ Len(shown.rows) < RowBytes * StoredHeight

\* issue_read_with_sequence: what the decoder asks for, inside the page data or not at all.
InputOf(capacity) ==
    LET at == stream.plane.offset + stream.source
        len == LeastOf(capacity, stream.plane.length - stream.source)
    IN  IF CanRead(stream) /\ InPageData(file, at, len) THEN <<DataAt(file, at, len)>> ELSE <<>>

\* Only when the decoder can do nothing without more input.
ReadInput ==
    /\ Reading /\ DecodeRow(stream) = stream
    /\ \E capacity \in Capacities :
        stream' = IF InputOf(capacity) # <<>> THEN Accept(stream, InputOf(capacity)[1])
                  ELSE [stream EXCEPT !.failed = TRUE]
    /\ UNCHANGED <<phase, source, layout, drawings, book, file, shown>>

\* decode_row, until the row is whole or more input is needed
Decode ==
    /\ Reading
    /\ LET next == DecodeRow(stream)
           whole == ~next.failed /\ Len(next.row) = RowBytes
       IN  /\ next # stream
           /\ stream' = IF whole THEN [next EXCEPT !.row = <<>>] ELSE next
           /\ shown' = IF whole THEN [shown EXCEPT !.rows = @ \o next.row] ELSE shown
    /\ UNCHANGED <<phase, source, layout, drawings, book, file>>

\* finish: every byte of the plane must have been used.
Finish ==
    /\ shown # Nothing /\ ~stream.failed /\ Len(shown.rows) = RowBytes * StoredHeight
    /\ IF Finishes(stream) THEN stream' = NoStream /\ shown' = Nothing
       ELSE stream' = [stream EXCEPT !.failed = TRUE] /\ UNCHANGED shown
    /\ UNCHANGED <<phase, source, layout, drawings, book, file>>

Next ==
    \/ LayItem \/ Render \/ CompileImages \/ Stage \/ Publish \/ Damage
    \/ Load \/ ReadInput \/ Decode \/ Finish

Spec == Init /\ [][Next]_vars

-----------------------------------------------------------------------------
(***************************************************************************)
(* Properties.                                                             *)
(***************************************************************************)
RECURSIVE Flow(_), Arts(_)
\* The reading order of a document: its characters, pictures, anchors and page breaks.
Flow(node) ==
    LET kids == FlattenSeq([i \in DOMAIN node.kids |-> Flow(node.kids[i])])
        Break(asked) == IF asked THEN <<"page">> ELSE <<>>
    IN  CASE node.type = "text" -> node.text
          [] node.type = "anchor" -> <<node.id>>
          [] node.type = "break" -> <<"nl">>
          [] node.type = "rule" -> <<"nl", "rule", "nl">>
          [] node.type = "image" -> <<"picture">>
          [] node.type = "inline" -> kids
          [] FittedRow(node) -> Break(node.before) \o (IF node.kids = <<>> THEN <<>> ELSE EqualRow(node.kids))
          [] OTHER -> Break(node.before) \o Before(node.kind) \o kids \o After(node.kind) \o Break(node.after)
Arts(node) ==
    IF node.type = "image" THEN <<node.res>>
    ELSE IF FittedRow(node) THEN <<>>
    ELSE FlattenSeq([i \in DOMAIN node.kids |-> Arts(node.kids[i])])

Ids == {"a1", "a2", "a3"}
\* What is drawn of it: all but its anchors and breaks; and the characters alone.
Marks(flow) == SelectSeq(flow, LAMBDA mark : mark \notin Ids \union {"page"})
Characters(flow) == SelectSeq(Marks(flow), LAMBDA mark : mark # "picture")
LaidFlow == FlattenSeq([n \in 1 .. layout.items |-> Flow(Root(n))])

(***************************************************************************)
(* Whatever the breaks, images and page ends in it, the pages of a         *)
(* document read one after the other are the document: no character is     *)
(* lost, doubled, cut in two or moved, no page is longer than its bytes,   *)
(* and the pictures come in order (pagination.rs).  A table row that fits  *)
(* is the row of its cut cells (EqualRow): what is cut is not counted.     *)
(***************************************************************************)
LayoutKeepsFlow ==
    LET pages == layout.laid.pages
    IN  /\ FlattenSeq([i \in DOMAIN pages |-> pages[i].text]) = Characters(LaidFlow)
        /\ FlattenSeq([i \in DOMAIN pages |-> [k \in DOMAIN pages[i].art |-> pages[i].art[k].res]])
           = FlattenSeq([n \in 1 .. layout.items |-> Arts(Root(n))])
        /\ \A i \in DOMAIN pages : Bytes(pages[i].text) <= PageBytes

\* A picture is one mark: on its first panel, or as its alternative text.
MarksOf(drawing) ==
    IF drawing.kind = "art" THEN (IF drawing.panel = 1 THEN 1 ELSE 0)
    ELSE IF drawing.text # <<>> /\ Head(drawing.text) = "image" THEN 1 ELSE Len(drawing.text)
MarksBefore(n) == SumOf([i \in 1 .. n |-> MarksOf(drawings[i])])

\* The mark after the anchor has no place on the page that the anchor was laid out
\* on: a character wider than its room, a picture, or what is after a page break.
TurnsPage(page, rest) ==
    Marks(rest) # <<>> =>
        LET mark == Head(Marks(rest))
        IN  \/ "page" \in Range(SubSeq(rest, 1, SelectInSeq(rest, LAMBDA m : m = mark)))
            \/ page.len > 0 /\ (mark = "picture" \/ page.len + Width(mark) > PageBytes)

\* Every link whose fragment was laid out on a page that is kept leads to the page of
\* the mark after it, or, where Early allows, to the page that ends at the anchor.
LinksLand(Early(_, _)) ==
    source.kind = "epub" /\ drawings # <<>> =>
        LET items == ReadNavigation(source.toc, source.resources)
            laid == layout.laid
        IN  \A i \in DOMAIN book.nav :
                LET anchor == <<items[i].res, items[i].fragment>>
                    before == SelectInSeq(LaidFlow, LAMBDA mark : mark = items[i].fragment)
                    place == Len(Marks(SubSeq(LaidFlow, 1, before)))
                    rest == SubSeq(LaidFlow, before + 1, Len(LaidFlow))
                    end == MarksBefore(book.nav[i].page + 1)
                IN  anchor \in DOMAIN laid.anchors /\ laid.anchors[anchor] < Len(PopBlank(laid.pages)) =>
                        /\ MarksBefore(book.nav[i].page) <= place
                        /\ place < end \/ (place = end /\ Early(laid.pages[laid.anchors[anchor] + 1], rest))

(***************************************************************************)
(* A link of the contents list leads to the output page where the reader   *)
(* meets what follows its anchor, though landscape pictures take two pages *)
(* and blank pages are dropped (render/document.rs, compile.rs             *)
(* add_navigation).  The exception is in the code: an anchor takes the     *)
(* last page there is when it is met, so when what follows opens the next  *)
(* page the link leads one page too early (pagination.rs:63-67,            *)
(* 153-164).                                                               *)
(***************************************************************************)
LinksLandOnText == LinksLand(TurnsPage)

\* Without the exception it does not hold (MCBookLinks.cfg).
LinksLandAlways == LinksLand(LAMBDA page, rest : FALSE)

(***************************************************************************)
(* The writer and the validator agree: what the compiler makes is refused  *)
(* only when two used faces are of one font file, or there is nothing to   *)
(* compile (compile.rs:38, writer.rs, validate.rs).                        *)
(***************************************************************************)
CompiledIsValid ==
    phase = "refused" => \/ book.pages = <<>>
                         \/ \E a, b \in book.fonts : a # b /\ a.path = b.path

PictureOf(n) == IF source.kind = "images" THEN Pictures[source.pictures[n + 1]] ELSE Drawn(drawings[n + 1])
LevelsOf(n) ==
    [k \in 1 .. StoredWidth * StoredHeight |->
        LET level == Level(PictureOf(n), source.format, (k - 1) % StoredWidth, (k - 1) \div StoredWidth)
        IN  IF source.format = Gray1 THEN level \div 3 ELSE level]

(***************************************************************************)
(* A file the validator has nothing against shows, decoded by the host,    *)
(* every page as it was drawn, turned and quantized, and its planes fit    *)
(* the sizes it asks of a reader; so a changed field that would change a   *)
(* page is always reported (validate.rs, record_validation.rs,             *)
(* page_decode.rs).                                                        *)
(***************************************************************************)
SilentMeansSame ==
    phase \in {"published", "damaged"} /\ Issues(file) = {} =>
        /\ CountOf(file, PageIndex) = Len(book.pages)
        /\ \A n \in DOMAIN book.pages : DecodedPage(file, n - 1) = LevelsOf(n - 1)
        /\ \A n \in DOMAIN book.pages : \A slot \in DOMAIN RecordAt(file, PageIndex, n - 1).planes :
                RecordAt(file, PageIndex, n - 1).planes[slot].length <= file.body[Requirements][5]

(***************************************************************************)
(* From a published file the device gets, whatever the sizes of its reads  *)
(* and wherever they cut a run, the rows of the plane that was compiled,   *)
(* and it never fails (page_source.rs, decompress/packbits.rs).            *)
(***************************************************************************)
DeviceShowsPage ==
    phase = "published" /\ shown # Nothing =>
        /\ ~stream.failed
        /\ shown.rows \o stream.row =
           SubSeq(PlaneOf(PictureOf(shown.page), source.format, shown.slot),
                  1, Len(shown.rows) + Len(stream.row))

(***************************************************************************)
(* From a damaged file, which the device does not validate, it still reads *)
(* inside the page data of the file only (page.rs, book_index.rs).         *)
(***************************************************************************)
ReadsInside ==
    shown # Nothing =>
        /\ stream.plane.offset + stream.plane.length <= Section(file, PageData).length
        /\ Section(file, PageData).offset + Section(file, PageData).length <= file.size

\* What the device reads of a file: the page that was compiled when the file is
\* the published one, and never a byte outside the page data when it is not.
DeviceReads == DeviceShowsPage /\ ReadsInside
=============================================================================
