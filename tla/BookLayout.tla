----------------------------- MODULE BookLayout -----------------------------
(***************************************************************************)
(* From an EPUB to compiled pages: the nodes of an HTML document, the      *)
(* pagination of the spine, the pages and panels the renderer makes of it, *)
(* the contents list and the fonts, and the planes of one page.            *)
(*                                                                         *)
(* Source: crates/binbook-epub, binbook-render, binbook-image,             *)
(* binbook-compress and binbook-compiler.                                  *)
(*                                                                         *)
(* A text is a sequence of characters, of which the code counts the bytes. *)
(* A byte of a plane stands for one pixel.  Shaping, scaling and dithering *)
(* are external: a picture is a function of what is drawn.  Paths, titles  *)
(* and families are sequences of numbers, compared as their bytes are.     *)
(***************************************************************************)
EXTENDS Integers, SequencesExt, FiniteSetsExt, TLC

CONSTANTS
    PageBytes,      \* CHARS_PER_PAGE, in bytes
    RowWidth,       \* characters of a fitted table row (72)
    LogicalWidth, LogicalHeight,  \* pixels of the page as it is read
    ChunkRows,      \* CHUNK_ROWS
    MaxRun,         \* MAX_RUN of the run-length code
    Pictures        \* what drawing may give, as lumas of the logical page

ASSUME PageFitsACharacter == PageBytes \in Nat /\ PageBytes >= 3
ASSUME RunsFit == MaxRun \in Nat /\ MaxRun >= 2

None == -1
LeastOf(a, b) == IF a < b THEN a ELSE b
Sub(a, b) == IF a > b THEN a - b ELSE 0
FirstWhere(s, Test(_)) == IF \E i \in DOMAIN s : Test(s[i]) THEN SelectInSeq(s, Test) - 1 ELSE None

Width(char) == IF char \in {"bar", "bullet", "rule"} THEN 3 ELSE IF char \in {"e2", "o2"} THEN 2 ELSE 1
Bytes(text) == FoldLeft(LAMBDA n, char : n + Width(char), 0, text)

LexLess(a, b) ==
    \E k \in 1 .. LeastOf(Len(a), Len(b)) + 1 :
        /\ SubSeq(a, 1, k - 1) = SubSeq(b, 1, k - 1)
        /\ IF k > Len(a) THEN k <= Len(b) ELSE k <= Len(b) /\ a[k] < b[k]

-----------------------------------------------------------------------------
(***************************************************************************)
(* Styles.  A selector is a sequence of simple ones: the last is matched,  *)
(* all of them are counted.  A patch says some of the fields of a style.   *)
(***************************************************************************)
Serif == <<115>>
RootStyle == [family |-> Serif, display |-> "block", before |-> FALSE, after |-> FALSE]

Matches(selector, element) ==
    LET simple == Last(selector)
    IN  CASE simple.on = "id" -> element.id = simple.name
          [] simple.on = "class" -> simple.name \in element.class
          [] OTHER -> element.tag = simple.name
Specificity(selector) ==
    LET Count(on) == Len(SelectSeq(selector, LAMBDA simple : simple.on = on))
    IN  <<Count("id"), Count("class"), IF Head(selector).on = "tag" THEN 1 ELSE 0>>

Merged(target, source) == source @@ target

\* parse_css: a segment of a sheet has one patch for some selectors; one without
\* selectors is a font face.
RulesOf(sheet) ==
    FlattenSeq([i \in DOMAIN sheet |->
        [k \in DOMAIN sheet[i].selectors |-> [selector |-> sheet[i].selectors[k], patch |-> sheet[i].patch]]])
FacesOf(sheet) ==
    SelectSeq(sheet, LAMBDA segment : segment.selectors = <<>> /\ {"family", "path"} \subseteq DOMAIN segment.patch)

\* The rules that match, by specificity and then by their order in the sheet.
PatchFor(rules, element) ==
    LET Rank(i) == Append(Specificity(rules[i].selector), i)
        ranked == SetToSortSeq({i \in DOMAIN rules : Matches(rules[i].selector, element)},
                               LAMBDA i, j : LexLess(Rank(i), Rank(j)))
    IN  FoldLeft(LAMBDA patch, i : Merged(patch, rules[i].patch), <<>>, ranked)

\* The family is inherited, the display and the breaks are not.
Cascade(parent, patch) ==
    LET Given(field, otherwise) == IF field \in DOMAIN patch THEN patch[field] ELSE otherwise
    IN  [family |-> Given("family", parent.family), display |-> Given("display", "inline"),
         before |-> Given("before", FALSE), after |-> Given("after", FALSE)]

-----------------------------------------------------------------------------
(***************************************************************************)
(* HTML to nodes.  An element has a tag, an id, classes, a style attribute *)
(* and children, and the sheet of a style element; a resource is found by  *)
(* its path.                                                               *)
(***************************************************************************)
Node(type) == [type |-> type, kind |-> "", kids |-> <<>>, text |-> <<>>, res |-> None, id |-> "",
               caption |-> <<>>, before |-> FALSE, after |-> FALSE, family |-> <<>>]
TextNode(text) == [Node("text") EXCEPT !.text = text]
ImageNode(res, alt, caption) == [Node("image") EXCEPT !.res = res, !.text = alt, !.caption = caption]

\* body stands for every generic container: html, div, section, article, main.
BlockTags == {"body", "p", "h1", "ul", "li", "blockquote", "pre", "figure", "table", "tr", "td"}
Defaults(tag) == IF tag \in BlockTags THEN [display |-> "block"] ELSE <<>>
Styled(type, kind, style, kids) ==
    [Node(type) EXCEPT !.kind = kind, !.kids = kids, !.before = style.before,
                       !.after = style.after, !.family = style.family]

ResourceAt(resources, path) == FirstWhere(resources, LAMBDA r : r.path = path)

RECURSIVE Images(_), Caption(_), PlainText(_), Convert(_, _, _, _), InnerRules(_)

Images(element) ==
    FlattenSeq([i \in DOMAIN element.kids |->
        (IF element.kids[i].tag = "img" THEN <<element.kids[i]>> ELSE <<>>) \o Images(element.kids[i])])

\* The first caption below the element that has a text.
Caption(element) ==
    LET found == [i \in DOMAIN element.kids |->
            LET kid == element.kids[i]
                own == FlattenSeq([k \in DOMAIN kid.kids |-> kid.kids[k].text])
            IN  IF kid.tag = "figcaption" /\ own # <<>> THEN own ELSE Caption(kid)]
        some == SelectSeq(found, LAMBDA text : text # <<>>)
    IN  IF some = <<>> THEN <<>> ELSE Head(some)

FigureImage(element, resources) ==
    LET images == Images(element)
    IN  IF Len(images) # 1 \/ ResourceAt(resources, images[1].src) = None THEN <<>>
        ELSE <<ImageNode(ResourceAt(resources, images[1].src), images[1].text, Caption(element))>>

Convert(element, parent, rules, resources) ==
    LET patch == Merged(Merged(Defaults(element.tag), PatchFor(rules, element)), element.style)
        style == Cascade(parent, patch)
        kids == FlattenSeq([i \in DOMAIN element.kids |-> Convert(element.kids[i], style, rules, resources)])
        anchor == IF element.id = "" THEN <<>> ELSE <<[Node("anchor") EXCEPT !.id = element.id]>>
        figure == FigureImage(element, resources)
    IN  CASE element.tag = "text" -> IF element.text = <<>> THEN <<>> ELSE <<TextNode(element.text)>>
          [] element.tag \in {"script", "form", "style", "head"} \/ style.display = "none" -> <<>>
          [] element.tag = "figure" /\ figure # <<>> -> <<Styled("block", "figure", style, figure)>>
          [] element.tag = "img" ->
                IF element.src = <<>> THEN <<>>
                ELSE IF ResourceAt(resources, element.src) = None THEN <<TextNode(element.text)>>
                ELSE <<ImageNode(ResourceAt(resources, element.src), element.text, <<>>)>>
          [] element.tag = "br" -> <<Node("break")>>
          [] element.tag = "hr" -> <<Node("rule")>>
          [] OTHER -> <<Styled(IF element.tag \in BlockTags THEN "block" ELSE "inline", element.tag, style,
                               anchor \o kids)>>

\* The style elements of a document, whose rules come after those of the book.
InnerRules(element) ==
    (IF element.tag = "style" THEN RulesOf(element.sheet) ELSE <<>>)
    \o FlattenSeq([i \in DOMAIN element.kids |-> InnerRules(element.kids[i])])

ParseHtml(element, sheet, resources) ==
    Styled("block", "document", RootStyle,
           Convert(element, RootStyle, RulesOf(sheet) \o InnerRules(element), resources))

(***************************************************************************)
(* The contents list: entries in document order with their depth.  An      *)
(* entry without a link to a resource of the book is left out.             *)
(***************************************************************************)
ReadEntry(list, entry, resources) ==
    LET level == Sub(entry.depth, 1)
        parents == SubSeq(list.parents, 1, LeastOf(level, Len(list.parents)))
        item == [title |-> entry.title, res |-> ResourceAt(resources, entry.href), fragment |-> entry.fragment,
                 level |-> level,
                 parent |-> IF level >= 1 /\ Len(parents) >= level THEN parents[level] ELSE None]
    IN  IF item.res = None THEN list
        ELSE [items |-> Append(list.items, item), parents |-> Append(parents, Len(list.items))]

ReadNavigation(toc, resources) ==
    FoldLeft(LAMBDA list, entry : ReadEntry(list, entry, resources),
             [items |-> <<>>, parents |-> <<>>], toc).items

\* Faces of the style sheet whose file the book has and whose format is known.
FontFaces(sheet, resources) ==
    {face \in {segment.patch : segment \in Range(FacesOf(sheet))} :
        ResourceAt(resources, face.path) # None /\ resources[ResourceAt(resources, face.path) + 1].usable}

-----------------------------------------------------------------------------
(***************************************************************************)
(* Pagination.  A page is filled by bytes and never splits a character.    *)
(***************************************************************************)
BlankPage == [text |-> <<>>, art |-> <<>>, len |-> 0]
NoPages == [pages |-> <<>>, anchors |-> <<>>, families |-> {}]
NewPage(layout) == [layout EXCEPT !.pages = Append(@, BlankPage)]
OnLast(layout, page) == [layout EXCEPT !.pages[Len(layout.pages)] = page]
LastLen(layout) == Last(layout.pages).len

\* mutant: the page is filled to its last byte, through a character
FittingBytes(text, room) == LeastOf(Len(text), Sub(room, 0))
\* floor_char_boundary: the most characters of the text that fit
Fitting(text, room) == Max({n \in 0 .. Len(text) : Bytes(SubSeq(text, 1, n)) <= room})

RECURSIVE PushText(_, _), TextLen(_), Visit(_, _, _)

PushText(text, layout) ==
    LET page == Last(layout.pages)
        split == Fitting(text, PageBytes - page.len)
        part == SubSeq(text, 1, split)
    IN  IF text = <<>> THEN layout
        ELSE IF split = 0 THEN PushText(text, NewPage(layout))
        ELSE PushText(SubSeq(text, split + 1, Len(text)),
                      OnLast(layout, [page EXCEPT !.text = @ \o part, !.len = @ + Bytes(part)]))

PushArtwork(node, layout) ==
    LET own == IF LastLen(layout) > 0 THEN NewPage(layout) ELSE layout
    IN  NewPage(OnLast(own, [Last(own.pages) EXCEPT !.art = <<[res |-> node.res, alt |-> node.text,
                                                               caption |-> node.caption]>>]))

TextLen(node) ==
    IF node.type = "text" THEN Bytes(node.text)
    ELSE FoldLeft(LAMBDA n, kid : n + TextLen(kid), 0, node.kids)

PlainText(node) ==
    CASE node.type \in {"text", "image"} -> node.text
      [] node.type = "break" -> <<"sp">>
      [] OTHER -> FlattenSeq([i \in DOMAIN node.kids |-> PlainText(node.kids[i])])

\* A row that fits: every cell cut to its column.
EqualRow(cells) ==
    LET column == (RowWidth + Len(cells) - 1) \div Len(cells)
        Cell(text) == LET content == SubSeq(text, 1, LeastOf(Len(text), Sub(column, 3)))
                      IN  content \o [i \in 1 .. Sub(Sub(column, 2), Len(content)) |-> "sp"] \o <<"bar", "sp">>
    IN  FlattenSeq([i \in DOMAIN cells |-> Cell(PlainText(cells[i]))]) \o <<"nl">>

Before(kind) == CASE kind = "li" -> <<"bullet", "sp">> [] kind = "blockquote" -> <<"bar", "sp">> [] OTHER -> <<>>
After(kind) ==
    CASE kind = "td" -> <<"sp", "bar", "sp">>
      [] kind = "tr" -> <<"nl">>
      [] kind \in {"document", "body", "table"} -> <<>>
      [] OTHER -> <<"nl", "nl">>
FittedRow(node) == node.kind = "tr" /\ TextLen(node) <= PageBytes

VisitBlock(node, layout, res) ==
    LET start == IF node.before /\ LastLen(layout) > 0 THEN NewPage(layout) ELSE layout
        named == [start EXCEPT !.families = @ \union {node.family}]
        body == FoldLeft(LAMBDA l, kid : Visit(kid, l, res), PushText(Before(node.kind), named), node.kids)
        end == PushText(After(node.kind), body)
    IN  IF FittedRow(node) THEN (IF node.kids = <<>> THEN named ELSE PushText(EqualRow(node.kids), named))
        ELSE IF node.after THEN NewPage(end) ELSE end

Visit(node, layout, res) ==
    CASE node.type = "text" -> PushText(node.text, layout)
      [] node.type = "anchor" ->
            [layout EXCEPT !.anchors = (<<res, node.id>> :> Len(layout.pages) - 1) @@ @]
      [] node.type = "break" -> PushText(<<"nl">>, layout)
      [] node.type = "rule" -> PushText(<<"nl", "rule", "nl">>, layout)
      [] node.type = "image" -> PushArtwork(node, layout)
      [] node.type = "inline" ->
            FoldLeft(LAMBDA l, kid : Visit(kid, l, res), [layout EXCEPT !.families = @ \union {node.family}], node.kids)
      [] OTHER -> VisitBlock(node, layout, res)

Paginate(root, res, layout) ==
    Visit(root, IF layout.pages = <<>> THEN NewPage(layout) ELSE layout, res)

-----------------------------------------------------------------------------
(***************************************************************************)
(* Rendering.  Blank pages at the end are dropped; an artwork is one page  *)
(* or two panels, or its alternative text when it cannot be decoded.       *)
(***************************************************************************)
PopBlank(pages) ==
    SubSeq(pages, 1, Max({1} \union {i \in DOMAIN pages : pages[i].text # <<>> \/ pages[i].art # <<>>}))

TextDrawing(text) == [kind |-> "text", text |-> text, res |-> None, panel |-> 0]
RenderedPages(page, resources) ==
    IF page.art = <<>> THEN <<TextDrawing(page.text)>>
    ELSE LET art == page.art[1]
             image == resources[art.res + 1]
         IN  IF image.usable
             THEN [panel \in 1 .. (IF image.landscape THEN 2 ELSE 1) |->
                    [kind |-> "art", text |-> art.caption, res |-> art.res, panel |-> panel]]
             ELSE <<TextDrawing(<<"image">> \o art.alt)>>

Rendered(pages, resources) == [i \in DOMAIN pages |-> RenderedPages(pages[i], resources)]

\* mutant: a layout page is taken for an output page
OutputStartSame(rendered, page) == page
\* Layout pages to output pages: where each one starts.
OutputStart(rendered, page) == Len(FlattenSeq(SubSeq(rendered, 1, page)))
Anchors(layout, rendered) ==
    [a \in {b \in DOMAIN layout.anchors : layout.anchors[b] < Len(rendered)} |->
        OutputStart(rendered, layout.anchors[a])]

\* External: what drawing a text page or a panel gives.
Drawn(drawing) == Pictures[1 + ((Bytes(drawing.text) + Len(drawing.text) + drawing.panel) % Len(Pictures))]

SelectedFaces(faces, families) == {face \in faces : face.family \in families}
UsedFonts(faces, families, forced) ==
    IF forced # <<>> THEN {[family |-> forced, path |-> <<102>>]}
    ELSE IF SelectedFaces(faces, families) = {} THEN {[family |-> <<76>>, path |-> <<98>>]}
    ELSE SelectedFaces(faces, families)

\* An entry points to the page of its fragment, and to page 0 without one.
Target(item, anchors) ==
    IF <<item.res, item.fragment>> \in DOMAIN anchors THEN anchors[<<item.res, item.fragment>>] ELSE 0

AddNavigation(items, anchors, resources) ==
    [i \in DOMAIN items |->
        LET item == items[i]
            later == SelectInSubSeq(items, i + 1, Len(items), LAMBDA c : c.parent = item.parent)
        IN  [title |-> item.title, href |-> resources[item.res + 1].path, type |-> 3, level |-> item.level,
             page |-> Target(item, anchors), parent |-> item.parent,
             child |-> FirstWhere(items, LAMBDA c : c.parent = i - 1),
             sibling |-> IF later = 0 THEN None ELSE later - 1]]

-----------------------------------------------------------------------------
(***************************************************************************)
(* One page: levels, planes, chunks and their run-length code.             *)
(***************************************************************************)
StoredWidth == LogicalHeight
StoredHeight == LogicalWidth
RowBytes == StoredWidth

Gray1 == 1
Gray2 == 2
Quantize(luma, format) ==
    IF format = Gray1 THEN (IF luma < 128 THEN 0 ELSE 3)
    ELSE IF luma <= 42 THEN 0 ELSE IF luma <= 127 THEN 1 ELSE IF luma <= 212 THEN 2 ELSE 3

\* The page is turned: logical (x, y) is stored at (height - 1 - y, x).
Level(picture, format, x, y) == Quantize(picture[(LogicalHeight - 1 - x) * LogicalWidth + y + 1], format)

\* The three planes of a level; the rows of a plane are mirrored.
PlaneBit(slot, level) ==
    CASE slot = 0 -> IF level \in {1, 2} THEN 1 ELSE 0
      [] slot = 1 -> IF level = 1 THEN 1 ELSE 0
      [] OTHER -> IF level = 3 THEN 1 ELSE 0
PlaneOf(picture, format, slot) ==
    [k \in 1 .. RowBytes * StoredHeight |->
        PlaneBit(slot, Level(picture, format, StoredWidth - 1 - ((k - 1) % RowBytes), (k - 1) \div RowBytes))]

RepeatLength(input, at) ==
    Max({n \in 1 .. LeastOf(MaxRun, Len(input) - at + 1) : \A k \in 1 .. n : input[at + k - 1] = input[at]})
LiteralLength(input, at) ==
    Max({n \in 1 .. LeastOf(MaxRun, Len(input) - at + 1) : \A k \in 2 .. n :
            at + k - 1 = Len(input) \/ input[at + k - 1] # input[at + k]})

RECURSIVE EncodeRuns(_, _)
EncodeRuns(input, at) ==
    LET repeat == RepeatLength(input, at)
        literal == LiteralLength(input, at)
    IN  IF at > Len(input) THEN <<>>
        ELSE IF repeat >= 2 THEN <<MaxRun + repeat - 1, input[at]>> \o EncodeRuns(input, at + repeat)
        ELSE <<literal - 1>> \o SubSeq(input, at, at + literal - 1) \o EncodeRuns(input, at + literal)
PackBits(input) == EncodeRuns(input, 1)

CompilePlane(slot, plane) ==
    LET size == RowBytes * ChunkRows
    IN  [slot |-> slot, code |-> 1,
         chunks |-> [i \in 1 .. Len(plane) \div size |->
            [bytes |-> PackBits(SubSeq(plane, (i - 1) * size + 1, i * size)), start |-> (i - 1) * ChunkRows,
             rows |-> ChunkRows, size |-> size]]]

Slots(format) == IF format = Gray1 THEN <<2>> ELSE <<0, 1, 2>>
CompileImage(picture, format) ==
    [kind |-> 2, format |-> format, width |-> StoredWidth, height |-> StoredHeight,
     planes |-> [i \in DOMAIN Slots(format) |->
        CompilePlane(Slots(format)[i], PlaneOf(picture, format, Slots(format)[i]))]]
=============================================================================
