------------------------------- MODULE MCBook -------------------------------
(***************************************************************************)
(* Books of up to two items in one or two documents, and image sequences;  *)
(* texts of four bytes to a page, planes of four rows of three pixels.     *)
(***************************************************************************)
EXTENDS Book

MCPictures ==
    << <<0, 50, 200, 255, 255, 255, 0, 0, 255, 255, 255, 255>>,
       <<0, 0, 0, 0, 0, 0, 0, 0, 0, 0, 0, 0>>,
       <<0, 255, 42, 43, 127, 128, 212, 213, 0, 255, 0, 255>> >>

Blank == [tag |-> "span", id |-> "", kids |-> <<>>, text |-> <<>>, src |-> <<>>, class |-> {},
          style |-> <<>>, sheet |-> <<>>]
Text(text) == [Blank EXCEPT !.tag = "text", !.text = text]
Element(tag, id, kids) == [Blank EXCEPT !.tag = tag, !.id = id, !.kids = kids]
Img(path, alt) == [Blank EXCEPT !.tag = "img", !.src = path, !.text = alt]

\* Files of the book: two documents, two pictures, one that cannot be decoded, a font.
Resource(path, usable, landscape) == [path |-> path, usable |-> usable, landscape |-> landscape]
Files == <<Resource(<<1>>, TRUE, FALSE), Resource(<<1, 1>>, TRUE, FALSE), Resource(<<2>>, TRUE, FALSE),
           Resource(<<3>>, TRUE, TRUE), Resource(<<4>>, FALSE, FALSE), Resource(<<5>>, TRUE, FALSE)>>

Cell == Element("td", "", <<Text(<<"x", "y">>)>>)
LongCell == Element("td", "", <<Text(<<"x", "e2", "x">>)>>)
Items(id) ==
    {Text(<<"x", "e2", "y">>),
     [Element("p", id, <<Text(<<"e2", "bar", "x">>)>>) EXCEPT !.class = {"seven"}],
     [Element("body", id, <<Text(<<"x">>)>>) EXCEPT !.style = [before |-> TRUE, after |-> TRUE]],
     Element("li", "", <<Element("span", id, <<Text(<<"x">>)>>), Element("hr", "", <<>>)>>),
     Element("table", id, <<Element("tr", "", <<Cell, Cell>>), Element("tr", "", <<LongCell, LongCell>>)>>),
     Element("figure", "", <<Img(<<3>>, <<"x">>), Element("figcaption", "", <<Text(<<"y", "x">>)>>)>>),
     Element("span", id, <<Img(<<2>>, <<"x">>), Element("br", "", <<>>)>>),
     Element("span", id, <<Img(<<4>>, <<"x">>)>>),
     Element("blockquote", id, <<Img(<<9>>, <<"y">>)>>),
     [Element("p", id, <<Text(<<"y">>)>>) EXCEPT !.class = {"note", "seven"}],
     Element("body", id, <<[Element("li", "", <<Text(<<"x">>)>>) EXCEPT !.style = [before |-> TRUE]]>>)}

Entry(depth, title, href, fragment) == [depth |-> depth, title |-> title, href |-> href, fragment |-> fragment]
Toc == <<Entry(1, <<65>>, <<1>>, "a1"), Entry(2, <<66>>, <<8>>, "a1"), Entry(2, <<65>>, <<1>>, "a2"),
         Entry(3, <<67>>, <<1>>, ""), Entry(1, <<66>>, <<1, 1>>, "a3")>>

\* A style sheet: faces, and rules by which a paragraph of class note is not shown
\* but for one with the id a2, and one of class seven has the family 7.
On(on, name) == <<[on |-> on, name |-> name]>>
Face(family, path) == [selectors |-> <<>>, patch |-> [family |-> family, path |-> path]]
Segment(selectors, patch) == [selectors |-> selectors, patch |-> patch]
Styles == <<Segment(<<On("id", "a2"), On("tag", "li")>>, [display |-> "block"]),
            Segment(<<On("class", "seven")>>, [family |-> <<7>>]),
            Segment(<<On("tag", "body") \o On("class", "note")>>, [display |-> "none"]),
            Segment(<<On("tag", "p")>>, [family |-> <<8>>, after |-> TRUE]),
            Segment(<<On("class", "seven")>>, [after |-> FALSE])>>
Sheet == Styles \o <<Face(<<7>>, <<5>>), Face(<<9>>, <<6>>), Segment(<<>>, [family |-> <<8>>])>>
OneFile == Styles \o <<Face(<<7>>, <<5>>), Face(<<8>>, <<5>>)>>
Inner == [Element("style", "", <<>>) EXCEPT !.sheet = <<Segment(<<On("tag", "p")>>, [before |-> TRUE])>>]

Epub(spine, sheet, forced, format, followed) ==
    [kind |-> "epub", spine |-> spine, resources |-> Files, toc |-> Toc, sheet |-> sheet, forced |-> forced,
     title |-> <<66>>, format |-> format, followed |-> followed, pictures |-> <<>>]
Body(items) == Element("body", "", items)
Second == Body(<<Inner, Element("p", "a3", <<Text(<<"y">>)>>)>>)
First == Body(<<Element("p", "a1", <<Text(<<"x">>)>>)>>)
Family(family) == [Element("li", "", <<Text(<<"x">>)>>) EXCEPT !.style = [family |-> family]]

MCSources ==
    {Epub(<<Body(<<a, b>>), Second>>, Sheet, <<>>, Gray1, FALSE) : a \in Items("a1"), b \in Items("a2")}
    \union {Epub(<<Body(<<Family(<<7>>), Family(<<8>>)>>)>>, sheet, forced, Gray2, FALSE) :
                sheet \in {Sheet, OneFile}, forced \in {<<>>, <<76>>}}
    \union {Epub(<<First>>, Sheet, <<>>, Gray1, TRUE)}
    \union {[kind |-> "images", pictures |-> pictures, format |-> format, followed |-> TRUE] :
                pictures \in {<<>>, <<1>>, <<2, 3>>}, format \in {Gray1, Gray2}}

-----------------------------------------------------------------------------
(***************************************************************************)
(* The damaged forms of a file: one stored field takes another value.      *)
(***************************************************************************)
HeaderDamage(f) ==
    {[f EXCEPT !.header = h] :
        h \in {[f.header EXCEPT !.version = 0], [f.header EXCEPT !.spare = 1]}
              \union {[f.header EXCEPT !.length = n] : n \in {0, f.size - 1, f.size + 1}}
              \union {[f.header EXCEPT !.count = @ - 1], [f.header EXCEPT !.tableLength = @ - 1],
                      [f.header EXCEPT !.dataOffset = @ + 1], [f.header EXCEPT !.dataLength = @ + 1]}}

EntryDamage(entry) ==
    {[entry EXCEPT !.id = 51], [entry EXCEPT !.flags = 1], [entry EXCEPT !.size = 0], [entry EXCEPT !.spare = 1],
     [entry EXCEPT !.length = @ + 1], [entry EXCEPT !.length = Sub(@, 1)], [entry EXCEPT !.count = @ + 1],
     [entry EXCEPT !.count = Sub(@, 1)], [entry EXCEPT !.crc = Zero], [entry EXCEPT !.crc = @ \o @]}
TableDamage(f) ==
    UNION {{[f EXCEPT !.table[n] = e] : e \in EntryDamage(f.table[n])} : n \in DOMAIN f.table}

PlaneDamage(plane) ==
    {[plane EXCEPT !.offset = @ + 1], [plane EXCEPT !.offset = @ + 4], [plane EXCEPT !.offset = 0],
     [plane EXCEPT !.length = @ - 1], [plane EXCEPT !.length = @ + 9], [plane EXCEPT !.code = 0],
     [plane EXCEPT !.code = 7]}
PageDamage(page) ==
    {[page EXCEPT !.number = @ + 1], [page EXCEPT !.kind = 3], [page EXCEPT !.format = 3 - @],
     [page EXCEPT !.method = 0], [page EXCEPT !.flags = 0], [page EXCEPT !.flags = 2], [page EXCEPT !.crc = Zero],
     [page EXCEPT !.crc = @ \o @], [page EXCEPT !.width = @ + 1], [page EXCEPT !.start = 0],
     [page EXCEPT !.end = 2000000], [page EXCEPT !.spare = 1],
     [page EXCEPT !.planes = [slot \in DOMAIN @ \ {2} |-> @[slot]]]}
    \union UNION {{[page EXCEPT !.planes[slot] = plane] : plane \in PlaneDamage(page.planes[slot])} :
                    slot \in DOMAIN page.planes}
ChunkDamage(chunk) ==
    {[chunk EXCEPT !.page = @ + 1], [chunk EXCEPT !.slot = 3], [chunk EXCEPT !.index = 32],
     [chunk EXCEPT !.offset = @ + 9], [chunk EXCEPT !.length = 0], [chunk EXCEPT !.rows = @ + 1]}
TransitionDamage(t) ==
    {[t EXCEPT !.to = 9], [t EXCEPT !.spare = 1], [t EXCEPT !.mask = {}], [t EXCEPT !.mask = @ \union {1}], [t EXCEPT !.count = @ + 1]}
NavDamage(nav) ==
    {[nav EXCEPT !.page = 9], [nav EXCEPT !.page = 0], [nav EXCEPT !.parent = 8], [nav EXCEPT !.title.len = 99]}
ChapterDamage(chapter) == {[chapter EXCEPT !.nav = 9], [chapter EXCEPT !.page = 0], [chapter EXCEPT !.level = 7]}

Bodied(f, id, Change(_)) ==
    UNION {{[f EXCEPT !.body[id][n] = value] : value \in Change(f.body[id][n])} : n \in DOMAIN f.body[id]}
Other(byte) == {byte + 1, Sub(byte, 1)}
Voided(rendition) == {[rendition EXCEPT !.zero = TRUE]}

MCDamaged(f) ==
    HeaderDamage(f) \union TableDamage(f) \union {[f EXCEPT !.size = @ - 1]}
    \union Bodied(f, PageIndex, PageDamage) \union Bodied(f, ChunkIndex, ChunkDamage)
    \union Bodied(f, TransitionIndex, TransitionDamage) \union Bodied(f, NavIndex, NavDamage)
    \union Bodied(f, ChapterIndex, ChapterDamage) \union Bodied(f, PageData, Other)
    \union Bodied(f, Strings, Other) \union Bodied(f, Display, Other) \union Bodied(f, Requirements, Other)
    \union Bodied(f, Rendition, Voided)
=============================================================================
