------------------------------ MODULE BookFile ------------------------------
(***************************************************************************)
(* The book file as the writer assembles it (crates/binbook-encode).       *)
(*                                                                         *)
(* A section's body is a sequence of bytes or of records; its place in the *)
(* file is kept by the section table.  A CRC is the content it was taken   *)
(* of, <<>> being the CRC of nothing, 0.                                   *)
(***************************************************************************)
EXTENDS BookLayout

CONSTANT DataAlignment   \* PAGE_DATA_ALIGNMENT

Zero == <<>>             \* the CRC of no bytes
HeaderSize == 256
EntrySize == 40
SectionIds == <<1, 10, 11, 12, 20, 21, 22, 30, 31, 32, 33, 34, 35, 40, 41, 43, 44, 45, 50>>
Strings == 1
Display == 10
Requirements == 12
Source == 20
Metadata == 21
Rendition == 22
Fonts == 35
PageIndex == 40
NavIndex == 41
ChapterIndex == 43
ChunkIndex == 44
TransitionIndex == 45
PageData == 50
RecordSize == (Fonts :> 80) @@ (PageIndex :> 128) @@ (NavIndex :> 48) @@ (ChapterIndex :> 32)
              @@ (ChunkIndex :> 24) @@ (TransitionIndex :> 24)
SizeOf(id) == IF id \in DOMAIN RecordSize THEN RecordSize[id] ELSE 0

AlignUp(n, alignment) == n + ((-n) % alignment)
\* mutant: planes follow each other without a gap
PaddedNot(bytes) == bytes
Padded(bytes) == bytes \o [i \in 1 .. AlignUp(Len(bytes), 4) - Len(bytes) |-> 0]
SumOf(s) == FoldLeft(LAMBDA n, m : n + m, 0, s)

-----------------------------------------------------------------------------
(***************************************************************************)
(* The writer.  A book is its pages, contents, fonts and identity.         *)
(***************************************************************************)
AddString(strings, value) ==
    IF value = <<>> \/ value \in DOMAIN strings.refs THEN strings
    ELSE [bytes |-> strings.bytes \o value,
          refs |-> (value :> [at |-> Len(strings.bytes), len |-> Len(value)]) @@ strings.refs]
RefOf(strings, value) == IF value = <<>> THEN [at |-> 0, len |-> 0] ELSE strings.refs[value]

SortedFonts(fonts) == SetToSortSeq(fonts, LAMBDA a, b : LexLess(a.path, b.path))
StringTable(book) ==
    LET fonts == SortedFonts(book.fonts)
    IN  FoldLeft(AddString, [bytes |-> <<>>, refs |-> <<>>],
            FlattenSeq([i \in DOMAIN fonts |-> <<fonts[i].family, fonts[i].path>>])
            \o FlattenSeq([i \in DOMAIN book.nav |-> <<book.nav[i].title, book.nav[i].href>>])
            \o <<book.title>>)

PlaneBytes(plane) == FlattenSeq([i \in DOMAIN plane.chunks |-> plane.chunks[i].bytes])
AddPlane(data, plane) == Padded(data) \o PlaneBytes(plane)
DataBefore(pages, p, k) ==
    FoldLeft(AddPlane, <<>>,
             FlattenSeq([i \in 1 .. p - 1 |-> pages[i].planes]) \o SubSeq(pages[p].planes, 1, k - 1))
AllData(pages) == FoldLeft(AddPlane, <<>>, FlattenSeq([p \in DOMAIN pages |-> pages[p].planes]))
PlaneStart(pages, p, k) == Len(Padded(DataBefore(pages, p, k)))

\* The stored records.  The bitmap of a page record is the domain of its planes.
PageIndexRecord(number, page, crc, progress, planes) ==
    [number |-> number, kind |-> page.kind, format |-> page.format, method |-> page.planes[1].code,
     flags |-> 1, crc |-> crc, width |-> page.width, height |-> page.height,
     start |-> progress[1], end |-> progress[2], planes |-> planes, spare |-> 0]
PageChunkIndexRecord(page, slot, index, chunk, offset) ==
    [page |-> page, slot |-> slot, index |-> index, row |-> chunk.start, rows |-> chunk.rows,
     offset |-> offset, length |-> Len(chunk.bytes), size |-> chunk.size, spare |-> 0]
PageTransitionIndexRecord(from, to, mask) ==
    [from |-> from, to |-> to, mask |-> mask, spare |-> 0,
     first |-> IF mask = {} THEN 0 ELSE Min(mask),
     count |-> IF mask = {} THEN 0 ELSE Max(mask) - Min(mask) + 1]
NavIndexRecord(number, entry, title, href) ==
    [number |-> number, type |-> entry.type, level |-> entry.level, title |-> title, href |-> href,
     page |-> entry.page, parent |-> entry.parent, child |-> entry.child, sibling |-> entry.sibling,
     flags |-> 0]
ChapterIndexRecord(number, entry) ==
    [number |-> number, nav |-> entry.number, title |-> entry.title, page |-> entry.page,
     level |-> entry.level, type |-> entry.type]

PageRecord(pages, p) ==
    LET planes == pages[p].planes
        At(slot) == CHOOSE k \in DOMAIN planes : planes[k].slot = slot
        Entry(k) == [code |-> planes[k].code, offset |-> PlaneStart(pages, p, k), length |-> Len(PlaneBytes(planes[k]))]
        Progress(n) == (n * 1000000) \div Len(pages)
    IN  PageIndexRecord(p - 1, pages[p], FlattenSeq([k \in DOMAIN planes |-> PlaneBytes(planes[k])]),
                        <<Progress(p - 1), Progress(p)>>,
                        [slot \in {planes[k].slot : k \in DOMAIN planes} |-> Entry(At(slot))])

ChunkRecords(pages) ==
    FlattenSeq([p \in DOMAIN pages |-> FlattenSeq([k \in DOMAIN pages[p].planes |->
        LET plane == pages[p].planes[k]
            Preceding(i) == SumOf([j \in 1 .. i - 1 |-> Len(plane.chunks[j].bytes)])
        IN  [i \in DOMAIN plane.chunks |->
                PageChunkIndexRecord(p - 1, plane.slot, i - 1, plane.chunks[i],
                                     PlaneStart(pages, p, k) + Preceding(i))]])])

\* The base plane's chunks that differ between two pages.
BaseChunks(page) ==
    FlattenSeq([k \in DOMAIN page.planes |-> IF page.planes[k].slot = 2 THEN page.planes[k].chunks ELSE <<>>])
ChangedChunks(from, to) ==
    {i \in 0 .. LeastOf(32, LeastOf(Len(BaseChunks(from)), Len(BaseChunks(to)))) - 1 :
        BaseChunks(from)[i + 1].bytes # BaseChunks(to)[i + 1].bytes}
TransitionRecord(pages, from, to) ==
    PageTransitionIndexRecord(from, to, ChangedChunks(pages[from + 1], pages[to + 1]))
Transitions(pages) ==
    FlattenSeq([p \in 1 .. Len(pages) - 1 |->
        <<TransitionRecord(pages, p - 1, p), TransitionRecord(pages, p, p - 1)>>])

NavRecords(book, strings) ==
    [i \in DOMAIN book.nav |->
        NavIndexRecord(i - 1, book.nav[i], RefOf(strings, book.nav[i].title), RefOf(strings, book.nav[i].href))]
ChapterRecords(nav) ==
    LET chapters == SelectSeq(nav, LAMBDA entry : entry.type \in {3, 4})
    IN  [i \in DOMAIN chapters |-> ChapterIndexRecord(i - 1, chapters[i])]
FontRecords(book, strings) ==
    LET fonts == SortedFonts(book.fonts)
    IN  [i \in DOMAIN fonts |->
            [number |-> i - 1, family |-> RefOf(strings, fonts[i].family),
             path |-> RefOf(strings, fonts[i].path), face |-> 0, spare |-> 0]]

\* What the writer refuses.
PlanesOk(page) ==
    /\ page.planes # <<>>
    /\ \A k \in DOMAIN page.planes :
        /\ page.planes[k].slot < 4
        /\ \A j \in 1 .. k - 1 : page.planes[j].slot # page.planes[k].slot
        /\ page.planes[k].chunks # <<>>
        /\ \A i \in DOMAIN page.planes[k].chunks : page.planes[k].chunks[i].bytes # <<>>
NavOk(book) ==
    \A i \in DOMAIN book.nav :
        /\ book.nav[i].page < Len(book.pages)
        /\ {book.nav[i].parent, book.nav[i].child, book.nav[i].sibling} \subseteq None .. Len(book.nav) - 1
Writable(book) ==
    /\ book.pages # <<>> /\ NavOk(book)
    /\ \A p \in DOMAIN book.pages : PlanesOk(book.pages[p])
    /\ \A font \in book.fonts : font.path # <<>> /\ font.family # <<>>

(***************************************************************************)
(* The display, the policies and the identity of the book.  A hash is what *)
(* it was taken of.                                                        *)
(***************************************************************************)
\* The first number stands for the fields of the display that a reader checks.
DisplayOf(book) == <<1, LogicalWidth, LogicalHeight, book.format>>
PageLayout == <<LogicalWidth, LogicalHeight>>
ImagePolicy(book) == <<book.format>>

LargestOf(numbers) == Max({0} \union numbers)
\* The features a reader must have that none has, and the sizes it must hold.
RequirementsOf(pages) ==
    LET planes == FlattenSeq([p \in DOMAIN pages |-> pages[p].planes])
        Sizes(plane) == SumOf([i \in DOMAIN plane.chunks |-> plane.chunks[i].size])
    IN  <<0, LargestOf({page.width : page \in Range(pages)}), LargestOf({page.height : page \in Range(pages)}),
          LargestOf({Sizes(plane) : plane \in Range(planes)}),
          LargestOf({Len(PlaneBytes(plane)) : plane \in Range(planes)})>>

SourceIdentity(book) == <<book.source>>
BookMetadata(book, strings) == <<RefOf(strings, book.title)>>
FontPolicySection(book, fonts) ==
    IF book.forced = <<>> THEN [mode |-> "preserve", digest |-> fonts]
    ELSE [mode |-> "force", digest |-> book.forced]

\* The rendition is named by the source and the policies it was made with.
RenditionOf(book, fonts) ==
    [zero |-> FALSE, hash |-> <<book.source, DisplayOf(book), PageLayout, FontPolicySection(book, fonts),
                                ImagePolicy(book)>>]

Policies(book, strings, fonts) ==
    (Display :> DisplayOf(book)) @@ (11 :> PageLayout) @@ (Requirements :> RequirementsOf(book.pages))
    @@ (Source :> SourceIdentity(book)) @@ (Metadata :> BookMetadata(book, strings))
    @@ (Rendition :> <<RenditionOf(book, fonts)>>) @@ (30 :> <<FontPolicySection(book, fonts)>>)
    @@ (32 :> ImagePolicy(book)) @@ [constant \in 30 .. 34 |-> <<1>>]

Bodies(book) ==
    LET strings == StringTable(book)
        nav == NavRecords(book, strings)
        fonts == FontRecords(book, strings)
    IN  (Strings :> strings.bytes) @@ Policies(book, strings, fonts) @@ (Fonts :> fonts)
        @@ (PageIndex :> [p \in DOMAIN book.pages |-> PageRecord(book.pages, p)])
        @@ (NavIndex :> nav) @@ (ChapterIndex :> ChapterRecords(nav)) @@ (ChunkIndex :> ChunkRecords(book.pages))
        @@ (TransitionIndex :> Transitions(book.pages)) @@ (PageData :> AllData(book.pages))

BodyLength(bodies, id) == Len(bodies[id]) * (IF SizeOf(id) = 0 THEN 1 ELSE SizeOf(id))
Assemble(book) ==
    LET bodies == Bodies(book)
        start == HeaderSize + Len(SectionIds) * EntrySize
        Start(n) == start + SumOf([j \in 1 .. n - 1 |-> BodyLength(bodies, SectionIds[j])])
        data == AlignUp(Start(Len(SectionIds)), DataAlignment)
        length == BodyLength(bodies, PageData)
        Offset(n) == IF SectionIds[n] = PageData THEN data ELSE Start(n)
    IN  [size |-> data + length, body |-> bodies,
         header |-> [version |-> 1, length |-> data + length, tableOffset |-> HeaderSize,
                     tableLength |-> start - HeaderSize, count |-> Len(SectionIds),
                     dataOffset |-> data, dataLength |-> length, spare |-> 0],
         table |-> [n \in DOMAIN SectionIds |->
            [id |-> SectionIds[n], flags |-> 0, offset |-> Offset(n), length |-> BodyLength(bodies, SectionIds[n]),
             size |-> SizeOf(SectionIds[n]), spare |-> 0,
             count |-> IF SizeOf(SectionIds[n]) = 0 THEN 0 ELSE Len(bodies[SectionIds[n]]),
             crc |-> bodies[SectionIds[n]]]]]
=============================================================================
