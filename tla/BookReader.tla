----------------------------- MODULE BookReader -----------------------------
(***************************************************************************)
(* What a reader asks of a book file: opening it, the validator's issues,  *)
(* the device's open and page load, and the planes decoded again, by the   *)
(* host at once and by the device in reads of any size.                    *)
(*                                                                         *)
(* Source: crates/binbook-core, binbook-decompress, binbook-image,         *)
(* xteink-x4-display, and the device's owner_book.rs.                      *)
(***************************************************************************)
EXTENDS BookFile

-----------------------------------------------------------------------------
(***************************************************************************)
(* The header, the section table and the records.                          *)
(***************************************************************************)
HeaderOk(file) ==
    /\ file.header.version = 1 /\ file.header.length <= file.size
    /\ file.header.count # 0 /\ file.header.tableOffset >= HeaderSize
    /\ file.header.tableLength >= file.header.count * EntrySize

FileLength(file) == IF file.header.length = 0 THEN file.size ELSE file.header.length
Table(file) == SubSeq(file.table, 1, file.header.count)
Section(file, id) == SelectSeq(Table(file), LAMBDA e : e.id = id)[1]
CountOf(file, id) == Section(file, id).count
RecordAt(file, id, n) == file.body[id][n + 1]

SectionsOk(file) ==
    LET table == Table(file)
    IN  /\ \A i \in DOMAIN table :
            /\ table[i].offset + table[i].length <= FileLength(file)
            /\ table[i].size # 0 => table[i].size * table[i].count <= table[i].length
            /\ \A j \in 1 .. i - 1 : table[i].id = table[j].id => table[i].id \notin ToSet(SectionIds)
        /\ \A id \in ToSet(SectionIds) : \E i \in DOMAIN table : table[i].id = id
        /\ \A id \in DOMAIN RecordSize : Section(file, id).size = RecordSize[id]
        /\ LET data == Section(file, PageData)
           IN  /\ data.size = 0 /\ data.count = 0
               /\ data.offset = file.header.dataOffset /\ data.length = file.header.dataLength
        /\ CountOf(file, PageIndex) # 0

StringOk(file, ref) == ref.len # 0 => ref.at + ref.len <= Section(file, Strings).length
Formats == {Gray1, Gray2, 3}
Codes == 0 .. 2

PlaneCode(page, slot) == IF page.flags % 2 = 0 THEN page.method ELSE page.planes[slot].code
PageParses(file, n) ==
    LET page == RecordAt(file, PageIndex, n)
    IN  /\ page.number = n /\ page.method \in Codes /\ page.format \in Formats
        /\ DOMAIN page.planes \subseteq 0 .. 3
        /\ \A slot \in DOMAIN page.planes :
            /\ page.planes[slot].length # 0
            /\ page.planes[slot].offset + page.planes[slot].length <= file.header.dataLength
            /\ PlaneCode(page, slot) \in Codes
        /\ page.start <= page.end /\ page.end <= 1000000

ChunkParses(file, chunk) ==
    /\ chunk.page < CountOf(file, PageIndex) /\ chunk.index < 32 /\ chunk.slot < 4
    /\ chunk.length # 0 /\ chunk.offset + chunk.length <= file.header.dataLength /\ chunk.spare = 0

TransitionParses(file, t) ==
    /\ {t.from, t.to} \subseteq 0 .. CountOf(file, PageIndex) - 1
    /\ t.spare = 0
    /\ t.mask = {} => t.first = 0 /\ t.count = 0

NavParses(file, n) ==
    LET nav == RecordAt(file, NavIndex, n)
    IN  /\ nav.number = n /\ nav.page < CountOf(file, PageIndex)
        /\ StringOk(file, nav.title) /\ StringOk(file, nav.href)
ChapterParses(file, n) ==
    LET chapter == RecordAt(file, ChapterIndex, n)
    IN  /\ chapter.number = n /\ chapter.nav < CountOf(file, NavIndex)
        /\ chapter.page < CountOf(file, PageIndex) /\ chapter.type \in {3, 4}
        /\ StringOk(file, chapter.title)
FontParses(file, n) ==
    LET font == RecordAt(file, Fonts, n)
    IN  font.number = n /\ font.spare = 0 /\ StringOk(file, font.family) /\ StringOk(file, font.path)

ProfileOk(file) == file.body[Display][1] = 1
Opens(file) ==
    /\ HeaderOk(file) /\ SectionsOk(file) /\ ProfileOk(file)
    /\ StringOk(file, file.body[Metadata][1])
    /\ \A n \in 0 .. CountOf(file, NavIndex) - 1 : NavParses(file, n)
    /\ \A n \in 0 .. CountOf(file, ChapterIndex) - 1 : ChapterParses(file, n)

-----------------------------------------------------------------------------
(***************************************************************************)
(* The validator: the set of the issues it reports.                        *)
(***************************************************************************)
Say(condition, issue) == IF condition THEN {issue} ELSE {}

Preflight(file) ==
    LET table == Table(file)
    IN  Say(file.header.spare # 0, "ReservedBytes")
        \union Say(\E i \in 2 .. Len(table) : table[i].id <= table[i - 1].id, "Ordering")
        \union Say(\E i \in DOMAIN table : table[i].flags # 0 \/ table[i].spare # 0, "ReservedBytes")
InBounds(file) == file.header.length <= file.size /\ file.header.tableOffset + file.header.count * EntrySize <= file.size

\* The bytes a section's entry covers: those of its body if it has its length.
Covered(file, entry) == IF entry.length = BodyLength(file.body, entry.id) THEN file.body[entry.id] ELSE Zero
\* mutant: the records are left to their own checks
SectionIssuesOfPlain(file) ==
    Say(\E e \in ToSet(Table(file)) :
            e.size = 0 /\ e.id \in ToSet(SectionIds) /\ e.crc # Zero /\ Covered(file, e) # e.crc, "SectionCrc")
SectionIssues(file) ==
    Say(\E e \in ToSet(Table(file)) :
            e.id \in ToSet(SectionIds) /\ e.crc # Zero /\ Covered(file, e) # e.crc, "SectionCrc")
    \union Say(file.body[Requirements][1] # 0, "RequiredFeatures")

Expected(format) == CASE format = Gray1 -> {2} [] format = Gray2 -> 0 .. 2 [] OTHER -> 0 .. 3
Apart(a, b) == a.offset >= b.offset + b.length \/ b.offset >= a.offset + a.length
DirectoryOk(page) ==
    /\ DOMAIN page.planes = Expected(page.format) /\ 3 \notin DOMAIN page.planes
    /\ \A slot \in DOMAIN page.planes :
        /\ page.planes[slot].offset % 4 = 0
        /\ \A other \in DOMAIN page.planes \ {slot} : Apart(page.planes[slot], page.planes[other])

DataAt(file, offset, length) == SubSeq(file.body[PageData], offset + 1, offset + length)
PageCrc(file, page) ==
    FlattenSeq([k \in 1 .. 4 |-> IF k - 1 \notin DOMAIN page.planes THEN <<>>
                                 ELSE DataAt(file, page.planes[k - 1].offset, page.planes[k - 1].length)])

PageIssues(file, n) ==
    LET page == RecordAt(file, PageIndex, n)
        parsed == {m \in 0 .. n - 1 : PageParses(file, m)}
        progress == IF parsed = {} THEN 0 ELSE RecordAt(file, PageIndex, Max(parsed)).end
    IN  Say(page.spare # 0 \/ page.flags \notin {0, 1}, "ReservedBytes")
        \union IF ~PageParses(file, n) THEN {"Plane"}
               ELSE Say(page.start < progress \/ page.kind = 3, "Ordering")
                    \union Say(~DirectoryOk(page), "Plane")
                    \union Say(page.crc # Zero /\ PageCrc(file, page) # page.crc, "PageCrc")

Key(chunk) == <<chunk.page, chunk.slot, chunk.index>>
ChunkOk(file, n) ==
    LET chunk == RecordAt(file, ChunkIndex, n)
        page == RecordAt(file, PageIndex, chunk.page)
    IN  /\ n > 0 => LexLess(Key(RecordAt(file, ChunkIndex, n - 1)), Key(chunk))
        /\ ChunkParses(file, chunk) /\ PageParses(file, chunk.page)
        /\ chunk.slot \in DOMAIN page.planes
        /\ chunk.offset >= page.planes[chunk.slot].offset
        /\ chunk.offset + chunk.length <= page.planes[chunk.slot].offset + page.planes[chunk.slot].length
        /\ page.width = StoredWidth /\ page.height = StoredHeight /\ page.format = Gray2 =>
            /\ chunk.rows = ChunkRows /\ chunk.size = RowBytes * ChunkRows
            /\ chunk.index < StoredHeight \div ChunkRows

TransitionOk(file, n) ==
    LET t == RecordAt(file, TransitionIndex, n)
    IN  /\ TransitionParses(file, t)
        /\ t.mask # {} => t.first = Min(t.mask) /\ t.count = Max(t.mask) - Min(t.mask) + 1

LinksOk(file, n) ==
    LET nav == RecordAt(file, NavIndex, n)
    IN  {nav.parent, nav.child, nav.sibling} \subseteq None .. CountOf(file, NavIndex) - 1 /\ nav.flags = 0
ChapterOk(file, n) ==
    LET chapter == RecordAt(file, ChapterIndex, n)
        nav == RecordAt(file, NavIndex, chapter.nav)
    IN  chapter.nav < CountOf(file, NavIndex) =>
            <<chapter.title, chapter.page, chapter.level, chapter.type>> = <<nav.title, nav.page, nav.level, nav.type>>

PathAt(file, font) == SubSeq(file.body[Strings], font.path.at + 1, font.path.at + font.path.len)
FontIssues(file, n) ==
    LET font == RecordAt(file, Fonts, n)
        parsed == {m \in 0 .. n - 1 : FontParses(file, m)}
        prior == RecordAt(file, Fonts, Max(parsed))
    IN  IF ~FontParses(file, n) THEN {"FontResource"}
        ELSE Say(parsed # {} /\ ~LexLess(PathAt(file, prior), PathAt(file, font))
                 /\ ~(PathAt(file, prior) = PathAt(file, font) /\ prior.face < font.face), "Ordering")

Every(file, id, Ok(_, _)) == \A n \in 0 .. CountOf(file, id) - 1 : Ok(file, n)
RecordIssues(file) ==
    UNION {PageIssues(file, n) : n \in 0 .. CountOf(file, PageIndex) - 1}
    \union Say(~Every(file, ChunkIndex, ChunkOk), "Chunk")
    \union Say(~Every(file, TransitionIndex, TransitionOk), "Transition")
    \union Say(~Every(file, NavIndex, LinksOk), "Navigation")
    \union Say(~Every(file, ChapterIndex, ChapterOk), "Chapter")
    \union UNION {FontIssues(file, n) : n \in 0 .. CountOf(file, Fonts) - 1}

Issues(file) ==
    IF ~InBounds(file) THEN {"Bounds"}
    ELSE Preflight(file) \union (IF Opens(file) THEN SectionIssues(file) \union RecordIssues(file) ELSE {"Format"})

-----------------------------------------------------------------------------
(***************************************************************************)
(* The run-length code, decoded from input as it comes.                    *)
(***************************************************************************)
Idle == [mode |-> "idle", left |-> 0, value |-> 0]
Left(run, n) == IF run.left = n THEN Idle ELSE [run EXCEPT !.left = @ - n]
RunOf(control) ==
    IF control < MaxRun THEN [mode |-> "literal", left |-> control + 1, value |-> 0]
    ELSE [mode |-> "value", left |-> control - MaxRun + 1, value |-> 0]

RECURSIVE Unpack(_, _)
\* d holds the run, the unread input and the output so far.
Unpack(d, room) ==
    LET count == IF d.run.mode = "repeat" THEN LeastOf(d.run.left, room - Len(d.out))
                 ELSE LeastOf(d.run.left, LeastOf(room - Len(d.out), Len(d.input)))
    IN  IF Len(d.out) = room \/ (d.input = <<>> /\ d.run.mode # "repeat") THEN d
        ELSE CASE d.run.mode = "idle" ->
                    Unpack([d EXCEPT !.run = RunOf(Head(d.input)), !.input = Tail(@)], room)
               [] d.run.mode = "value" ->
                    Unpack([d EXCEPT !.run = [@ EXCEPT !.mode = "repeat", !.value = Head(d.input)],
                                     !.input = Tail(@)], room)
               [] d.run.mode = "literal" ->
                    Unpack([run |-> Left(d.run, count), input |-> SubSeq(d.input, count + 1, Len(d.input)),
                            out |-> d.out \o SubSeq(d.input, 1, count)], room)
               [] OTHER ->
                    Unpack([d EXCEPT !.run = Left(d.run, count),
                                     !.out = @ \o [i \in 1 .. count |-> d.run.value]], room)

DecodeExact(code, bytes, size) ==
    LET d == Unpack([run |-> Idle, input |-> bytes, out |-> <<>>], size)
    IN  CASE code = 0 -> IF Len(bytes) = size THEN bytes ELSE <<>>
          [] code = 1 -> IF Len(d.out) = size /\ d.run = Idle /\ d.input = <<>> THEN d.out ELSE <<>>
          [] OTHER -> <<>>

\* The host's decoded page: the level of every stored pixel, or <<>>.
HostPlane(file, page, slot) ==
    IF slot \notin DOMAIN page.planes THEN <<>>
    ELSE DecodeExact(PlaneCode(page, slot), DataAt(file, page.planes[slot].offset, page.planes[slot].length),
                     page.width * page.height)
PixelAt(plane, page, k) == plane[((k - 1) \div page.width) * page.width + page.width - ((k - 1) % page.width)]
LevelOf(msb, lsb, base) == IF base = 1 THEN 3 ELSE IF msb = 0 THEN 0 ELSE IF lsb = 1 THEN 1 ELSE 2
DecodedPage(file, n) ==
    LET page == RecordAt(file, PageIndex, n)
        plane == [slot \in 0 .. 2 |-> HostPlane(file, page, slot)]
        needed == IF page.format = Gray1 THEN {2} ELSE 0 .. 2
    IN  IF ~PageParses(file, n) \/ page.format \notin {Gray1, Gray2} \/ \E slot \in needed : plane[slot] = <<>>
        THEN <<>>
        ELSE [k \in 1 .. page.width * page.height |->
                IF page.format = Gray1 THEN PixelAt(plane[2], page, k)
                ELSE LevelOf(PixelAt(plane[0], page, k), PixelAt(plane[1], page, k), PixelAt(plane[2], page, k))]

-----------------------------------------------------------------------------
(***************************************************************************)
(* The device: it opens a book and a page without the validator.           *)
(***************************************************************************)
RenditionParses(file) ==
    Section(file, Rendition).length = BodyLength(file.body, Rendition) /\ ~file.body[Rendition][1].zero
DeviceOpens(file) == HeaderOk(file) /\ SectionsOk(file) /\ ProfileOk(file) /\ RenditionParses(file)
InPageData(file, offset, length) == offset + length <= file.header.dataLength
DeviceLoads(file, n) ==
    LET page == RecordAt(file, PageIndex, n)
    IN  /\ n < CountOf(file, PageIndex) /\ PageParses(file, n)
        /\ page.width = StoredWidth /\ page.height = StoredHeight
        /\ page.format \in {Gray1, Gray2} /\ DOMAIN page.planes = Expected(page.format)

\* StreamingPlaneDecoder
Stream(page, slot) ==
    [plane |-> [page.planes[slot] EXCEPT !.code = PlaneCode(page, slot)], source |-> 0,
     run |-> Idle, input |-> <<>>, row |-> <<>>, failed |-> FALSE]
CanRead(s) == s.input = <<>> /\ s.source < s.plane.length
Accept(s, bytes) == [s EXCEPT !.source = @ + Len(bytes), !.input = bytes]
\* mutant: a run whose value is in the next read is lost
DecodeRowLosing(s) ==
    LET d == Unpack([run |-> s.run, input |-> s.input, out |-> s.row], RowBytes)
    IN  [s EXCEPT !.run = IF d.run.mode = "value" THEN Idle ELSE d.run, !.input = d.input, !.row = d.out]
DecodeRow(s) ==
    LET d == Unpack([run |-> s.run, input |-> s.input, out |-> s.row], RowBytes)
        count == LeastOf(Len(s.input), RowBytes - Len(s.row))
    IN  CASE s.plane.code = 1 -> [s EXCEPT !.run = d.run, !.input = d.input, !.row = d.out]
          [] s.plane.code = 0 -> [s EXCEPT !.input = SubSeq(@, count + 1, Len(@)), !.row = @ \o SubSeq(s.input, 1, count)]
          [] OTHER -> [s EXCEPT !.failed = TRUE]
Finishes(s) == s.row = <<>> /\ s.source = s.plane.length /\ s.input = <<>> /\ s.run = Idle
=============================================================================
