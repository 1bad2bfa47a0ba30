------------------------------- MODULE LibVhd -------------------------------
(***************************************************************************)
(* The on-disk format of a VHD and the operations of libvhd.c on it, one   *)
(* cell per 512-byte sector.  A file is a sequence of cells, sector n of   *)
(* the file being file[n + 1].  A checksummed structure is one record: a   *)
(* sector holding anything else in its place fails validation.  A context  *)
(* (vhd_context_t) is the record of the structures read into memory.       *)
(***************************************************************************)
EXTENDS Integers, Sequences, FiniteSets, FiniteSetsExt, SequencesExt

CONSTANTS
    SPB,        \* sectors of a data block (4096 for 2 MB blocks)
    EPS,        \* BAT entries that fit a sector (128)
    MapByte,    \* batmap bits of a byte (8)
    MapSec,     \* batmap bytes of a sector (512)
    PageSecs    \* sectors of a page (8)

ASSUME VhdConstants ==
    /\ SPB \in Nat \ {0} /\ EPS \in Nat \ {0} /\ MapByte \in Nat \ {0}
    /\ MapSec \in Nat \ {0} /\ PageSecs \in Nat \ {0}

BmSecs == 1                 \* sectors of a block's bitmap, secs_round_up_no_zero(spb >> 3)
HdrSecs == 2                \* sizeof(vhd_header_t) is 1024
Unused == -1                \* DD_BLK_UNUSED, 0xFFFFFFFF
Err == [k |-> "err"]        \* a non-zero return
Zero == [k |-> "zero"]      \* a sector of zeros, or one never written

CeilDiv(a, b) == (a + b - 1) \div b
MaxOf(a, b) == IF a > b THEN a ELSE b

\* secs_round_up_no_zero: sectors of n units, per of which fit one; never zero
SecsRoundUpNoZero(n, per) == MaxOf(1, CeilDiv(n, per))

-----------------------------------------------------------------------------
\* Sectors of the metadata structures

\* vhd_footer_t: the cookie says whether the image may be opened
Footer(enabled, type, curr) ==
    [k |-> "footer", enabled |-> enabled, type |-> type, curr |-> curr, hidden |-> FALSE]
\* vhd_header_t: max_bat_size, table_offset, the first sector of each parent
\* locator, and the name and uuid of the parent (the null uuid for a raw one)
Header(max, tbl, loc, prt) ==
    [k |-> "header", max |-> max, tbl |-> tbl, loc |-> loc, prt |-> prt]
Parent(name, raw) == [name |-> name, raw |-> raw]
NoParent == Parent("none", TRUE)
HeaderTail == [k |-> "header2"]
BatSector(entries) == [k |-> "bat", e |-> entries]
BatmapHeader(off, size, sum, key) ==
    [k |-> "batmap_hdr", off |-> off, size |-> size, sum |-> sum, key |-> key]
BatmapSector(bits) == [k |-> "batmap", s |-> bits]
Locator(parent) == [k |-> "locator", p |-> parent]
Bitmap(bits) == [k |-> "bitmap", s |-> bits]
Data(v) == [k |-> "data", v |-> v]

\* Pieces of a file
Sec(f, off) == IF off < Len(f) THEN f[off + 1] ELSE Zero
Blanks(n) == [i \in 1..n |-> Zero]
Padded(f, n) == f \o Blanks(IF n > Len(f) THEN n - Len(f) ELSE 0)
Secs(f, off, n) == SubSeq(Padded(f, off + n), off + 1, off + n)
WriteAt(f, off, cells) ==
    SubSeq(Padded(f, off), 1, off) \o cells \o SubSeq(f, off + Len(cells) + 1, Len(f))
Truncate(f, n) == SubSeq(Padded(f, n), 1, n)

-----------------------------------------------------------------------------
\* Sizes and offsets

BlocksOf(curr) == CeilDiv(curr, SPB)
BatSecs(entries) == SecsRoundUpNoZero(entries, EPS)
\* batmap sectors that hold entries bits, as vhd_create_batmap sizes the map
MapSecsFor(entries) == SecsRoundUpNoZero(CeilDiv(entries, MapByte), MapSec)
\* batmap sectors that the reader and the writer transfer for a virtual size:
\* curr_size >> (VHD_BLOCK_SHIFT + 3) rounds the number of bytes down
MapSecsOf(curr) == SecsRoundUpNoZero((curr \div SPB) \div MapByte, MapSec)
MapBits == MapByte * MapSec

BatmapHeaderOffset(h) == h.tbl + BatSecs(h.max)

EndOfHeaders(ctx) ==
    Max({1 + HdrSecs, ctx.header.tbl + BatSecs(ctx.header.max)}
        \cup (IF ctx.hasmap
                THEN {BatmapHeaderOffset(ctx.header) + 1, ctx.bmh.off + ctx.bmh.size}
                ELSE {})
        \cup {ctx.header.loc[i] + 1 : i \in DOMAIN ctx.header.loc})

BlockEnds(ctx) == {ctx.bat[b] + SPB + BmSecs :
                        b \in {x \in DOMAIN ctx.bat : ctx.bat[x] # Unused}}
EndOfData(ctx, f) ==
    IF ctx.footer.type = "fixed" THEN Len(f) - 1
    ELSE Max({EndOfHeaders(ctx)} \cup BlockEnds(ctx))

\* the region of a block whose data must start on a page boundary
AlignBlock(off) == off + ((PageSecs - ((off + BmSecs) % PageSecs)) % PageSecs)

-----------------------------------------------------------------------------
\* Reading

\* vhd_read_footer: the one at the end of the file, else the copy at sector 0
ReadFooter(f, backup) ==
    LET last == Sec(f, Len(f) - 1) IN
    IF ~backup /\ last.k = "footer" THEN last
    ELSE IF Sec(f, 0).k = "footer" THEN Sec(f, 0) ELSE Err

ReadHeader(f) ==
    IF Sec(f, 1).k = "header" /\ Sec(f, 2) = HeaderTail THEN Sec(f, 1) ELSE Err

\* only the entries in use for curr_size are read; a sector that is not a
\* piece of a BAT decodes to entries that point nowhere useful
BatEntry(c, i) == IF c.k = "bat" THEN c.e[i] ELSE 0
ReadBat(f, h, curr) ==
    IF h.max < BlocksOf(curr) THEN Err
    ELSE [b \in 0..(BlocksOf(curr) - 1) |->
            BatEntry(Sec(f, h.tbl + b \div EPS), 1 + (b % EPS))]

\* what is not a piece of a batmap decodes to bits that fail the checksum
MapSecBits(c, i) == IF c.k = "batmap" THEN {MapBits * i + x : x \in c.s}
                    ELSE IF c = Zero THEN {} ELSE {Unused}
ReadMapBits(f, off, n) == UNION {MapSecBits(Sec(f, off + i), i) : i \in 0..(n - 1)}
CheckedMap(bmh, map) ==
    IF map # bmh.sum THEN Err
    ELSE [off |-> bmh.off, size |-> bmh.size, map |-> map, key |-> bmh.key]
MapUnder(f, bmh, curr) ==
    IF bmh.k # "batmap_hdr" THEN Err
    ELSE CheckedMap(bmh, ReadMapBits(f, bmh.off, MapSecsOf(curr)))
ReadBatmap(f, h, curr) == MapUnder(f, Sec(f, BatmapHeaderOffset(h)), curr)

NoMap == [off |-> 0, size |-> 0, map |-> {}, key |-> FALSE]

(***************************************************************************)
(* vhd_open followed by the vhd_get_bat and vhd_get_batmap every tool      *)
(* begins with, in its three steps: the footer, the header, the tables.    *)
(* hasmap is vhd_has_batmap, decided by the creator version, which no      *)
(* operation changes.                                                      *)
(***************************************************************************)
OpenTables(ft, h, bat, bmh, hasmap) ==
    IF bat = Err \/ bmh = Err THEN Err
    ELSE [footer |-> ft, header |-> h, bat |-> bat, bmh |-> bmh, hasmap |-> hasmap]
OpenHeader(f, ft, h, hasmap) ==
    IF h = Err THEN Err
    ELSE OpenTables(ft, h, ReadBat(f, h, ft.curr),
                    IF hasmap THEN ReadBatmap(f, h, ft.curr) ELSE NoMap, hasmap)
OpenFooter(f, ft, hasmap, ignore_disabled) ==
    IF ft = Err THEN Err
    ELSE IF ~ft.enabled /\ ~ignore_disabled THEN Err
    ELSE IF ft.type = "fixed"
    THEN [footer |-> ft, header |-> Header(0, 0, <<>>, NoParent), bat |-> <<>>, bmh |-> NoMap,
          hasmap |-> FALSE]
    ELSE OpenHeader(f, ft, ReadHeader(f), hasmap)
VhdOpen(f, hasmap, ignore_disabled, backup) ==
    OpenFooter(f, ReadFooter(f, backup), hasmap, ignore_disabled)

ReadBitmap(f, off) == IF Sec(f, off).k = "bitmap" THEN Sec(f, off).s
                      ELSE IF Sec(f, off) = Zero THEN {} ELSE 0..(SPB - 1)

\* vhd_read_at, from one of the block's sectors on: the last sector of the file
\* is taken for the footer, and a block that reaches it is cut short and filled
\* with zeros.  The length then is that from the start of the block, whatever
\* sector it starts from: it takes the footer in, or runs past the end and fails.
SecsLeft(f, off) == Len(f) - 1 - (off + BmSecs)
ReadAtFails(f, off, from) ==
    SecsLeft(f, off) < 0 \/ (from > 1 /\ SecsLeft(f, off) \in 1..(SPB - 1))
ReadAt(f, off, from) ==
    [i \in 1..SPB |-> IF i <= from + SecsLeft(f, off) THEN Sec(f, off + BmSecs + i - 1) ELSE Zero]
ReadBlock(f, off) == ReadAt(f, off, 0)

(***************************************************************************)
(* What vhd_io_read returns for every sector of the virtual disk: a sector *)
(* whose bit is set in the block's bitmap comes from the block, any other  *)
(* from the parent chain, parent[s] being what that holds.                 *)
(***************************************************************************)
HasSector(f, ctx, s) ==
    /\ ctx.bat[s \div SPB] # Unused
    /\ s % SPB \in ReadBitmap(f, ctx.bat[s \div SPB])
VhdView(f, ctx, parent) ==
    [s \in 0..(ctx.footer.curr - 1) |->
        IF ctx.footer.type = "fixed" THEN Sec(f, s)
        ELSE IF HasSector(f, ctx, s)
        THEN IF ReadAtFails(f, ctx.bat[s \div SPB], 0) THEN Err
             ELSE ReadBlock(f, ctx.bat[s \div SPB])[1 + (s % SPB)]
        ELSE IF s \in DOMAIN parent THEN parent[s] ELSE Zero]

-----------------------------------------------------------------------------
\* Writing: each operation is the sequence of its writes, in their order

Put(off, cells) == [t |-> "put", off |-> off, cells |-> cells, skip |-> 0, last |-> <<>>]
\* a write whose error is lost: the caller goes on after the next n - 1 writes
PutSoft(off, cells, n) == [Put(off, cells) EXCEPT !.skip = n]
\* a write after whose error the caller still does those of ws, and gives up
PutElse(off, cells, ws) == [Put(off, cells) EXCEPT !.last = ws]
Ftruncate(n) == [t |-> "trunc", n |-> n, skip |-> 0, last |-> <<>>]

\* vhd_write_footer: at the end of the data of a file, at the end of a
\* device; then the copy at sector 0
WriteFooter(ctx, f, isblock) ==
    LET off == IF isblock THEN Len(f) - 1 ELSE EndOfData(ctx, f) IN
    <<Put(off, <<ctx.footer>>)>>
    \o (IF isblock THEN <<>> ELSE <<Ftruncate(off + 1)>>)
    \o (IF ctx.footer.type = "fixed" THEN <<>> ELSE <<Put(0, <<ctx.footer>>)>>)

WriteHeader(h) == <<Put(1, <<h, HeaderTail>>)>>

\* vhd_write_bat writes whole sectors; past the last entry the buffer holds pad
BatCells(bat, pad) ==
    LET n == Cardinality(DOMAIN bat) IN
    [i \in 1..BatSecs(n) |->
        BatSector([j \in 1..EPS |-> LET b == (i - 1) * EPS + j - 1 IN
                                    IF b < n THEN bat[b] ELSE pad])]
WriteBat(h, bat) == <<Put(h.tbl, BatCells(bat, Unused))>>

\* vhd_write_batmap: the map, then its header with the new checksum; it
\* returns 0 whether or not a write of it failed
MapCells(map, n) ==
    [i \in 1..n |-> BatmapSector({x \in 0..(MapBits - 1) : MapBits * (i - 1) + x \in map})]
WriteBatmap(h, bmh, curr) ==
    LET n == MapSecsOf(curr) IN
    <<PutSoft(bmh.off, MapCells(bmh.map, n), 2),
      PutSoft(BatmapHeaderOffset(h),
              <<BatmapHeader(bmh.off, bmh.size, {x \in bmh.map : x < n * MapBits}, bmh.key)>>, 1)>>

\* vhd_write_bitmap and vhd_write_block
WriteBitmap(off, bits) == <<Put(off, <<Bitmap(bits)>>)>>
WriteBlock(off, cells) == <<Put(off + BmSecs, cells)>>

WriteZeros(off, n) == <<Put(off, Blanks(n))>>

ApplyWrite(f, w) == IF w.t = "put" THEN WriteAt(f, w.off, w.cells) ELSE Truncate(f, w.n)
ApplyAll(f, ws) == FoldLeft(ApplyWrite, f, ws)

\* __vhd_io_allocate_block: the gap, the bitmap and, unless the image was
\* opened for sparse writes, the block are zeroed only when the caller is not
\* about to write the whole block
PlaceBlock(ctx, b, end, new, zero, sparse) ==
    [ctx |-> [ctx EXCEPT !.bat[b] = new],
     ws |-> (IF zero THEN WriteZeros(end, new - end + BmSecs + (IF sparse THEN 0 ELSE SPB))
             ELSE <<>>)
            \o WriteBat(ctx.header, [ctx.bat EXCEPT ![b] = new])]
AllocateAt(ctx, b, end, zero, sparse) == PlaceBlock(ctx, b, end, AlignBlock(end), zero, sparse)
AllocateBlock(ctx, f, b, zero, sparse) == AllocateAt(ctx, b, EndOfData(ctx, f), zero, sparse)

(***************************************************************************)
(* One turn of __vhd_io_dynamic_write: the cells go to sectors from.. of   *)
(* block b; then, unless the batmap says that the block is full, its       *)
(* bitmap, and when that made it full the batmap; and the footer, which is *)
(* written even after the bitmap could not be.                             *)
(***************************************************************************)
\* the bitmap with the new bits, the batmap if the block is now full, the footer
WriteBits(c, ws, off, bits, footer, full) ==
    [ctx |-> c,
     ws |-> ws \o <<PutElse(off, <<Bitmap(bits)>>, footer)>>
            \o (IF full THEN WriteBatmap(c.header, c.bmh, c.footer.curr) ELSE <<>>)
            \o footer]
MarkFull(ctx, b, full) == IF full THEN [ctx EXCEPT !.bmh.map = @ \cup {b}] ELSE ctx
RecordBits(ctx, f1, ws, b, bits, full, isblock) ==
    IF ctx.hasmap /\ b \in ctx.bmh.map
    THEN [ctx |-> ctx, ws |-> ws \o WriteFooter(ctx, f1, isblock)]
    ELSE WriteBits(MarkFull(ctx, b, full), ws, ctx.bat[b], bits, WriteFooter(ctx, f1, isblock), full)
AfterWrite(ctx, f1, ws, b, bits, isblock) ==
    RecordBits(ctx, f1, ws, b, bits, ctx.hasmap /\ bits = 0..(SPB - 1), isblock)
WriteCells(ctx, f, ws, b, new, isblock) ==
    AfterWrite(ctx, ApplyAll(f, ws), ws, b, ReadBitmap(ApplyAll(f, ws), ctx.bat[b]) \cup new, isblock)
WriteSectors(al, f, b, from, cells, isblock) ==
    WriteCells(al.ctx, f, al.ws \o <<Put(al.ctx.bat[b] + BmSecs + from, cells)>>, b,
               {from + i - 1 : i \in DOMAIN cells}, isblock)
DynamicWrite(ctx, f, b, from, cells, isblock, sparse) ==
    WriteSectors(IF ctx.bat[b] = Unused THEN AllocateBlock(ctx, f, b, Len(cells) < SPB, sparse)
                 ELSE [ctx |-> ctx, ws |-> <<>>],
                 f, b, from, cells, isblock)

(***************************************************************************)
(* __vhd_create: batmap, BAT, parent locators, footer copy, header, and    *)
(* the footer at the end of what has been written.  max is the size the    *)
(* metadata is preallocated for.                                           *)
(***************************************************************************)
Locators == 3       \* PLAT_CODE_MACX, PLAT_CODE_W2KU, PLAT_CODE_W2RU
NewContext(type, curr, max, parent) ==
    LET tbl == 1 + HdrSecs
        map == tbl + BatSecs(max) + 1
        mapsecs == MapSecsFor(max)
    IN [footer |-> Footer(TRUE, type, curr),
        header |-> Header(max, tbl,
                          IF type = "diff" THEN [i \in 1..Locators |-> map + mapsecs + i - 1]
                          ELSE <<>>, parent),
        bat |-> [b \in 0..(max - 1) |-> Unused],
        bmh |-> [off |-> map, size |-> mapsecs, map |-> {}, key |-> FALSE],
        hasmap |-> TRUE]

\* vhd_write_parent_locators
WriteLocators(h, parent) ==
    [i \in DOMAIN h.loc |-> Put(h.loc[i], <<Locator(parent.name)>>)]

WithFooter(ws, footer) == ws \o <<Put(Len(ApplyAll(<<>>, ws)), <<footer>>)>>
CreateWrites(ctx, max, parent) ==
    IF ctx.footer.type = "fixed"
    THEN <<Put(0, Blanks(ctx.footer.curr)), Put(ctx.footer.curr, <<ctx.footer>>)>>
    ELSE WithFooter(WriteBatmap(ctx.header, ctx.bmh, max * SPB)
                    \o WriteBat(ctx.header, ctx.bat)
                    \o WriteLocators(ctx.header, parent)
                    \o <<Put(0, <<ctx.footer>>)>>
                    \o WriteHeader(ctx.header), ctx.footer)
VhdCreate(type, curr, max, parent) == CreateWrites(NewContext(type, curr, max, parent), max, parent)
=============================================================================
