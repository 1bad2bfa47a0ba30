------------------------------ MODULE VhdChain ------------------------------
(***************************************************************************)
(* The offline tools of vhd-util on a chain of images: snapshot, coalesce, *)
(* modify (new parent, zeroed BAT), repair, set-field, fill, copy and      *)
(* check, with their libvhd.c operations.  A tool computes the writes it   *)
(* will do to its one target; they reach the disk one by one, any of them  *)
(* may fail, and the process may die between two of them.  Chains are used *)
(* as the storage manager does: nothing else runs on the target of a tool, *)
(* a parent that is coalesced into has no other child, and a child is      *)
(* given a new parent only after its old one has been coalesced into it.   *)
(* An image is emptied only while every image has the footer at its end:   *)
(* one that an interrupted tool left without is repaired first.            *)
(***************************************************************************)
EXTENDS LibVhd

CONSTANTS
    Names,          \* images of the chain
    Chains,         \* initial chains: [file, raw, dev]
    DepthLimit,     \* `snapshot -l', 0 for none
    MaxOps,         \* bound on the tools started
    MaxFaults,      \* bound on the writes that fail
    MaxCrashes,     \* bound on the deaths of a tool
    MaxOpsFaulty    \* bound on the tools started where a write fails

VARIABLES
    file,           \* image -> its sectors, <<>> when there is no such file
    raw,            \* images that are not VHDs
    dev,            \* images that are block devices
    op,             \* the tool that runs, or that ran last
    todo,           \* its writes that are still to be done
    promise,        \* history: image in service -> the views it may show
    merged,         \* history: <<m, p>>: all of m has been coalesced into p
    filling,        \* history: images of which a fill is not complete
    lost,           \* history: the error of a write was swallowed
    ops, faults, crashes

vars == <<file, raw, dev, op, todo, promise, merged, filling, lost, ops, faults, crashes>>

Exists(fs, i) == i \in Names /\ fs[i] # <<>>
Op(tool, img, with) ==
    [tool |-> tool, img |-> img, with |-> with, state |-> "running", fate |-> "ok",
     sound |-> FALSE]

-----------------------------------------------------------------------------
\* Parents

\* vhd_parent_locator_get: the first locator that reads and whose file exists
Locs(f, h) == {i \in DOMAIN h.loc : Sec(f, h.loc[i]).k = "locator"}
Resolved(fs, f, h) == {i \in Locs(f, h) : Exists(fs, Sec(f, h.loc[i]).p)}
ParentOf(fs, f, c) ==
    IF c.footer.type # "diff" \/ Resolved(fs, f, c.header) = {} THEN "none"
    ELSE Sec(f, c.header.loc[Min(Resolved(fs, f, c.header))]).p

\* vhd_open and vhd_get_bat, without the batmap that only writers need
OpenBat(f) == VhdOpen(f, FALSE, FALSE, FALSE)
OpenAll(f) == VhdOpen(f, TRUE, FALSE, FALSE)

(***************************************************************************)
(* vhd_io_read over the chain.  A sector past the end of an image in it is *)
(* zero; a raw parent is read at the same place.  An image or parent that  *)
(* cannot be opened fails the read.                                        *)
(***************************************************************************)
RawView(f) == [s \in 0..(Len(f) - 1) |-> Sec(f, s)]
ViewOver(fs, v, i) ==
    IF ~Exists(fs, i) THEN Err
    ELSE LET c == OpenBat(fs[i]) IN
         IF c = Err THEN Err
         ELSE IF c.footer.type # "diff" THEN VhdView(fs[i], c, <<>>)
         ELSE LET p == ParentOf(fs, fs[i], c)
                  pv == IF p = "none" THEN Err
                        ELSE IF c.header.prt.raw THEN RawView(fs[p]) ELSE v[p]
              IN IF pv = Err THEN Err ELSE VhdView(fs[i], c, pv)
Generations == [n \in 1..Cardinality(Names) |-> n]
Views(fs) ==
    FoldLeft(LAMBDA v, n : [i \in Names |-> ViewOver(fs, v, i)], [i \in Names |-> Err], Generations)
View(fs, i) == Views(fs)[i]

\* vhd_chain_depth
DepthStep(fs, d) ==
    IF d.stop THEN d
    ELSE LET c == OpenBat(fs[d.name])
             p == ParentOf(fs, fs[d.name], c)
         IN IF c = Err THEN [d EXCEPT !.stop = TRUE, !.ok = FALSE]
            ELSE IF c.footer.type # "diff" THEN [d EXCEPT !.stop = TRUE, !.n = @ + 1]
            ELSE IF c.header.prt.raw THEN [d EXCEPT !.stop = TRUE, !.n = @ + 2]
            ELSE IF p = "none" THEN [d EXCEPT !.stop = TRUE, !.ok = FALSE]
            ELSE [d EXCEPT !.name = p, !.n = @ + 1]
ChainDepth(fs, i) ==
    FoldLeft(LAMBDA d, n : DepthStep(fs, d),
             [name |-> i, n |-> 0, stop |-> FALSE, ok |-> TRUE], Generations)

-----------------------------------------------------------------------------
\* vhd_io_write on an image: acc is [c: context, f: its file by then, ws, ok]

IoWrite(acc, sec, cells, isblock, sparse) ==
    IF ~acc.ok THEN acc
    ELSE IF acc.c = Err THEN [acc EXCEPT !.ok = FALSE]
    ELSE IF sec + Len(cells) > acc.c.footer.curr THEN [acc EXCEPT !.ok = FALSE]
    ELSE LET w == IF acc.c.footer.type = "fixed"
                  THEN [ctx |-> acc.c, ws |-> <<Put(sec, cells)>>]
                  ELSE DynamicWrite(acc.c, acc.f, sec \div SPB, sec % SPB, cells, isblock, sparse)
         IN [c |-> w.ctx, f |-> ApplyAll(acc.f, w.ws), ws |-> acc.ws \o w.ws, ok |-> TRUE]
\* __raw_io_write
RawWrite(acc, sec, cells) == IF ~acc.ok THEN acc ELSE [acc EXCEPT !.ws = @ \o <<Put(sec, cells)>>]

-----------------------------------------------------------------------------
\* The tools: [ws, ok]: the writes to the target and the result after them

Refused == [ws |-> <<>>, ok |-> FALSE]
Blocks(c) == [n \in 1..BlocksOf(c.footer.curr) |-> n - 1]

\* vhd_util_coalesce_block: the whole block when the batmap says that it is
\* full, else each run of sectors that its bitmap has
Runs(bits) ==
    LET starts == {i \in bits : i - 1 \notin bits}
        end(i) == Max({j \in bits : i..j \subseteq bits})
    IN [n \in 1..Cardinality(starts) |->
            LET i == SetToSortSeq(starts, <)[n] IN [from |-> i, to |-> end(i)]]
Pieces(f, c, b) ==
    IF c.bat[b] = Unused THEN <<>>
    ELSE IF b \in c.bmh.map THEN <<[from |-> 0, to |-> SPB - 1]>>
    ELSE Runs(ReadBitmap(f, c.bat[b]))
CoalesceBlock(acc, f, c, b, p, sparse) ==
    FoldLeft(LAMBDA a, r :
                LET sec == b * SPB + r.from
                    cells == SubSeq(ReadAt(f, c.bat[b], r.from), r.from + 1, r.to + 1)
                IN IF ReadAtFails(f, c.bat[b], r.from) THEN [a EXCEPT !.ok = FALSE]
                   ELSE IF p \in raw THEN RawWrite(a, sec, cells)
                   ELSE IoWrite(a, sec, cells, p \in dev, sparse),
             acc, Pieces(f, c, b))

\* mutant: the last entry of the BAT is missed
CoalesceOnto_mutant(m, p, sparse) ==
    LET c == OpenAll(file[m])
        to == [c |-> IF p \in raw THEN Err ELSE OpenAll(file[p]), f |-> file[p], ws |-> <<>>,
               ok |-> TRUE]
        r == FoldLeft(LAMBDA a, b : CoalesceBlock(a, file[m], c, b, p, sparse), to, Front(Blocks(c)))
    IN [ws |-> r.ws, ok |-> r.ok]

\* vhd_util_coalesce_onto
CoalesceOnto(m, p, sparse) ==
    LET c == OpenAll(file[m])
        to == [c |-> IF p \in raw THEN Err ELSE OpenAll(file[p]), f |-> file[p], ws |-> <<>>,
               ok |-> TRUE]
        r == FoldLeft(LAMBDA a, b : CoalesceBlock(a, file[m], c, b, p, sparse), to, Blocks(c))
    IN [ws |-> r.ws, ok |-> r.ok]
\* vhd_util_coalesce_parent
CoalesceTool(m, sparse) ==
    LET c == OpenBat(file[m])
        p == ParentOf(file, file[m], c)
    IN IF p = "none" \/ OpenAll(file[m]) = Err THEN Refused
       ELSE IF c.header.prt.raw # (p \in raw) \/ (p \notin raw /\ OpenBat(file[p]) = Err) THEN Refused
       ELSE CoalesceOnto(m, p, sparse)

\* mutant: an image is passed over without a look at its blocks
TargetStep_mutant(t) ==
    LET c == OpenBat(file[t.name]) IN
    IF t.stop THEN t
    ELSE IF c = Err THEN [t EXCEPT !.stop = TRUE, !.ok = FALSE]
    ELSE IF c.footer.type # "diff" \/ ParentOf(file, file[t.name], c) = "none"
    THEN [t EXCEPT !.stop = TRUE]
    ELSE [t EXCEPT !.name = ParentOf(file, file[t.name], c), !.raw = c.header.prt.raw,
                   !.stop = c.header.prt.raw]

\* vhd_util_find_snapshot_target: past the differencing images without a block
TargetStep(t) ==
    IF t.stop THEN t
    ELSE LET c == OpenBat(file[t.name]) IN
         IF c = Err THEN [t EXCEPT !.stop = TRUE, !.ok = FALSE]
         ELSE IF c.footer.type # "diff" \/ \E b \in DOMAIN c.bat : c.bat[b] # Unused
         THEN [t EXCEPT !.stop = TRUE]
         ELSE LET p == ParentOf(file, file[t.name], c) IN
              IF p = "none" THEN [t EXCEPT !.stop = TRUE, !.ok = FALSE]
              ELSE [t EXCEPT !.name = p, !.raw = c.header.prt.raw, !.stop = c.header.prt.raw]
FindSnapshotTarget(p) ==
    FoldLeft(LAMBDA t, n : TargetStep(t),
             [name |-> p, raw |-> FALSE, stop |-> FALSE, ok |-> TRUE], Generations)

\* __vhd_create unlinks what it created when a write of it fails
Unlink == [t |-> "unlink", skip |-> 0]
OrUnlink(ws) == [i \in DOMAIN ws |-> [ws[i] EXCEPT !.last = <<Unlink>>]]

\* vhd_set_keyhash: the batmap header is read, changed and written back
SetKeyhash(f) ==
    LET off == BatmapHeaderOffset(ReadHeader(f)) IN
    <<Put(off, <<[Sec(f, off) EXCEPT !.key = TRUE]>>)>>
Keyed(f) == Sec(f, BatmapHeaderOffset(ReadHeader(f))).key

\* vhd_util_snapshot; size 0 stands for the size of the parent
SizeOf(i) == IF i \in raw THEN Len(file[i]) ELSE ReadFooter(file[i], FALSE).curr
SnapshotTool(p, skip_empty) ==
    LET t == IF p \in raw THEN [name |-> p, raw |-> TRUE, ok |-> TRUE]
             ELSE IF ~skip_empty THEN [name |-> p, raw |-> FALSE, ok |-> TRUE]
             ELSE FindSnapshotTarget(p)
        size == SizeOf(p)
        depth == ChainDepth(file, t.name)
        ws == OrUnlink(VhdCreate("diff", size, BlocksOf(size), Parent(t.name, t.raw)))
    IN IF ~t.ok \/ t.raw # (t.name \in raw) \/ (~t.raw /\ OpenBat(file[t.name]) = Err) THEN Refused
       ELSE IF DepthLimit # 0 /\ ~t.raw /\ (~depth.ok \/ depth.n + 1 > DepthLimit) THEN Refused
       ELSE IF size < SizeOf(t.name) THEN Refused
       ELSE [ws |-> ws \o (IF ~t.raw /\ OpenBat(file[t.name]).footer.type # "fixed" /\ Keyed(file[t.name])
                           THEN SetKeyhash(ApplyAll(<<>>, ws)) ELSE <<>>),
             ok |-> TRUE]

\* mutant: the header keeps the name of the old parent
ChangeParent_mutant(c, p) ==
    [ws |-> WriteLocators(OpenBat(file[c]).header, Parent(p, p \in raw)), ok |-> TRUE]

\* vhd_change_parent: the locators one by one, then the header
ChangeParent(c, p) ==
    LET o == OpenBat(file[c])
        prt == Parent(p, p \in raw)
    IN IF o = Err \/ o.footer.type # "diff" THEN Refused
       ELSE IF p \notin raw /\ OpenBat(file[p]) = Err THEN Refused
       ELSE [ws |-> WriteLocators(o.header, prt) \o WriteHeader([o.header EXCEPT !.prt = prt]),
             ok |-> TRUE]

\* vhd_util_zero_bat and the footer that truncates a file after it
ZeroBat(i) ==
    LET c == OpenAll(file[i])
        e == [c EXCEPT !.bat = [b \in DOMAIN c.bat |-> Unused], !.bmh.map = {}]
    IN IF c = Err \/ c.footer.type = "fixed" THEN Refused
       ELSE [ws |-> WriteBat(e.header, e.bat) \o WriteBatmap(e.header, e.bmh, e.footer.curr)
                    \o (IF i \in dev THEN <<>> ELSE WriteFooter(e, file[i], FALSE)),
             ok |-> TRUE]

\* vhd_util_repair
RepairTool(f, isblock, backup) ==
    LET c == VhdOpen(f, ~isblock, FALSE, backup) IN
    IF c = Err THEN Refused ELSE [ws |-> WriteFooter(c, f, isblock), ok |-> TRUE]

\* vhd_util_set_field -f hidden
SetHidden(i, v) ==
    LET c == VhdOpen(file[i], i \notin dev, FALSE, FALSE) IN
    IF c = Err THEN Refused
    ELSE [ws |-> WriteFooter([c EXCEPT !.footer.hidden = v], file[i], i \in dev), ok |-> TRUE]

\* vhd_util_fill: every block is read through the chain and written back
FillTool(i) ==
    LET c == OpenAll(file[i])
        v == View(file, i)
        cells(b) == [j \in 1..SPB |-> v[b * SPB + j - 1]]
        r == FoldLeft(LAMBDA a, b :
                        IF b \in DOMAIN c.bat THEN IoWrite(a, b * SPB, cells(b), i \in dev, FALSE)
                        ELSE [a EXCEPT !.ok = FALSE],
                      [c |-> c, f |-> file[i], ws |-> <<>>, ok |-> TRUE],
                      [n \in 1..c.header.max |-> n - 1])
    IN IF OpenBat(file[i]) = Err \/ c = Err \/ v = Err THEN Refused ELSE [ws |-> r.ws, ok |-> r.ok]

\* vhd_util_fill -b: vhd_io_allocate_blocks_fast and vhd_init_bitmaps
FillFastTool(i) ==
    LET c == OpenAll(file[i])
        n == BlocksOf(c.footer.curr)
        at == FoldLeft(LAMBDA s, b : Append(s, AlignBlock(s[Len(s)] + BmSecs + SPB)),
                       <<AlignBlock(EndOfData(c, file[i]))>>, [k \in 1..n |-> k])
        e == [c EXCEPT !.bat = [b \in DOMAIN c.bat |-> at[b + 1]]]
    IN IF c = Err \/ c.footer.type = "fixed" THEN Refused
       ELSE [ws |-> WriteBat(e.header, e.bat)
                    \o [k \in 1..n |-> Put(at[k], <<Bitmap(0..(SPB - 1))>>)],
             ok |-> TRUE]

\* copy_vhd without a key: vhd_create refuses a differencing image, and an
\* image without a BAT fails after the target has been created
CopyTool(i) ==
    LET c == OpenAll(file[i])
        v == View(file, i)
        new == OrUnlink(VhdCreate(c.footer.type, c.footer.curr, BlocksOf(c.footer.curr), NoParent))
        f == ApplyAll(<<>>, new)
        r == FoldLeft(LAMBDA a, b :
                        IF c.bat[b] = Unused THEN a
                        ELSE IoWrite(a, b * SPB, [j \in 1..SPB |-> v[b * SPB + j - 1]], FALSE, FALSE),
                      [c |-> OpenAll(f), f |-> f, ws |-> new, ok |-> TRUE], Blocks(c))
    IN IF c = Err \/ c.footer.type = "diff" THEN Refused
       ELSE IF c.footer.type = "fixed" THEN [ws |-> new, ok |-> FALSE]
       ELSE [ws |-> r.ws, ok |-> r.ok]

-----------------------------------------------------------------------------
\* vhd_util_check, with -t: the tests that a valid image passes

ValidFooter(c) == c.k = "footer"
CheckFooters(f) ==
    /\ ValidFooter(Sec(f, Len(f) - 1))
    /\ Sec(f, Len(f) - 1).type # "fixed" =>
        ValidFooter(Sec(f, 0)) /\ Sec(f, 0) = Sec(f, Len(f) - 1)
ValidHeader(f, h) == h.tbl > 0 /\ h.tbl + CeilDiv(h.max, EPS) <= Len(f) - 1
CheckHeader(f) == ReadHeader(f) # Err /\ ValidHeader(f, ReadHeader(f))
ValidDifferencing(c) ==
    c.footer.type = "diff" \/ (c.header.prt = NoParent /\ c.header.loc = <<>>)
\* the blocks that curr_size fills lie between the headers and the footer,
\* apart from each other
CheckBat(f, c) ==
    LET size == SPB + BmSecs
        used == {b \in 0..((c.footer.curr \div SPB) - 1) : c.bat[b] # Unused}
    IN /\ \A b \in used : c.bat[b] >= EndOfHeaders(c) /\ c.bat[b] + size <= Len(f) - 1
       /\ \A a, b \in used : a # b => c.bat[a] + size <= c.bat[b] \/ c.bat[b] + size <= c.bat[a]
ValidBatmap(f, c) ==
    c.bmh.size * MapBits >= c.header.max /\ c.bmh.off + c.bmh.size <= Len(f) - 1
CheckBatmap(f, c) ==
    /\ ValidBatmap(f, c)
    /\ \A b \in c.bmh.map : b < c.footer.curr \div SPB => c.bat[b] # Unused
\* every locator reads, names the parent that the header names, and resolves
\* to a file with the uuid that the header has
ValidLocator(f, off) == off > 0 /\ off + 1 <= Len(f) - 1
ValidParent(fs, c, p) ==
    c.header.prt.raw \/ (p \notin raw /\ VhdOpen(fs[p], FALSE, TRUE, FALSE) # Err)
CheckLocators(fs, f, c) ==
    /\ c.header.loc # <<>>
    /\ \A i \in DOMAIN c.header.loc :
        LET l == Sec(f, c.header.loc[i]) IN
        /\ ValidLocator(f, c.header.loc[i])
        /\ l.k = "locator" /\ l.p = c.header.prt.name /\ Exists(fs, l.p)
        /\ ValidParent(fs, c, l.p)
CheckVhd(fs, i) ==
    LET f == fs[i]
        c == VhdOpen(f, TRUE, TRUE, FALSE)
    IN /\ CheckFooters(f)
       /\ Sec(f, Len(f) - 1).type # "fixed" =>
            /\ CheckHeader(f) /\ c # Err
            /\ ValidDifferencing(c) /\ CheckBat(f, c) /\ CheckBatmap(f, c)
            /\ c.footer.type = "diff" => CheckLocators(fs, f, c)

-----------------------------------------------------------------------------
Init ==
    /\ \E ch \in Chains : file = ch.file /\ raw = ch.raw /\ dev = ch.dev
    /\ op = [Op("none", "none", "none") EXCEPT !.state = "ok"] /\ todo = <<>>
    /\ promise = [i \in {x \in Names : Exists(file, x) /\ x \notin raw} |-> {View(file, i)}]
    /\ merged = {} /\ filling = {} /\ lost = FALSE /\ ops = 0 /\ faults = 0 /\ crashes = 0

Vhds == {i \in Names \ raw : Exists(file, i)}
Up(i) == ParentOf(file, file[i], OpenBat(file[i]))
Children(p) == {c \in Vhds : OpenBat(file[c]) # Err /\ Up(c) = p}
\* what an image shows without a block of its own
BareView(i) ==
    LET c == OpenBat(file[i]) IN
    VhdView(file[i], [c EXCEPT !.bat = [b \in DOMAIN c.bat |-> Unused]],
            IF Up(i) \in raw THEN RawView(file[Up(i)]) ELSE View(file, Up(i)))
Idle == op.state # "running"
CanStart == Idle /\ ops < (IF faults = 0 THEN MaxOps ELSE MaxOpsFaulty)
Drop(S) == [i \in DOMAIN promise \ S |-> promise[i]]

\* the last sector of a file without its footer reads as zero, so that the
\* footer which repair or set-field writes may bring data back
Whole(i) == ValidFooter(Sec(file[i], Len(file[i]) - 1))
MergedStill(i) == {x \in merged : x[1] # i \/ Whole(i)}

SoundFor(i) == i \in raw \/ ~Exists(file, i) \/ CheckVhd(file, i)

\* A tool starts; fate is what it will return if no write fails
Start(tool, img, with, t) ==
    /\ ops' = ops + 1
    /\ op' = [Op(tool, img, with) EXCEPT !.fate = IF t.ok THEN "ok" ELSE "failed",
                                          !.sound = SoundFor(IF tool = "coalesce" THEN with ELSE img)]
    /\ todo' = t.ws
    /\ filling' = IF tool = "fill" THEN filling \cup {img} ELSE filling
    /\ UNCHANGED <<file, raw, dev, lost, faults, crashes>>

Coalesce(m, sparse) ==
    /\ CanStart /\ m \in Vhds /\ OpenBat(file[m]) # Err /\ Up(m) # "none"
    /\ Children(Up(m)) = {m}
    /\ Start("coalesce", m, Up(m), CoalesceTool(m, sparse))
    /\ promise' = Drop({Up(m)})
    /\ merged' = {x \in merged : Up(m) \notin {x[1], x[2]}}

Snapshot(n, p, skip_empty) ==
    /\ CanStart /\ ~Exists(file, n) /\ Exists(file, p) /\ (p \in raw \/ p \in DOMAIN promise \ filling)
    /\ Start("snapshot", n, p, SnapshotTool(p, skip_empty))
    /\ UNCHANGED <<promise, merged>>

Copy(n, p) ==
    /\ CanStart /\ ~Exists(file, n) /\ p \in DOMAIN promise \ filling
    /\ Start("copy", n, p, CopyTool(p))
    /\ UNCHANGED <<promise, merged>>

\* also to complete one that was interrupted
Reparent(c, p) ==
    /\ CanStart /\ c \in Vhds /\ Exists(file, p) /\ OpenBat(file[c]) # Err
    /\ \/ <<Up(c), p>> \in merged
       \/ op.tool = "reparent" /\ op.img = c /\ op.with = p /\ op.state # "ok"
    /\ Start("reparent", c, p, ChangeParent(c, p))
    /\ UNCHANGED <<promise, merged>>

ZeroData(i) ==
    /\ CanStart /\ i \in DOMAIN promise /\ OpenBat(file[i]) # Err /\ Children(i) = {}
    /\ OpenBat(file[i]).footer.type = "diff" /\ \A j \in Vhds : Whole(j)
    /\ Start("zero", i, Up(i), ZeroBat(i))
    /\ promise' = [promise EXCEPT ![i] = @ \cup {BareView(i)}]
    /\ merged' = {x \in merged : x[1] # i}

Repair(i, backup) ==
    /\ CanStart /\ i \in Vhds
    /\ Start("repair", i, "none", RepairTool(file[i], i \in dev, backup))
    /\ merged' = MergedStill(i)
    /\ UNCHANGED promise

Hide(i, v) ==
    /\ CanStart /\ i \in Vhds
    /\ Start("hide", i, IF v THEN "1" ELSE "0", SetHidden(i, v))
    /\ merged' = MergedStill(i)
    /\ UNCHANGED promise

Fill(i) ==
    /\ CanStart /\ i \in Vhds \ filling /\ Children(i) = {}
    /\ Start("fill", i, "none", FillTool(i))
    /\ merged' = {x \in merged : x[1] # i}
    /\ UNCHANGED promise

\* blocks are given a place, not contents: the image is not yet in use
FillFast(i) ==
    /\ CanStart /\ i \in Vhds /\ Children(i) = {}
    /\ Start("fill_fast", i, "none", FillFastTool(i))
    /\ promise' = Drop({i})
    /\ merged' = {x \in merged : x[1] # i}

-----------------------------------------------------------------------------
Target == IF op.tool = "coalesce" THEN op.with ELSE op.img
FitsTarget(w) == Target \in dev /\ w.t = "put" => w.off + Len(w.cells) <= Len(file[Target])

Write ==
    /\ ~Idle /\ todo # <<>> /\ FitsTarget(Head(todo))
    /\ LET w == Head(todo) IN
       file' = [file EXCEPT ![Target] = IF w.t = "unlink" THEN <<>> ELSE ApplyWrite(@, w)]
    /\ todo' = Tail(todo)
    /\ UNCHANGED <<raw, dev, op, promise, merged, filling, lost, ops, faults, crashes>>

\* A write fails.  vhd_util_set_field falls back to the footer copy when there
\* is no space, and then returns what that gives
WriteError(e) ==
    /\ ~Idle /\ todo # <<>> /\ Head(todo).t # "unlink"
    /\ FitsTarget(Head(todo)) => faults < MaxFaults /\ ops <= MaxOpsFaulty
    /\ faults' = IF FitsTarget(Head(todo)) THEN faults + 1 ELSE faults
    /\ LET w == Head(todo)
           hiding == op.tool = "hide" /\ e = "ENOSPC" /\ op.with = "1"
       IN /\ todo' = IF w.skip > 0 THEN SubSeq(todo, w.skip + 1, Len(todo))
                     ELSE IF hiding THEN <<todo[Len(todo)]>> ELSE w.last
          /\ op' = IF w.skip > 0 \/ hiding THEN op ELSE [op EXCEPT !.fate = "failed"]
          /\ lost' = (lost \/ w.skip > 0 \/ hiding)
    /\ UNCHANGED <<file, raw, dev, promise, merged, filling, ops, crashes>>

Crash ==
    /\ ~Idle /\ crashes < MaxCrashes
    /\ crashes' = crashes + 1
    /\ op' = [op EXCEPT !.state = "crashed"] /\ todo' = <<>>
    /\ UNCHANGED <<file, raw, dev, promise, merged, filling, lost, ops, faults>>

\* The tool returns
Finish ==
    /\ ~Idle /\ todo = <<>>
    /\ op' = [op EXCEPT !.state = op.fate]
    /\ LET ok == op.fate = "ok" IN
       /\ promise' = CASE ok /\ op.tool \in {"snapshot", "copy"} ->
                            (op.img :> (IF op.with \in raw THEN {RawView(file[op.with])}
                                        ELSE promise[op.with])) @@ promise
                       [] ok /\ op.tool = "zero" -> [promise EXCEPT ![op.img] = {BareView(op.img)}]
                       [] OTHER -> promise
       /\ filling' = IF ok /\ op.tool = "fill" THEN filling \ {op.img} ELSE filling
       /\ merged' = IF ok /\ op.tool = "coalesce" THEN merged \cup {<<op.img, op.with>>} ELSE merged
    /\ UNCHANGED <<file, raw, dev, todo, lost, ops, faults, crashes>>

Next ==
    \/ \E m \in Names, sparse \in BOOLEAN : Coalesce(m, sparse)
    \/ \E n, p \in Names, skip \in BOOLEAN : Snapshot(n, p, skip)
    \/ \E n, p \in Names : Copy(n, p) \/ Reparent(n, p)
    \/ \E i \in Names, b \in BOOLEAN : Repair(i, b) \/ Hide(i, b)
    \/ \E i \in Names : ZeroData(i) \/ Fill(i) \/ FillFast(i)
    \/ Write \/ (\E e \in {"ENOSPC", "EIO"} : WriteError(e)) \/ Crash \/ Finish

Spec == Init /\ [][Next]_vars

-----------------------------------------------------------------------------
\* Properties

\* the locators of an image lead to a raw parent and its header speaks of a
\* VHD, or the other way round: between the two writes of vhd_change_parent
Switching(i) ==
    LET c == OpenBat(file[i]) IN
    c # Err /\ c.footer.type = "diff" /\ Up(i) # "none" /\ c.header.prt.raw # (Up(i) \in raw)

\* An image in service shows the same disk whatever tools run below it or on
\* it, after every single write, failed write and death of a tool: coalescing
\* only copies down what the child covers, a new parent holds the same data, a
\* snapshot shows what its parent showed (vhd_util_coalesce_block,
\* vhd_change_parent, vhd_util_snapshot, __vhd_io_dynamic_write).
InService ==
    LET v == Views(file) IN
    \A i \in DOMAIN promise \ filling : Switching(i) \/ (v[i] # Err /\ v[i] \in promise[i])

\* A fill keeps the contents as well.  It gives a block its place in the BAT
\* before anything is written there, not even zeros, when it will write the
\* whole block: `we will get to the write and make sure to overwrite the
\* pre-existing contents' (libvhd.c, __vhd_io_dynamic_write).
FillKeepsData == \A i \in DOMAIN promise \cap filling : View(file, i) \in promise[i]

\* The sector of an image that its file has, were its footer in place.
Held(i, s) ==
    LET at == OpenBat(file[i]).bat[s \div SPB] + BmSecs + (s % SPB)
    IN IF ~Whole(i) /\ at = Len(file[i]) - 1 THEN {Sec(file[i], at)} ELSE {}

\* Once coalesce has reported success the parent alone shows what the child
\* does, and goes on doing so: this is what makes it safe to link the
\* grandchildren to it (vhd_util_coalesce_onto).  Where the footer of the child
\* is missing, the sector in its place may come through as well.
CoalesceDelivers ==
    Idle => \A x \in {y \in merged : ~Switching(y[1])} :
        LET v == IF x[2] \in raw THEN RawView(file[x[2]]) ELSE View(file, x[2])
            u == View(file, x[1])
        IN \A s \in DOMAIN u :
               (IF s \in DOMAIN v THEN v[s] ELSE Zero) \in {u[s]} \cup Held(x[1], s)

\* A tool that reports success leaves a new image, or one that was valid, such
\* that `vhd-util check' accepts it, no error of a write having been swallowed;
\* not so `fill -b', which neither writes the footer of a file nor looks where a
\* device ends.
ToolsLeaveValid ==
    op.state = "ok" /\ op.sound /\ ~lost /\ Target \notin raw /\ op.tool # "fill_fast" =>
        CheckVhd(file, Target)

\* After a tool failed or died, `vhd-util repair' makes an image that was valid
\* acceptable to `vhd-util check' again, unless the death came between the
\* batmap and its checksum (vhd_write_batmap).  Not so for `modify -z', which
\* empties the BAT before the batmap.
BatmapWhole(f) == ReadHeader(f) # Err /\ ReadFooter(f, FALSE) # Err
                  /\ ReadBatmap(f, ReadHeader(f), ReadFooter(f, FALSE).curr) # Err
Repairable ==
    op.state \in {"failed", "crashed"} /\ op.tool \in {"coalesce", "fill", "hide", "repair"}
    /\ op.sound /\ Target \notin raw /\ ~lost /\ BatmapWhole(file[Target]) =>
        LET t == RepairTool(file[Target], Target \in dev, FALSE) IN
        /\ t.ok
        /\ CheckVhd([file EXCEPT ![Target] = ApplyAll(@, t.ws)], Target)

\* A tool leaves a valid image behind: at once if it succeeds, after a repair
\* if it fails or dies.
ToolsSafe == ToolsLeaveValid /\ Repairable
=============================================================================
