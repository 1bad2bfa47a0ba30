------------------------------ MODULE VhdResize ------------------------------
(***************************************************************************)
(* `vhd-util resize -j' and `vhd-util revert' with the metadata journal    *)
(* (vhd-util-resize.c, vhd-util-revert.c, libvhd-journal.c) on one image,  *)
(* or `vhd-util resize -f' on one that was made with room for it.          *)
(* A tool is a sequence of stages; a stage computes from the context and   *)
(* the file the writes it will do, and they reach the disk one by one.     *)
(* The process may die between any two writes, and any write may fail.     *)
(***************************************************************************)
EXTENDS LibVhd

CONSTANTS
    Images,         \* initial images: [file, hasmap, isblock, fast]
    Goals,          \* virtual sizes, in sectors, that a resize asks for
    MaxFaults,      \* bound on the writes that fail
    MaxCrashes      \* bound on the deaths of the tool

VARIABLES
    file,           \* the image, a sequence of sectors
    jrnl,           \* the journal file
    pc,             \* stage of the running tool, or "idle"
    todo,           \* writes of the stage that are still to be done
    ctx,            \* j->vhd: footer, header, BAT and batmap in memory
    jh,             \* j->header: the journal header in memory
    plan,           \* locals of vhd_dynamic_grow
    goal,           \* the size asked for
    verdict,        \* how the last tool ended
    env,            \* [hasmap, isblock] of the image; fast: it is resized with -f
    disk,           \* history: contents when the image was last in service
    lost,           \* history: an error was swallowed and the tool went on
    faults, crashes

vars == <<file, jrnl, pc, todo, ctx, jh, plan, goal, verdict, env, disk, lost, faults, crashes>>

-----------------------------------------------------------------------------
\* The journal: a header and a sequence of entries, each with its data

NoHeader == [valid |-> FALSE, foff |-> 0, nmeta |-> 0, ndata |-> 0, doff |-> 0]
NoJournal == [exists |-> FALSE, hdr |-> NoHeader, ents |-> <<>>]
NewJournal == [NoJournal EXCEPT !.exists = TRUE]

Entry(type, off, cells) == [type |-> type, off |-> off, cells |-> cells]
JEntry(i, e) == [t |-> "jent", i |-> i, e |-> e, skip |-> 0]
JHeader(h) == [t |-> "jhdr", h |-> h, skip |-> 0]
JTruncate == [t |-> "jtrunc", skip |-> 0]
JUnlink == [t |-> "junlink", skip |-> 0]

ApplyJournal(j, w) ==
    CASE w.t = "jent" -> [j EXCEPT !.ents = SubSeq(@, 1, w.i - 1) \o <<w.e>>]
      [] w.t = "jhdr" -> [j EXCEPT !.hdr = w.h]
      [] w.t = "jtrunc" -> [j EXCEPT !.ents = <<>>]
      [] w.t = "junlink" -> NoJournal

\* vhd_journal_add_journal_header
FirstJHeader == [NoHeader EXCEPT !.valid = TRUE, !.foff = Len(file) - 1]

\* vhd_journal_update: the entry with its data, then the header that counts it
JEnts(h) == h.nmeta + h.ndata
Counted(h, e) ==
    IF e.type = "data"
    THEN [h EXCEPT !.ndata = @ + 1, !.doff = IF h.ndata = 0 THEN JEnts(h) + 1 ELSE @]
    ELSE [h EXCEPT !.nmeta = @ + 1]
JUpdate(h, e) == <<JEntry(JEnts(h) + 1, e), JHeader(Counted(h, e))>>
JUpdates(h, es) ==
    FoldLeft(LAMBDA acc, e : [ws |-> acc.ws \o JUpdate(acc.h, e), h |-> Counted(acc.h, e)],
             [ws |-> <<>>, h |-> h], es)

\* vhd_journal_add_metadata: what is saved of a dynamic image
FooterEntries(f) ==
    <<Entry("footer_p", Len(f) - 1, <<Sec(f, Len(f) - 1)>>), Entry("footer_c", 0, <<Sec(f, 0)>>),
      Entry("header", 1, Secs(f, 1, HdrSecs))>>
LocatorEntries(f, h) == [i \in DOMAIN h.loc |-> Entry("locator", h.loc[i], Secs(f, h.loc[i], 1))]
\* only the part of the BAT that curr_size uses was read
BatEntries(f, c) ==
    <<Entry("bat", c.header.tbl, Secs(f, c.header.tbl, BatSecs(Cardinality(DOMAIN c.bat))))>>
BatmapEntries(f, c) ==
    LET off == BatmapHeaderOffset(c.header) IN
    IF ~c.hasmap THEN <<>>
    ELSE <<Entry("batmap_h", off, Secs(f, off, 1)),
           Entry("batmap_m", c.bmh.off, Secs(f, c.bmh.off, c.bmh.size))>>
MetadataEntries(f, c) ==
    FooterEntries(f) \o LocatorEntries(f, c.header) \o BatEntries(f, c) \o BatmapEntries(f, c)

\* mutant: the offset of the data entries is not recorded
AddMetadata_mutant(f, c, h0) == JUpdates(h0, MetadataEntries(f, c)).ws

AddMetadata(f, c, h0) ==
    LET u == JUpdates(h0, MetadataEntries(f, c)) IN
    u.ws \o <<JHeader([u.h EXCEPT !.doff = JEnts(u.h) + 1])>>

\* the footers must both be valid for vhd_journal_add_footer to save them
FootersReadable(f) == Sec(f, Len(f) - 1).k = "footer" /\ Sec(f, 0).k = "footer"

(***************************************************************************)
(* vhd_journal_restore_metadata reads the entries in the order they were   *)
(* saved and refuses a journal that does not hold exactly these.           *)
(***************************************************************************)
EntryIs(j, i, type) == i <= Len(j.ents) /\ j.ents[i].type = type
SavedHeader(j) == j.ents[3].cells[1]
ParsesFooters(j) ==
    /\ EntryIs(j, 1, "footer_p") /\ j.ents[1].cells[1].k = "footer"
    /\ EntryIs(j, 2, "footer_c") /\ j.ents[2].cells[1].k = "footer"
    /\ EntryIs(j, 3, "header") /\ SavedHeader(j).k = "header"
ParsesLocators(j) == \A i \in DOMAIN SavedHeader(j).loc : EntryIs(j, 3 + i, "locator")
ParsesBat(j, i) ==
    /\ EntryIs(j, i, "bat") /\ j.ents[i].off = SavedHeader(j).tbl
    /\ Len(j.ents[i].cells) = BatSecs(SavedHeader(j).max)
ParsesBatmap(j, i) ==
    /\ EntryIs(j, i, "batmap_h") /\ j.ents[i].cells[1].k = "batmap_hdr"
    /\ EntryIs(j, i + 1, "batmap_m")
    /\ Len(j.ents[i + 1].cells) = j.ents[i].cells[1].size
JournalParses(j, h) ==
    /\ ParsesFooters(j) /\ ParsesLocators(j)
    /\ LET b == 4 + Len(SavedHeader(j).loc) IN
       /\ ParsesBat(j, b)
       /\ env.hasmap => ParsesBatmap(j, b + 1)
       /\ h.doff = (IF env.hasmap THEN b + 3 ELSE b + 1)

RestoreLocators(j) ==
    [i \in DOMAIN SavedHeader(j).loc |-> Put(SavedHeader(j).loc[i], j.ents[3 + i].cells)]
RestoreMetadata(j, h) ==
    LET hd == SavedHeader(j)
        n == Len(hd.loc)
        bat == [x \in 0..(hd.max - 1) |-> j.ents[4 + n].cells[1 + (x \div EPS)].e[1 + (x % EPS)]]
        bmh == j.ents[5 + n].cells[1]
    IN <<Put(h.foff, j.ents[1].cells), Put(0, j.ents[2].cells)>> \o WriteHeader(hd)
       \o RestoreLocators(j) \o WriteBat(hd, bat)
       \o (IF env.hasmap
           THEN WriteBatmap(hd, [off |-> bmh.off, size |-> bmh.size, map |-> bmh.sum, key |-> bmh.key],
                            j.ents[1].cells[1].curr)
           ELSE <<>>)
       \o (IF env.isblock THEN <<>> ELSE <<Ftruncate(h.foff + 1)>>)

\* vhd_journal_revert after the metadata: the saved blocks, in the order saved
RestoreData(j, h) ==
    [i \in 1..h.ndata |-> Put(j.ents[h.doff + i - 1].off, j.ents[h.doff + i - 1].cells)]
    \o (IF env.isblock THEN <<>> ELSE <<Ftruncate(h.foff + 1)>>)

-----------------------------------------------------------------------------
\* The image in service

Opened(f) == VhdOpen(f, env.hasmap, FALSE, FALSE)
\* nothing runs, the image opens, and no journal is left that revert would apply
InService(f, j, at) ==
    /\ at = "idle" /\ Opened(f) # Err
    /\ ~(j.exists /\ j.hdr.valid /\ JournalParses(j, j.hdr))
View(f) == VhdView(f, Opened(f), <<>>)
Online == InService(file, jrnl, pc)

\* the history variable follows the image whenever it is in service
Remember == disk' = IF InService(file', jrnl', pc') THEN View(file') ELSE disk

Poison(c, enabled) == [c EXCEPT !.footer.enabled = enabled]

-----------------------------------------------------------------------------
\* vhd-util-resize.c

Allocated(c) == {b \in DOMAIN c.bat : c.bat[b] # Unused}
\* vhd_first_data_block and vhd_next_block_offset
FirstDataBlock(c) == CHOOSE b \in Allocated(c) : \A x \in Allocated(c) : c.bat[b] <= c.bat[x]
NextBlockOffset(c) == Max(BlockEnds(c))

\* vhd_check_for_clobber
InRange(off, start, size) == start < off /\ start + size > off
Clobbers(c, off, skip) ==
    \/ off < 1
    \/ InRange(off, 1, HdrSecs)
    \/ "bat" \notin skip /\ InRange(off, c.header.tbl, BatSecs(c.header.max))
    \/ "batmap" \notin skip /\ c.hasmap /\ InRange(off, c.bmh.off, 1)
    \/ "ploc" \notin skip /\ \E i \in DOMAIN c.header.loc : InRange(off, c.header.loc[i], 1)
    \/ Allocated(c) # {} /\ InRange(off, c.bat[FirstDataBlock(c)], SPB)

\* vhd_dynamic_grow up to the moves: how many sectors BAT and batmap need
GrowPlan(c, secs) ==
    LET blocks == CeilDiv(secs, SPB)
        batavail == BatSecs(c.header.max) * EPS - c.header.max
        mapavail == IF c.hasmap THEN c.bmh.size * MapSec - CeilDiv(c.header.max, MapByte) ELSE 0
        mapneeded == IF c.hasmap THEN blocks \div MapByte + 1 ELSE 0
    IN [blocks |-> blocks,
        enough |-> blocks <= batavail /\ mapneeded <= mapavail,
        bat |-> IF blocks > batavail THEN CeilDiv(blocks - batavail, EPS) ELSE 0,
        map |-> IF mapneeded > mapavail THEN CeilDiv(mapneeded - mapavail, MapSec) ELSE 0,
        eom |-> EndOfHeaders(c),
        eob |-> c.header.tbl + BatSecs(c.header.max)]

NoPlan == [blocks |-> 0, enough |-> TRUE, bat |-> 0, map |-> 0, eom |-> 0, eob |-> 0]

\* mutant: the old place is cleared before its contents are saved
MoveBlock_mutant(f, c, h) ==
    LET b == FirstDataBlock(c)
        new == AlignBlock(NextBlockOffset(c))
        src == c.bat[b]
    IN [writes |-> <<Put(new, Secs(f, src, BmSecs))>> \o WriteBlock(new, ReadBlock(f, src))
                   \o WriteZeros(src, BmSecs + SPB),
        ctx |-> [c EXCEPT !.bat[b] = new]]

(***************************************************************************)
(* vhd_move_block of the first block: zero the gap up to the page, save    *)
(* bitmap and data in the journal, write them at the new place, zero the   *)
(* old place.                                                              *)
(***************************************************************************)
MoveBlock(f, c, h) ==
    LET b == FirstDataBlock(c)
        next == NextBlockOffset(c)
        new == AlignBlock(next)
        gap == IF new > next THEN WriteZeros(next, new - next) ELSE <<>>
        f1 == ApplyAll(f, gap)
        src == c.bat[b]
        save == JUpdates(h, <<Entry("data", src, Secs(f1, src, BmSecs)),
                              Entry("data", src + BmSecs, ReadBlock(f1, src))>>)
        bm == <<Put(new, Secs(f1, src, BmSecs))>>
    IN [writes |-> gap \o save.ws \o bm \o WriteBlock(new, ReadBlock(ApplyAll(f1, bm), src))
                   \o WriteZeros(src, BmSecs + SPB),
        ctx |-> [c EXCEPT !.bat[b] = new]]

\* vhd_shift_metadata: locators past the BAT move by bat + map, the batmap by bat
Shifted(c, p) ==
    [c EXCEPT !.header.loc = [i \in DOMAIN @ |-> IF @[i] < p.eob THEN @[i] ELSE @[i] + p.bat + p.map],
              !.bmh.off = IF c.hasmap /\ @ > p.eob THEN @ + p.bat ELSE @]
MovingLocs(c, p) == SelectSeq([i \in DOMAIN c.header.loc |-> i], LAMBDA i : c.header.loc[i] >= p.eob)
ShiftWrites(f, c, p) ==
    [k \in DOMAIN MovingLocs(c, p) |->
        LET i == MovingLocs(c, p)[k] IN
        Put(Shifted(c, p).header.loc[i], Secs(f, c.header.loc[i], 1))]
\* the turns of its loop that would overwrite something and end it
ShiftClobbers(c, p) ==
    {k \in DOMAIN MovingLocs(c, p) :
        Clobbers(c, Shifted(c, p).header.loc[MovingLocs(c, p)[k]] + 1, {"ploc"})}

(***************************************************************************)
(* vhd_add_bat_entries: header, BAT, batmap, footer.  An image without a   *)
(* batmap returns before the footer gets its new size.                     *)
(***************************************************************************)
\* mutant: the footer keeps the old size
MoreEntries_mutant(c, n) ==
    LET new == c.header.max + n IN
    [c EXCEPT !.header.max = new,
              !.bat = [b \in 0..(new - 1) |-> IF b \in DOMAIN c.bat THEN c.bat[b] ELSE Unused],
              !.bmh.size = IF c.hasmap THEN MapSecsFor(new) ELSE @]
MoreEntries(c, n) ==
    LET new == c.header.max + n IN
    [c EXCEPT !.header.max = new,
              !.bat = [b \in 0..(new - 1) |-> IF b \in DOMAIN c.bat THEN c.bat[b] ELSE Unused],
              !.bmh.size = IF c.hasmap THEN MapSecsFor(new) ELSE @,
              !.footer.curr = IF c.hasmap THEN new * SPB ELSE @]
EntriesClobber(c, n) ==
    \/ Clobbers(c, c.header.tbl + BatSecs(c.header.max + n), {"bat", "batmap"})
    \/ c.hasmap /\ Clobbers(c, c.bmh.off + MapSecsFor(c.header.max + n), {})

AddBatEntries(f, c, n) ==
    LET new == MoreEntries(c, n)
        ws == WriteHeader(new.header) \o WriteBat(new.header, new.bat) IN
    IF ~c.hasmap THEN ws
    ELSE LET ws2 == ws \o WriteBatmap(new.header, new.bmh, c.footer.curr) IN
         ws2 \o WriteFooter(new, ApplyAll(f, SelectSeq(ws2, LAMBDA w : w.t = "put")), env.isblock)

-----------------------------------------------------------------------------
\* The stages.  A stage is entered with todo empty; Do(ws, at) queues its
\* writes and names the stage that follows them.

Do(ws, at) == todo' = ws /\ pc' = at
Finish(v) == todo' = <<>> /\ pc' = "idle" /\ verdict' = v
Ready(at) == pc = at /\ todo = <<>>
Env == UNCHANGED <<env, lost, faults, crashes>>

Init ==
    /\ \E im \in Images :
        /\ file = im.file
        /\ env = [hasmap |-> im.hasmap, isblock |-> im.isblock, fast |-> im.fast]
        /\ disk = VhdView(im.file, VhdOpen(im.file, im.hasmap, FALSE, FALSE), <<>>)
    /\ ctx = VhdOpen(file, env.hasmap, FALSE, FALSE)
    /\ jrnl = NoJournal
    /\ pc = "idle" /\ todo = <<>> /\ jh = NoHeader /\ plan = NoPlan /\ goal = 0
    /\ verdict = "none" /\ lost = FALSE /\ faults = 0 /\ crashes = 0

\* vhd_util_resize up to vhd_journal_create's open of the image.  Resizing a
\* fixed image ends here: vhd_get_bat refuses it and the journal is removed.
ResizeStart(size) ==
    /\ pc = "idle" /\ verdict = "none"
    /\ ~jrnl.exists /\ ~env.fast
    /\ goal' = size
    /\ IF Opened(file) = Err \/ Opened(file).footer.type = "fixed"
       THEN Finish("failed") /\ UNCHANGED <<ctx, jrnl>>
       ELSE /\ ctx' = Opened(file)
            /\ jrnl' = NewJournal
            /\ IF FootersReadable(file)
               THEN Do(<<JHeader(FirstJHeader)>> \o AddMetadata(file, Opened(file), FirstJHeader),
                       "disable")
               ELSE Do(<<>>, "remove")
            /\ verdict' = "running"
    /\ jh' = NoHeader /\ plan' = NoPlan
    /\ UNCHANGED file /\ Env /\ Remember

\* vhd_set_virt_size_no_write: within the metadata that is there
SetVirtSize(c, size) ==
    IF size \div SPB > c.header.max THEN Err ELSE [c EXCEPT !.footer.curr = size]

\* vhd_dynamic_grow_fast: nothing but the size in the footers
FastResize(size) ==
    /\ pc = "idle" /\ verdict = "none" /\ env.fast
    /\ goal' = size
    /\ LET c == Opened(file)
           new == BlocksOf(size) * SPB
       IN \/ /\ c = Err \/ c.footer.type = "fixed" \/ new < c.footer.curr \/ SetVirtSize(c, new) = Err
             /\ Finish("failed") /\ UNCHANGED ctx
          \/ /\ c # Err /\ c.footer.type # "fixed" /\ new = c.footer.curr
             /\ Finish("resized") /\ UNCHANGED ctx
          \/ /\ c # Err /\ c.footer.type # "fixed" /\ new > c.footer.curr /\ SetVirtSize(c, new) # Err
             /\ ctx' = SetVirtSize(c, new)
             /\ Do(WriteFooter(ctx', file, env.isblock), "fast")
             /\ verdict' = "running"
    /\ UNCHANGED <<file, jrnl, jh, plan>> /\ Env /\ Remember

\* vhd_journal_disable_vhd
Disable ==
    /\ Ready("disable")
    /\ ctx' = Poison(ctx, FALSE)
    /\ Do(WriteFooter(ctx', file, env.isblock), IF goal = 0 THEN "revert" ELSE "resize")
    /\ UNCHANGED <<file, jrnl, jh, plan, goal, verdict, disk>> /\ Env

\* vhd_dynamic_resize
Resize ==
    /\ Ready("resize")
    /\ LET p == GrowPlan(ctx, goal - ctx.footer.curr) IN
       \/ goal = ctx.footer.curr /\ Do(<<>>, "commit") /\ UNCHANGED plan
       \/ goal < ctx.footer.curr /\ Do(<<>>, "revert") /\ UNCHANGED plan
       \/ /\ goal > ctx.footer.curr /\ plan' = p
          /\ Do(<<>>, IF p.enough THEN "entries" ELSE IF Allocated(ctx) = {} THEN "shift" ELSE "move")
    /\ UNCHANGED <<file, jrnl, ctx, jh, goal, verdict, disk>> /\ Env

\* one turn of the loop of vhd_dynamic_grow
Move ==
    /\ Ready("move")
    /\ LET m == MoveBlock(file, ctx, jh) IN
       /\ ctx' = m.ctx
       /\ Do(m.writes, IF plan.eom + plan.bat + plan.map >= m.ctx.bat[FirstDataBlock(m.ctx)]
                       THEN "move" ELSE "shift")
    /\ UNCHANGED <<file, jrnl, jh, plan, goal, verdict, disk>> /\ Env

Shift ==
    /\ Ready("shift")
    /\ IF ShiftClobbers(ctx, plan) # {}
       THEN /\ Do(SubSeq(ShiftWrites(file, ctx, plan), 1, Min(ShiftClobbers(ctx, plan)) - 1), "revert")
            /\ UNCHANGED ctx
       ELSE ctx' = Shifted(ctx, plan) /\ Do(ShiftWrites(file, ctx, plan), "entries")
    /\ UNCHANGED <<file, jrnl, jh, plan, goal, verdict, disk>> /\ Env

AddEntries ==
    /\ Ready("entries")
    /\ IF EntriesClobber(ctx, plan.blocks)
       THEN Do(<<>>, "revert") /\ UNCHANGED ctx
       ELSE /\ ctx' = MoreEntries(ctx, plan.blocks)
            /\ Do(AddBatEntries(file, ctx, plan.blocks), "commit")
    /\ UNCHANGED <<file, jrnl, jh, plan, goal, verdict, disk>> /\ Env

\* vhd_journal_commit
Commit ==
    /\ Ready("commit")
    /\ verdict' = "resized"
    /\ Do(<<JHeader([jh EXCEPT !.nmeta = 0, !.ndata = 0, !.doff = 0]), JTruncate>>, "remove")
    /\ UNCHANGED <<file, jrnl, ctx, jh, plan, goal, disk>> /\ Env

\* vhd_journal_remove: enable the image, unlink the journal
RemoveJournal ==
    /\ Ready("remove")
    /\ ctx' = Poison(ctx, TRUE)
    /\ Do((IF ctx.footer.enabled THEN <<>> ELSE WriteFooter(ctx', file, env.isblock)) \o <<JUnlink>>,
          "end")
    /\ UNCHANGED <<file, jrnl, jh, plan, goal, verdict, disk>> /\ Env

End ==
    /\ \/ Ready("end") /\ Finish(IF verdict = "running" THEN "failed" ELSE verdict)
       \/ Ready("fast") /\ Finish("resized")
    /\ UNCHANGED <<file, jrnl, ctx, jh, plan, goal>> /\ Env /\ Remember

\* vhd_util_revert: vhd_journal_open reads the header and restores the metadata
RevertStart ==
    /\ pc = "idle" /\ verdict # "none"
    /\ jrnl.exists
    /\ goal' = 0 /\ plan' = NoPlan /\ jh' = jrnl.hdr
    /\ IF jrnl.hdr.valid /\ JournalParses(jrnl, jrnl.hdr)
       THEN Do(RestoreMetadata(jrnl, jrnl.hdr), "reopen") /\ verdict' = "running"
       ELSE Finish("refused")
    /\ UNCHANGED <<file, jrnl, ctx>> /\ Env /\ Remember

\* vhd_open inside vhd_journal_open and inside vhd_journal_revert
Reopen ==
    /\ pc \in {"reopen", "reopen2"} /\ todo = <<>>
    /\ IF Opened(file) = Err THEN Finish("failed") /\ UNCHANGED ctx
       ELSE /\ ctx' = Opened(file)
            /\ IF pc = "reopen" THEN Do(<<>>, "disable") ELSE Do(RestoreData(jrnl, jh), "reverted")
            /\ UNCHANGED verdict
    /\ UNCHANGED <<file, jrnl, jh, plan, goal>> /\ Env /\ Remember

\* vhd_journal_revert
Revert ==
    /\ Ready("revert")
    /\ IF JournalParses(jrnl, jh)
       THEN Do(RestoreMetadata(jrnl, jh), "reopen2") /\ UNCHANGED verdict
       ELSE Finish("failed")
    /\ UNCHANGED <<file, jrnl, ctx, jh, plan, goal>> /\ Env /\ Remember

Reverted ==
    /\ Ready("reverted")
    /\ verdict' = "reverted"
    /\ Do(<<>>, "remove")
    /\ UNCHANGED <<file, jrnl, ctx, jh, plan, goal, disk>> /\ Env

\* The next write of the stage reaches its file
Fits(w) == env.isblock /\ w.t = "put" => w.off + Len(w.cells) <= Len(file)
Write ==
    /\ todo # <<>> /\ Fits(Head(todo))
    /\ LET w == Head(todo) IN
       IF w.t \in {"put", "trunc"}
       THEN file' = ApplyWrite(file, w) /\ UNCHANGED <<jrnl, jh>>
       ELSE /\ jrnl' = ApplyJournal(jrnl, w) /\ UNCHANGED file
            /\ jh' = IF w.t = "jhdr" THEN w.h ELSE jh
    /\ todo' = Tail(todo)
    /\ UNCHANGED <<pc, ctx, plan, goal, verdict, disk>> /\ Env

\* Where a failed write leads: a failed create removes its journal, a failed
\* resize reverts, anything later just ends the tool.  vhd_util_resize does not
\* look at what vhd_journal_remove returns
OnError ==
    CASE pc = "disable" /\ goal # 0 -> Do(<<>>, "remove") /\ UNCHANGED <<verdict, file>>
      [] pc = "resize" -> Do(<<>>, "remove") /\ UNCHANGED <<verdict, file>>
      [] \/ pc \in {"move", "shift", "entries"} \/ (pc = "revert" /\ goal # 0)
         \/ pc = "commit" /\ verdict = "running"
            -> Do(<<>>, "revert") /\ UNCHANGED <<verdict, file>>
      [] pc = "end" /\ verdict = "resized" -> Finish(verdict) /\ UNCHANGED file
      [] OTHER -> Finish("failed") /\ UNCHANGED file

\* vhd_journal_update fails, and cuts off what the header does not count
UpdateFails(w) == w.t = "jent" \/ (w.t = "jhdr" /\ JEnts(w.h) > JEnts(jh))

WriteError ==
    /\ todo # <<>>
    /\ Fits(Head(todo)) => faults < MaxFaults
    /\ Head(todo).t # "junlink"
    /\ faults' = IF Fits(Head(todo)) THEN faults + 1 ELSE faults
    /\ LET w == Head(todo) IN
       IF w.skip > 0
       THEN /\ todo' = SubSeq(todo, w.skip + 1, Len(todo)) /\ lost' = TRUE
            /\ UNCHANGED <<pc, verdict, file, disk, jrnl>>
       ELSE /\ jrnl' = IF UpdateFails(w) THEN [jrnl EXCEPT !.ents = SubSeq(@, 1, JEnts(jh))]
                       ELSE jrnl
            /\ OnError /\ Remember
            /\ lost' = (lost \/ (pc = "end" /\ verdict = "resized"))
    /\ UNCHANGED <<ctx, jh, plan, goal, env, crashes>>

\* The process dies: what it had in memory is gone
Crash ==
    /\ pc # "idle" /\ crashes < MaxCrashes
    /\ crashes' = crashes + 1
    /\ Finish("crashed")
    /\ ctx' = ctx /\ jh' = NoHeader /\ plan' = NoPlan
    /\ UNCHANGED <<file, jrnl, goal, env, lost, faults>> /\ Remember

Next ==
    \/ \E size \in Goals : ResizeStart(size) \/ FastResize(size)
    \/ Disable \/ Resize \/ Move \/ Shift \/ AddEntries \/ Commit \/ RemoveJournal \/ End
    \/ RevertStart \/ Reopen \/ Revert \/ Reverted
    \/ Write \/ WriteError \/ Crash

Spec == Init /\ [][Next]_vars

-----------------------------------------------------------------------------
\* Properties

Abstract == INSTANCE AtomicResize WITH Blank <- Zero, Sizes <- Goals, online <- Online

\* A resize is atomic: in whatever order writes, failures, deaths of
\* the tool and reverts come, an image that is in service again reads as it did
\* before the resize, or as before with blank sectors added up to the goal.
ResizeAtomic == Abstract!ASpec

\* When revert reports success the image is in service with its old contents
\* (vhd_journal_revert undoes all that the resize had written).
RevertRestores == [][pc = "end" /\ pc' = "idle" /\ verdict' = "reverted" => Online' /\ disk' = disk]_vars

\* When resize reports success, no error having been swallowed, the image is in
\* service with the size asked for.
ResizeDelivers ==
    pc = "idle" /\ verdict = "resized" /\ ~lost =>
        Online /\ Opened(file).footer.curr = goal

\* A tool that was interrupted can be recovered from: as long as the image is out
\* of service there is a journal that revert accepts, up to the commit.
Committed(h) == h.valid /\ h.nmeta = 0
Recoverable ==
    pc = "idle" /\ ~Online /\ ~Committed(jrnl.hdr) /\ ~lost =>
        jrnl.exists /\ JournalParses(jrnl, jrnl.hdr)

\* The resize, its deaths and its reverts implement AtomicResize, and a revert
\* that reports success is the step that brings the old image back.
ResizeImplements == ResizeAtomic /\ RevertRestores
=============================================================================
