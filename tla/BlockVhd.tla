------------------------------ MODULE BlockVhd ------------------------------
(***************************************************************************)
(* The asynchronous VHD driver of tapdisk (drivers/block-vhd.c): the block *)
(* allocation table (BAT), the per-block sector bitmaps and their cache,   *)
(* the transactions that order data, bitmap and BAT writes, failed I/O,    *)
(* orderly close and crash.                                                *)
(*                                                                         *)
(* "vhd" is struct vhd_state; the operators that take a parameter s are    *)
(* the C functions that take a struct vhd_state and return what they leave *)
(* in it.  "disk" is the image file.  Client requests are one sector long: *)
(* vhd_queue_read/write first cut longer ones into pieces whose sectors    *)
(* have the same bitmap state, and each piece then goes its own way.       *)
(***************************************************************************)
EXTENDS Integers, FiniteSets

CONSTANTS
  NBlocks,      \* number of BAT entries
  SPB,          \* sectors per block (s->spb)
  BatPerSec,    \* BAT entries in one sector of the table (128)
  NSlots,       \* data blocks that fit in the file (next_db <= UINT_MAX)
  CacheSize,    \* VHD_CACHE_SIZE
  VReqs,        \* VHD_REQS_DATA
  Reqs,         \* client requests; a write stores its own identity
  Parent,       \* what the parent image holds
  Junk,         \* what an unwritten part of the file holds
  Modes,        \* values of VHD_FLAG_OPEN_PREALLOCATE (not NFS and not LVM)
  ClientSecs,   \* sectors the clients use
  ClientOps,    \* operations the clients use: "read", "write", "status"
  FailOps,      \* I/O that may fail without reaching the file
  TornOps,      \* I/O that may fail after it has reached the file
  Crashes       \* how often the process may die or be closed

\* Asynchronous I/O, and the synchronous write of allocate_block.
AioOps == {"data_read", "data_write", "bitmap_read", "bitmap_write",
           "zero_bm", "redundant_bm", "bat"}
Ops    == AioOps \cup {"sync"}

ASSUME ConstantsAssumption ==
  /\ NBlocks \in Nat \ {0}
  /\ SPB \in Nat \ {0}
  /\ BatPerSec \in Nat \ {0}
  /\ NSlots \in Nat
  /\ CacheSize \in Nat
  /\ VReqs \in Nat
  /\ Crashes \in Nat
  /\ Modes \subseteq BOOLEAN
  /\ ClientOps \subseteq {"read", "write", "status"}
  /\ ClientSecs \subseteq 0 .. NBlocks * SPB - 1
  /\ FailOps \subseteq Ops
  /\ TornOps \subseteq Ops
  /\ IsFiniteSet(Reqs)
  /\ Parent \notin Reqs
  /\ Junk \notin Reqs
  /\ Parent # Junk
  /\ Reqs \cap {"zero_req", "bat_req", "bm_req"} = {}

Blocks  == 0 .. NBlocks - 1
Secs    == 0 .. SPB - 1
Sectors == 0 .. NBlocks * SPB - 1
Slots   == 0 .. NSlots - 1
Values  == Reqs \cup {Parent, Junk}

DD_BLK_UNUSED == -1
Entries       == Slots \cup {DD_BLK_UNUSED}
Errors        == {"ok", "EIO", "EBUSY", "ENOSPC"}

\* The bitmap remove_lru_bitmap picked: a block, an unused bitmap, or none.
FREE_BITMAP == -1
NO_BITMAP   == -2

\* Transaction members besides client writes.
zero_req == "zero_req"
bat_req  == "bat_req"
bm_req   == "bm_req"
MetaReqs == {zero_req, bat_req, bm_req}

VARIABLES
  vhd,     \* struct vhd_state
  disk,    \* the image file: bat, map and data of each slot, batmap
  cand,    \* history: the values each sector may hold (see Submitted)
  bound,   \* history: per request, values a write supersedes or a read may see
  crashes  \* number of crashes and closes so far

vars == <<vhd, disk, cand, bound, crashes>>

-----------------------------------------------------------------------------
(* struct vhd_transaction, vhd_bitmap, vhd_request, tiocb, vhd_state.       *)

init_tx == [err |-> "ok", closed |-> FALSE, started |-> 0, finished |-> 0,
            live |-> FALSE, upd |-> FALSE, reqs |-> {}]

init_vhd_bitmap == [locked |-> FALSE, rd |-> FALSE, wr |-> FALSE,
                    map |-> {}, shadow |-> {},
                    tx |-> init_tx, queue |-> {}, waiting |-> {}]

init_vhd_request == [st |-> "free", op |-> "read", sec |-> 0,
                     err |-> "ok", val |-> Junk]

Tx == [err : Errors, closed : BOOLEAN, started : Nat, finished : Nat,
       live : BOOLEAN, upd : BOOLEAN, reqs : SUBSET (Reqs \cup MetaReqs)]

Bitmap == [locked : BOOLEAN, rd : BOOLEAN, wr : BOOLEAN,
           map : SUBSET Secs, shadow : SUBSET Secs,
           tx : Tx, queue : SUBSET Reqs, waiting : SUBSET Reqs]

(* free: never submitted; waiting: for a bitmap read; io: in the aio layer; *)
(* finished: its I/O is over, its transaction is not; done: signalled.      *)
Request == [st : {"free", "waiting", "io", "finished", "done"},
            op : {"read", "write", "status"}, sec : Sectors,
            err : Errors, val : Values]

(* Data I/O and redundant bitmap writes carry a client request.             *)
Tiocb == {io \in [op : AioOps, blk : Blocks, req : Reqs \cup MetaReqs,
                  slot : Entries, landed : BOOLEAN] :
            io.op \in {"data_read", "data_write", "redundant_bm"} => io.req \in Reqs}

VhdState ==
  [up : BOOLEAN, prealloc : BOOLEAN,            \* s->flags
   bat : [Blocks -> Entries], batmap : SUBSET Blocks, next_db : Nat,
   locked : BOOLEAN, started : BOOLEAN,          \* bat.status
   pbw_blk : Blocks, pbw_offset : Entries,
   bat_err : Errors, bat_tx : BOOLEAN,           \* bat.req.error, bat.req.tx
   bat_buf : [Blocks -> Entries],
   cached : SUBSET Blocks, mru : Blocks \cup {FREE_BITMAP},
   bm : [Blocks -> Bitmap],
   req : [Reqs -> Request], vfree : Int,         \* vreq_free_count
   aio : SUBSET Tiocb]

DiskState == [bat : [Blocks -> Entries], batmap : SUBSET Blocks,
              map : [Slots -> SUBSET Secs], data : [Slots -> [Secs -> Values]]]

with_req(s, r, q) == [s EXCEPT !.req[r] = q]
with_bm(s, b, m)  == [s EXCEPT !.bm[b] = m]
with_tx(s, b, tx) == with_bm(s, b, [s.bm[b] EXCEPT !.tx = tx])

blk_of(sec) == sec \div SPB
sec_of(sec) == sec % SPB

-----------------------------------------------------------------------------
(* Flags, locks and the bitmap cache.                                       *)

transaction_completed(tx) == tx.started = tx.finished

bitmap_in_use(m) ==
  m.rd \/ m.wr \/ m.tx.upd \/ m.waiting # {} \/ m.tx.reqs # {} \/ m.queue # {}

init_bat(s) == [s EXCEPT !.locked = FALSE, !.started = FALSE, !.pbw_blk = 0,
                         !.pbw_offset = DD_BLK_UNUSED, !.bat_err = "ok", !.bat_tx = FALSE]

lock_bitmap(s, b) == with_bm(s, b, [s.bm[b] EXCEPT !.locked = TRUE])

(* The closing "if (!bitmap_in_use(bm)) unlock_bitmap(bm)" of the handlers. *)
unlock_if_unused(s, b) ==
  with_bm(s, b, [s.bm[b] EXCEPT !.locked = @ /\ bitmap_in_use(s.bm[b])])

touch_bitmap(s, b) == [s EXCEPT !.mru = b]

(* remove_lru_bitmap takes the unlocked bitmap with the smallest sequence   *)
(* number below bm_lru; which one that is is left open, except that it is   *)
(* never the bitmap touched last, whose number is bm_lru itself.            *)
remove_lru_bitmap(s) == {b \in s.cached : ~s.bm[b].locked /\ b # s.mru}

Victims(s) == IF Cardinality(s.cached) < CacheSize THEN {FREE_BITMAP}
              ELSE IF remove_lru_bitmap(s) = {} THEN {NO_BITMAP}
              ELSE remove_lru_bitmap(s)

(* alloc_vhd_bitmap, with v from Victims, followed by install_bitmap.       *)
install_bitmap(s, b, v) ==
  [s EXCEPT !.cached = (@ \ {v}) \cup {b}, !.mru = b,
            !.bm = [x \in Blocks |-> IF x \in {b, v} THEN init_vhd_bitmap
                                     ELSE s.bm[x]]]

free_vhd_bitmap(s, b) ==
  [s EXCEPT !.cached = @ \ {b}, !.bm[b] = init_vhd_bitmap,
            !.mru = IF @ = b THEN FREE_BITMAP ELSE @]

read_bitmap_cache(s, b, k, op) ==
  CASE s.bat[b] = DD_BLK_UNUSED ->
         IF op = "write" /\ s.pbw_blk # b /\ s.locked
         THEN "bat_locked" ELSE "bat_clear"
    [] s.bat[b] # DD_BLK_UNUSED /\ b \in s.batmap -> "bit_set"
    [] s.bat[b] # DD_BLK_UNUSED /\ b \notin s.batmap /\ b \notin s.cached ->
         "not_cached"
    [] OTHER -> IF s.bm[b].rd THEN "read_pending"
                ELSE IF k \in s.bm[b].map THEN "bit_set" ELSE "bit_clear"

(* The bump of the lru number on the way through read_bitmap_cache.         *)
cache_hit(s, b) == s.bat[b] # DD_BLK_UNUSED /\ b \notin s.batmap /\ b \in s.cached
bump(s, b)      == IF cache_hit(s, b) THEN touch_bitmap(s, b) ELSE s

joined(tx, R)   == [tx EXCEPT !.started = @ + Cardinality(R), !.live = TRUE,
                              !.reqs = @ \cup R]
finished(tx, R) == [tx EXCEPT !.finished = @ + 1, !.reqs = @ \ R]
failed(tx, e)   == [tx EXCEPT !.err = IF @ # "ok" THEN @ ELSE e]

add_to_transaction(s, b, r) == with_tx(s, b, joined(s.bm[b].tx, {r}))

queue_tiocb(s, op, b, r, slot) ==
  [s EXCEPT !.aio = @ \cup {[op |-> op, blk |-> b, req |-> r, slot |-> slot,
                             landed |-> FALSE]}]

td_complete_request(s, r, e) ==
  with_req(s, r, [s.req[r] EXCEPT !.st = "done", !.err = e])

(* td_forward_request: the parent image answers.                            *)
td_forward_request(s, r) ==
  with_req(s, r, [s.req[r] EXCEPT !.st = "done", !.err = "ok", !.val = Parent])

-----------------------------------------------------------------------------
(* Scheduling I/O.  An operator that can fail returns [s, err, zero]: the   *)
(* state, the error and the slots it zeroed with a synchronous write.       *)

(* A vhd_request is taken from the free list for r, or given back.          *)
alloc_vhd_request(s, r, st) ==
  [with_req(s, r, [s.req[r] EXCEPT !.st = st]) EXCEPT !.vfree = @ - 1]
free_vhd_request(s) == [s EXCEPT !.vfree = @ + 1]

Result(s, e, z) == [s |-> s, err |-> e, zero |-> z]

bat_sector_mutant(s) == [b \in Blocks |-> IF b = s.pbw_blk THEN s.pbw_offset
                                          ELSE DD_BLK_UNUSED]
bat_sector(s)        == [s.bat EXCEPT ![s.pbw_blk] = s.pbw_offset]

schedule_bat_write(s) ==
  queue_tiocb([s EXCEPT !.started = TRUE, !.bat_err = "ok", !.bat_tx = FALSE,
                        !.bat_buf = bat_sector(s)],
              "bat", s.pbw_blk, bat_req, s.pbw_offset)

(* reserve_new_block and schedule_zero_bm_write, BAT lock held.             *)
reserve_and_zero(s, b) ==
  queue_tiocb(add_to_transaction(lock_bitmap(
      [s EXCEPT !.locked = TRUE, !.pbw_blk = b, !.pbw_offset = s.next_db],
      b), b, zero_req), "zero_bm", b, zero_req, s.next_db)

(* "Mutant" definitions state a plausible slip in the definition after them; *)
(* no specification uses them.                                              *)
file_full_mutant(s) == s.next_db > NSlots
file_full(s)        == s.next_db >= NSlots

tx_update_bat(s, b) == with_tx(s, b, [s.bm[b].tx EXCEPT !.upd = TRUE])

update_bat(s, b, v) ==
  LET c == IF b \in s.cached THEN s ELSE install_bitmap(s, b, v)
  IN  CASE s.locked -> Result(s, "ok", {})
        [] ~s.locked /\ b \notin s.cached /\ v = NO_BITMAP -> Result(s, "EBUSY", {})
        [] OTHER -> IF file_full(s) THEN Result(c, "ENOSPC", {})
                    ELSE Result(tx_update_bat(reserve_and_zero(c, b), b), "ok", {})

(* w is the outcome of the synchronous write of zeros.                      *)
allocate_block(s, b, v, w) ==
  LET p == [s EXCEPT !.pbw_blk = b, !.pbw_offset = s.next_db]
      c == IF b \in s.cached THEN p ELSE install_bitmap(p, b, v)
  IN  CASE s.locked -> Result(s, IF s.bat_err # "ok" THEN "EBUSY" ELSE "ok", {})
        [] ~s.locked /\ file_full(s) -> Result(s, "ENOSPC", {})
        [] ~s.locked /\ ~file_full(s) /\ w # "ok" -> Result(p, w, {})
        [] OTHER -> IF b \notin s.cached /\ v = NO_BITMAP
                    THEN Result(p, "EBUSY", {s.next_db})
                    ELSE Result(add_to_transaction(schedule_bat_write(
                                  lock_bitmap([c EXCEPT !.locked = TRUE], b)),
                                  b, bat_req), "ok", {s.next_db})

(* Takes a request from the free list only if there is one.                 *)
schedule_redundant_bm_write(s, b, r) ==
  IF s.vfree = 0 THEN s
  ELSE queue_tiocb([s EXCEPT !.vfree = @ - 1], "redundant_bm", b, r, s.bat[b])

schedule_data_read(s, r) ==
  LET b == blk_of(s.req[r].sec)
  IN  IF s.vfree = 0 THEN td_complete_request(s, r, "EBUSY")
      ELSE queue_tiocb(alloc_vhd_request(s, r, "io"), "data_read", b, r, s.bat[b])

(* Joining the bitmap's transaction, or its queue once that is closed.      *)
join_transaction_mutant(s, b, r) ==
  IF s.bm[b].tx.closed THEN with_bm(s, b, [s.bm[b] EXCEPT !.queue = @ \cup {r}])
  ELSE add_to_transaction(s, b, r)
join_transaction(s, b, r) ==
  IF s.bm[b].tx.closed
  THEN with_bm(s, b, [s.bm[b] EXCEPT !.locked = TRUE, !.queue = @ \cup {r}])
  ELSE add_to_transaction(lock_bitmap(s, b), b, r)

(* The "fail" label of schedule_data_write.                                 *)
refuse_mutant(s, r, e) == td_complete_request(s, r, e)
refuse(s, r, e)        == free_vhd_request(td_complete_request(s, r, e))

schedule_data_write(s, r, upd_bat, upd_bm, v, w) ==
  LET b == blk_of(s.req[r].sec)
      a == alloc_vhd_request(s, r, "io")
      n == IF ~upd_bat THEN Result(a, "ok", {})
           ELSE IF s.prealloc THEN allocate_block(a, b, v, w)
           ELSE update_bat(a, b, v)
      slot == IF upd_bat THEN n.s.pbw_offset ELSE s.bat[b]
      j == IF upd_bm THEN join_transaction(n.s, b, r)
           ELSE IF sec_of(s.req[r].sec) = 0 /\ s.bat[b] # 0 /\ b \in s.batmap
                THEN schedule_redundant_bm_write(n.s, b, r)
                ELSE n.s
  IN  CASE s.vfree = 0 -> Result(td_complete_request(s, r, "EBUSY"), "EBUSY", {})
        [] s.vfree # 0 /\ n.err # "ok" ->
             Result(refuse(n.s, r, n.err), n.err, n.zero)
        [] OTHER -> Result(queue_tiocb(j, "data_write", b, r, slot), "ok", n.zero)

__vhd_queue_request(s, b, r) ==
  IF s.vfree = 0 THEN td_complete_request(s, r, "EBUSY")
  ELSE alloc_vhd_request(
         with_bm(s, b, [s.bm[b] EXCEPT !.locked = TRUE, !.waiting = @ \cup {r}]),
         r, "waiting")

schedule_bitmap_read(s, b, v) ==
  queue_tiocb(with_bm(install_bitmap(s, b, v), b,
                      [init_vhd_bitmap EXCEPT !.locked = TRUE, !.rd = TRUE]),
              "bitmap_read", b, bm_req, s.bat[b])

read_and_wait(s, b, r, v) ==
  IF v = NO_BITMAP THEN td_complete_request(s, r, "EBUSY")
  ELSE __vhd_queue_request(schedule_bitmap_read(s, b, v), b, r)

-----------------------------------------------------------------------------
(* The driver's entry points, for the one-sector request r.                 *)

vhd_queue_read(s, r, v) ==
  LET b == blk_of(s.req[r].sec)
      c == read_bitmap_cache(s, b, sec_of(s.req[r].sec), "read")
      t == bump(s, b)
  IN  CASE c \in {"bat_clear", "bit_clear"} -> td_forward_request(t, r)
        [] c = "bit_set"      -> schedule_data_read(t, r)
        [] c = "not_cached"   -> read_and_wait(t, b, r, v)
        [] c = "read_pending" -> __vhd_queue_request(t, b, r)

vhd_queue_write(s, r, v, w) ==
  LET b == blk_of(s.req[r].sec)
      c == read_bitmap_cache(s, b, sec_of(s.req[r].sec), "write")
      t == bump(s, b)
  IN  CASE c = "bat_locked"   -> Result(td_complete_request(t, r, "EBUSY"), "EBUSY", {})
        [] c = "bat_clear"    -> schedule_data_write(t, r, TRUE, TRUE, v, w)
        [] c = "bit_clear"    -> schedule_data_write(t, r, FALSE, TRUE, v, w)
        [] c = "bit_set"      -> schedule_data_write(t, r, FALSE, FALSE, v, w)
        [] c = "not_cached"   -> Result(read_and_wait(t, b, r, v), "ok", {})
        [] c = "read_pending" -> Result(__vhd_queue_request(t, b, r), "ok", {})

vhd_queue_block_status(s, r) ==
  LET b == blk_of(s.req[r].sec)
      c == read_bitmap_cache(s, b, sec_of(s.req[r].sec), "status")
      t == bump(s, b)
  IN  CASE c \in {"bat_clear", "bit_clear"}    -> td_forward_request(t, r)
        [] c \in {"bit_set", "not_cached"}     -> td_complete_request(t, r, "ok")
        [] c = "read_pending"                  -> __vhd_queue_request(t, b, r)

-----------------------------------------------------------------------------
(* Transactions.                                                            *)

signal_completion(s, R, e) ==
  [s EXCEPT !.vfree = @ + Cardinality(R),
            !.req = [r \in Reqs |->
              IF r \in R
              THEN [s.req[r] EXCEPT !.st = "done", !.err = IF e # "ok" THEN e ELSE @]
              ELSE s.req[r]]]

(* schedule_bitmap_write, once it has found map and shadow to differ.       *)
schedule_bitmap_write(s, b) ==
  queue_tiocb(touch_bitmap(with_bm(s, b, [s.bm[b] EXCEPT !.locked = TRUE, !.wr = TRUE]),
                           b), "bitmap_write", b, bm_req,
              IF s.bat[b] = DD_BLK_UNUSED THEN s.pbw_offset ELSE s.bat[b])

bitmap_write_needed(s, b) ==
  s.bm[b].tx.err = "ok" /\ s.bm[b].map # s.bm[b].shadow

close_tx(s, b) == with_tx(s, b, [s.bm[b].tx EXCEPT !.closed = TRUE])

(* Committing or undoing the shadow, signalling, and a fresh transaction.   *)
bitmap_full(map)        == map = Secs

commit_or_undo_mutant(s, b) ==
  LET m == s.bm[b]
  IN  IF m.tx.err # "ok" THEN with_bm(s, b, [m EXCEPT !.shadow = m.map]) ELSE s
commit_or_undo(s, b) ==
  LET m == s.bm[b]
  IN  IF m.tx.err # "ok" THEN with_bm(s, b, [m EXCEPT !.shadow = m.map])
      ELSE [with_bm(s, b, [m EXCEPT !.map = m.shadow]) EXCEPT
              !.batmap = IF bitmap_full(m.shadow) THEN @ \cup {b} ELSE @]

end_transaction(s, b) ==
  LET tx == s.bm[b].tx
  IN  with_tx(signal_completion(commit_or_undo(s, b), tx.reqs \cap Reqs, tx.err),
              b, init_tx)

finish_bat_transaction(s, b) ==
  IF ~s.locked \/ s.pbw_blk # b THEN s
  ELSE IF s.bat_err # "ok" /\ s.bm[b].tx.live THEN close_tx(s, b) ELSE init_bat(s)

(* The last two calls of finish_bitmap_transaction.                         *)
release_mutant(s, b) == unlock_if_unused(s, b)
release(s, b)        == finish_bat_transaction(unlock_if_unused(s, b), b)

promote_queue_mutant(s, b) ==
  LET m == s.bm[b]
  IN  with_bm(s, b, [m EXCEPT !.tx = joined(@, m.queue), !.queue = {}])
promote_queue(s, b) ==
  LET m   == s.bm[b]
      fin == {r \in m.queue : s.req[r].st = "finished"}
      ok  == {r \in fin : s.req[r].err = "ok"}
      tx  == [joined(m.tx, m.queue) EXCEPT
                !.err = IF s.bat[b] = DD_BLK_UNUSED THEN "EIO" ELSE @,
                !.finished = @ + Cardinality(fin)]
  IN  with_bm(s, b, [m EXCEPT !.tx = tx, !.queue = {},
                        !.shadow = @ \cup {sec_of(s.req[r].sec) : r \in ok}])

(* start_new_bitmap_transaction calls finish_data_transaction, which may    *)
(* come back here through finish_bitmap_transaction: by then the queue is   *)
(* empty and TX_UPDATE_BAT is clear, so the nested call is end_transaction  *)
(* followed by release.                                                     *)
start_new_bitmap_transaction_mutant(s, b) ==
  IF s.bm[b].queue = {} THEN s ELSE promote_queue(s, b)
start_new_bitmap_transaction(s, b) ==
  LET p == promote_queue(s, b)
      c == close_tx(p, b)
  IN  IF s.bm[b].queue = {} THEN s
      ELSE IF ~transaction_completed(p.bm[b].tx) THEN p
      ELSE IF bitmap_write_needed(c, b) THEN schedule_bitmap_write(c, b)
      ELSE release(end_transaction(c, b), b)

finish_bitmap_transaction_mutant(s, b, e) ==
  LET t == with_tx(s, b, failed(s.bm[b].tx, e))
  IN  release(start_new_bitmap_transaction(end_transaction(t, b), b), b)
finish_bitmap_transaction(s, b, e) ==
  LET t == with_tx(s, b, failed(s.bm[b].tx, e))
  IN  IF ~t.prealloc /\ t.bm[b].tx.upd THEN [t EXCEPT !.bat_tx = TRUE]
      ELSE release(start_new_bitmap_transaction(end_transaction(t, b), b), b)

finish_data_transaction(s, b) ==
  LET c == close_tx(s, b)
  IN  IF bitmap_write_needed(c, b) THEN schedule_bitmap_write(c, b)
      ELSE finish_bitmap_transaction(c, b, "ok")

finish_if_completed(s, b) ==
  IF transaction_completed(s.bm[b].tx) THEN finish_data_transaction(s, b) ELSE s

-----------------------------------------------------------------------------
(* vhd_complete: the handlers of finished I/O, e being its error.           *)

finish_bat_write(s, e) ==
  LET b == s.pbw_blk
      t == IF e = "ok"
           THEN [s EXCEPT !.bat_err = e, !.bat[b] = s.pbw_offset,
                          !.next_db = s.pbw_offset + 1]
           ELSE with_tx([s EXCEPT !.bat_err = e], b, [s.bm[b].tx EXCEPT !.err = e])
      p == finish_if_completed(with_tx(t, b, finished(t.bm[b].tx, {bat_req})), b)
      u == with_tx(t, b, [t.bm[b].tx EXCEPT !.upd = FALSE])
      n == IF u.bat_tx THEN finish_bitmap_transaction(u, b, e) ELSE u
  IN  finish_bat_transaction(IF s.prealloc THEN p ELSE n, b)

finish_zero_bm_write(s, b, e) ==
  LET tx == finished(s.bm[b].tx, {zero_req})
  IN  finish_if_completed(
        IF e = "ok" THEN schedule_bat_write(with_tx(s, b, tx))
        ELSE with_tx(init_bat(s), b, [tx EXCEPT !.err = e, !.upd = FALSE]), b)

finish_redundant_bm_write(s) == free_vhd_request(s)

(* The waiting requests go through vhd_queue_read and vhd_queue_write again *)
(* with the bitmap valid; each finds the request it has just given back.    *)
requeued_io(s, b, r) ==
  [op |-> IF s.req[r].op = "read" THEN "data_read" ELSE "data_write",
   blk |-> b, req |-> r, slot |-> s.bat[b], landed |-> FALSE]

requeue(s, b, R) ==
  LET clear == {r \in R : sec_of(s.req[r].sec) \notin s.bm[b].map}
      fwd   == {r \in clear : s.req[r].op = "read"}
      upd   == {r \in clear : s.req[r].op = "write"}
      t     == IF upd = {} THEN s ELSE with_tx(s, b, joined(s.bm[b].tx, upd))
  IN  [t EXCEPT
         !.vfree = @ + Cardinality(fwd),
         !.mru   = IF R = {} THEN @ ELSE b,
         !.req   = [r \in Reqs |->
            IF r \in fwd THEN [s.req[r] EXCEPT !.st = "done", !.val = Parent]
            ELSE IF r \in R THEN [s.req[r] EXCEPT !.st = "io"] ELSE s.req[r]],
         !.aio   = @ \cup {requeued_io(s, b, r) : r \in R \ fwd}]

finish_bitmap_read(s, b, e) ==
  LET R == s.bm[b].waiting
      t == with_bm(s, b, [s.bm[b] EXCEPT !.waiting = {}, !.rd = FALSE, !.shadow = s.bm[b].map])
  IN  IF e = "ok" THEN unlock_if_unused(requeue(t, b, R), b)
      ELSE signal_completion(free_vhd_bitmap(s, b), R, e)

finish_bitmap_write(s, b, e) ==
  finish_bitmap_transaction(with_bm(s, b, [s.bm[b] EXCEPT !.wr = FALSE]), b, e)

finish_data_read(s, r, e) == signal_completion(s, {r}, e)

finish_data_write(s, r, e) ==
  LET b == blk_of(s.req[r].sec)
      t == with_req(s, r, [s.req[r] EXCEPT !.st = "finished", !.err = e])
      u == with_bm(t, b, [t.bm[b] EXCEPT
              !.tx = finished(@, {}),
              !.shadow = IF e = "ok" THEN @ \cup {sec_of(s.req[r].sec)} ELSE @])
  IN  IF r \in s.bm[b].tx.reqs THEN finish_if_completed(u, b)
      ELSE IF r \in s.bm[b].queue THEN t
      ELSE signal_completion(t, {r}, "ok")

vhd_complete(s, io, e) ==
  CASE io.op = "data_read"    -> finish_data_read(s, io.req, e)
    [] io.op = "data_write"   -> finish_data_write(s, io.req, e)
    [] io.op = "bitmap_read"  -> finish_bitmap_read(s, io.blk, e)
    [] io.op = "bitmap_write" -> finish_bitmap_write(s, io.blk, e)
    [] io.op = "zero_bm"      -> finish_zero_bm_write(s, io.blk, e)
    [] io.op = "redundant_bm" -> finish_redundant_bm_write(s)
    [] io.op = "bat"          -> finish_bat_write(s, e)

-----------------------------------------------------------------------------
(* Opening, closing and the image file.                                     *)

(* One past the highest slot in use: the slots not above some BAT entry.    *)
find_next_free_block(bat) ==
  Cardinality({n \in Slots : \E b \in Blocks : bat[b] >= n})

vhd_initialize(prealloc, bat, batmap, req) ==
  [up |-> TRUE, prealloc |-> prealloc, bat |-> bat, batmap |-> batmap,
   next_db |-> find_next_free_block(bat),
   locked |-> FALSE, started |-> FALSE, pbw_blk |-> 0,
   pbw_offset |-> DD_BLK_UNUSED, bat_err |-> "ok", bat_tx |-> FALSE,
   bat_buf |-> bat, cached |-> {}, mru |-> FREE_BITMAP,
   bm |-> [b \in Blocks |-> init_vhd_bitmap],
   req |-> req, vfree |-> VReqs, aio |-> {}]

(* What an I/O that reaches the file leaves there.  Buffers are passed by   *)
(* reference: a bitmap write stores the shadow of that moment.              *)
SameBatSector(b, c) == b \div BatPerSec = c \div BatPerSec

written(d, s, io) ==
  CASE io.op = "data_write" ->
         [d EXCEPT !.data[io.slot][sec_of(s.req[io.req].sec)] = io.req]
    [] io.op = "bitmap_write" -> [d EXCEPT !.map[io.slot] = s.bm[io.blk].shadow]
    [] io.op = "zero_bm"      -> [d EXCEPT !.map[io.slot] = {}]
    [] io.op = "redundant_bm" -> [d EXCEPT !.map[io.slot] = Secs]
    [] io.op = "bat" ->
         [d EXCEPT !.bat = [b \in Blocks |-> IF SameBatSector(b, io.blk)
                                             THEN s.bat_buf[b] ELSE d.bat[b]]]
    [] OTHER -> d

(* What an I/O that reads the file leaves in memory.  Outside the data      *)
(* blocks there is nothing a client or a bitmap may hold.                   *)
data_at(d, slot, k) == IF slot \in Slots THEN d.data[slot][k] ELSE Junk
map_at(d, slot)     == IF slot \in Slots THEN d.map[slot] ELSE {}

fetched(d, s, io) ==
  CASE io.op = "data_read" ->
         with_req(s, io.req, [s.req[io.req] EXCEPT
                                !.val = data_at(d, io.slot, sec_of(s.req[io.req].sec))])
    [] io.op = "bitmap_read" ->
         with_bm(s, io.blk, [s.bm[io.blk] EXCEPT !.map = map_at(d, io.slot)])
    [] OTHER -> s

(* allocate_block zeroes a slot before anything else happens to it.         *)
zeroed(d, Z) ==
  [d EXCEPT !.map  = [x \in Slots |-> IF x \in Z THEN {} ELSE d.map[x]],
            !.data = [x \in Slots |-> IF x \in Z THEN [k \in Secs |-> Junk]
                                      ELSE d.data[x]]]

-----------------------------------------------------------------------------
(* History.  cand[x] holds the values sector x may legitimately have: a     *)
(* write adds its value when submitted and, when it succeeds, removes the   *)
(* values that were settled before it was submitted; a write refused at     *)
(* once adds nothing.  A read may return what its sector could hold at any  *)
(* moment since it was submitted.                                           *)

outstanding(s) == {r \in Reqs : s.req[r].st \in {"waiting", "io", "finished"}}

Settled(x) == {v \in cand[x] : v \notin outstanding(vhd)}

ReadsOf(x) == {q \in outstanding(vhd) : vhd.req[q].op = "read" /\ vhd.req[q].sec = x}

Submitted(r, op, x) ==
  LET adds == op = "write" /\ vhd'.req[r].st # "done"   \* not refused
  IN  /\ cand' = [cand EXCEPT ![x] = IF adds THEN @ \cup {r} ELSE @]
      /\ bound' = [q \in Reqs |->
            IF q = r THEN IF op = "write" THEN Settled(x) ELSE cand[x]
            ELSE IF adds /\ q \in ReadsOf(x) THEN bound[q] \cup {r} ELSE bound[q]]

Acked(s) == {r \in Reqs : /\ s.req[r].op = "write" /\ s.req[r].err = "ok"
                          /\ s.req[r].st = "done" /\ vhd.req[r].st # "done"}

Superseded(s, x) == UNION {bound[r] : r \in {q \in Acked(s) : s.req[q].sec = x}}

Signalled(s) ==
  /\ cand' = [x \in Sectors |-> cand[x] \ Superseded(s, x)]
  /\ bound' = bound

-----------------------------------------------------------------------------
(* A client submits a request, or submits again one that came back EBUSY.   *)

MaySubmit(r, op, x) ==
  \/ vhd.req[r].st = "free" /\ op \in ClientOps
  \/ /\ vhd.req[r].st = "done" /\ vhd.req[r].err = "EBUSY"
     /\ op = vhd.req[r].op /\ x = vhd.req[r].sec

with_request(r, op, x) ==
  with_req(vhd, r, [init_vhd_request EXCEPT !.op = op, !.sec = x])

QueueRead(r, x) ==
  /\ vhd.up /\ MaySubmit(r, "read", x)
  /\ \E v \in Victims(vhd) : vhd' = vhd_queue_read(with_request(r, "read", x), r, v)
  /\ Submitted(r, "read", x)
  /\ UNCHANGED <<disk, crashes>>

QueueWrite(r, x) ==
  /\ vhd.up /\ MaySubmit(r, "write", x)
  /\ \E v \in Victims(vhd), w \in {"ok"} \cup {e \in {"EIO"} : "sync" \in FailOps} :
       LET q == vhd_queue_write(with_request(r, "write", x), r, v, w)
       IN  vhd' = q.s /\ disk' = zeroed(disk, q.zero)
  /\ Submitted(r, "write", x)
  /\ UNCHANGED crashes

QueueStatus(r, x) ==
  /\ vhd.up /\ MaySubmit(r, "status", x)
  /\ vhd' = vhd_queue_block_status(with_request(r, "status", x), r)
  /\ Submitted(r, "status", x)
  /\ UNCHANGED <<disk, crashes>>

(* The I/O reaches the file, in any order.                                  *)
Land(io) ==
  /\ ~io.landed
  /\ disk' = written(disk, vhd, io)
  /\ vhd' = [fetched(disk, vhd, io) EXCEPT
                !.aio = (@ \ {io}) \cup {[io EXCEPT !.landed = TRUE]}]
  /\ UNCHANGED <<cand, bound, crashes>>

Outcomes(io) ==
  {e \in {"ok", "EIO"} :
     \/ e = "ok" /\ io.landed
     \/ e = "EIO" /\ ~io.landed /\ io.op \in FailOps
     \/ e = "EIO" /\ io.landed /\ io.op \in TornOps}

(* ASSERT(tmp.op == VHD_OP_DATA_READ || tmp.op == VHD_OP_DATA_WRITE)        *)
waiters_requeuable(s, b) == \A r \in s.bm[b].waiting : s.req[r].op # "status"

Complete(io) ==
  /\ \E e \in Outcomes(io) :
       /\ io.op = "bitmap_read" /\ e = "ok" => waiters_requeuable(vhd, io.blk)
       /\ vhd' = vhd_complete([vhd EXCEPT !.aio = @ \ {io}], io, e)
  /\ Signalled(vhd')
  /\ UNCHANGED <<disk, crashes>>

(* The process is gone: whoever waits for an answer gets none.              *)
unanswered(s) == [r \in Reqs |-> IF r \in outstanding(s)
                                 THEN [s.req[r] EXCEPT !.st = "done", !.err = "EIO"]
                                 ELSE s.req[r]]

Die ==
  /\ vhd' = [vhd_initialize(vhd.prealloc, [b \in Blocks |-> DD_BLK_UNUSED], {},
                             unanswered(vhd)) EXCEPT !.up = FALSE]
  /\ crashes' = crashes + 1

Crash ==
  /\ vhd.up /\ crashes < Crashes /\ Die
  /\ UNCHANGED <<disk, cand, bound>>

(* The assertion of finish_bitmap_read fails.                               *)
Abort(io) ==
  /\ io.op = "bitmap_read" /\ "ok" \in Outcomes(io)
  /\ ~waiters_requeuable(vhd, io.blk) /\ Die
  /\ UNCHANGED <<disk, cand, bound>>

(* tapdisk closes an image once nothing is outstanding.                     *)
Close ==
  /\ vhd.up /\ crashes < Crashes /\ vhd.aio = {} /\ outstanding(vhd) = {}
  /\ disk' = [disk EXCEPT !.batmap = vhd.batmap]
  /\ Die
  /\ UNCHANGED <<cand, bound>>

Open ==
  /\ ~vhd.up
  /\ vhd' = vhd_initialize(vhd.prealloc, disk.bat, disk.batmap, vhd.req)
  /\ UNCHANGED <<disk, cand, bound, crashes>>

Init ==
  /\ \E p \in Modes :
       vhd = vhd_initialize(p, [b \in Blocks |-> DD_BLK_UNUSED], {},
                            [r \in Reqs |-> init_vhd_request])
  /\ disk = [bat |-> [b \in Blocks |-> DD_BLK_UNUSED], batmap |-> {},
             map |-> [x \in Slots |-> Secs],
             data |-> [x \in Slots |-> [k \in Secs |-> Junk]]]
  /\ cand = [x \in Sectors |-> {Parent}]
  /\ bound = [r \in Reqs |-> {}]
  /\ crashes = 0

IOStep == \E io \in vhd.aio : Land(io) \/ Complete(io) \/ Abort(io)

Next ==
  \/ \E r \in Reqs, x \in ClientSecs : QueueRead(r, x) \/ QueueWrite(r, x) \/ QueueStatus(r, x)
  \/ IOStep
  \/ Crash \/ Close \/ Open

Spec == Init /\ [][Next]_vars

(* The kernel serves every I/O it has accepted.  An I/O step is enabled     *)
(* exactly when some I/O is pending, and it is the step (apart from a       *)
(* crash, which happens finitely often) that takes an element out of aio:   *)
(* this is weak fairness of IOStep, written so that TLC need not evaluate   *)
(* the completion handlers to decide whether a step was one.                *)
Serves      == \E io \in vhd.aio : io \notin vhd'.aio
FairSpec    == Spec /\ ([]<>(vhd.aio = {}) \/ []<><<Serves>>_vars)

-----------------------------------------------------------------------------
(* Properties.                                                              *)

(* Every variable has the type its declaration gives it.                    *)
TypeOK ==
  /\ vhd \in VhdState
  /\ disk \in DiskState
  /\ cand \in [Sectors -> SUBSET Values]
  /\ bound \in [Reqs -> SUBSET Values]
  /\ crashes \in Nat

(* What a reader of the image file would find in sector x.                  *)
DiskView(x) ==
  LET b == blk_of(x) IN
  IF disk.bat[b] = DD_BLK_UNUSED THEN Parent
  ELSE IF b \in disk.batmap \/ sec_of(x) \in disk.map[disk.bat[b]]
       THEN disk.data[disk.bat[b]][sec_of(x)] ELSE Parent

(* Whenever the process dies, the file holds for every sector a value that  *)
(* an acknowledged write left there or a failed or unfinished one may have: *)
(* an acknowledged write is never lost, torn out by a stale bitmap or BAT,  *)
(* or overwritten by a write to another block.                              *)
CrashConsistent == \A x \in Sectors : DiskView(x) \in cand[x]

(* A read returns a value its sector held at some moment between the read's *)
(* submission and its completion (vhd_queue_read against the cached bitmap).*)
ReadsRegular ==
  \A r \in Reqs : vhd.req[r].st = "done" /\ vhd.req[r].op = "read" /\ vhd.req[r].err = "ok"
                    => vhd.req[r].val \in bound[r]

(* A bitmap that a transaction, a queue or an I/O still needs is locked, so *)
(* that remove_lru_bitmap cannot take it (the ASSERTs of remove_lru_bitmap  *)
(* and free_vhd_bitmap), and the cache never outgrows its array.            *)
LockedWhileUsed ==
  /\ \A b \in Blocks : bitmap_in_use(vhd.bm[b]) => b \in vhd.cached /\ vhd.bm[b].locked
  /\ Cardinality(vhd.cached) <= CacheSize

IOs(op) == {io \in vhd.aio : io.op = op}
TxIOs(b) == {io \in vhd.aio : /\ io.blk = b
                              /\ \/ io.op = "data_write" /\ io.req \in vhd.bm[b].tx.reqs
                                 \/ io.op = "zero_bm"
                                 \/ io.op = "bat" /\ vhd.prealloc}

(* started - finished of a bitmap's transaction counts exactly the I/O the  *)
(* transaction still waits for: none is counted twice across a failed BAT   *)
(* write, a promoted queue or a restarted allocation.                       *)
TxAccounting ==
  \A b \in Blocks : vhd.bm[b].tx.started - vhd.bm[b].tx.finished = Cardinality(TxIOs(b))

(* The ASSERTs at the head of the completion handlers, of schedule_data_read*)
(* and of update_bat hold for every I/O in flight, in whatever order the    *)
(* I/Os complete.                                                           *)
HandlersReady ==
  /\ \A io \in IOs("zero_bm") : /\ vhd.locked /\ vhd.pbw_blk = io.blk /\ ~vhd.started
                                /\ ~vhd.bm[io.blk].rd /\ vhd.bm[io.blk].locked
  /\ \A io \in IOs("bat") : /\ vhd.locked /\ vhd.started /\ vhd.pbw_blk = io.blk
                            /\ ~vhd.bm[io.blk].rd /\ vhd.bm[io.blk].tx.live
  /\ \A io \in IOs("bitmap_read")  : vhd.bm[io.blk].rd
  /\ \A io \in IOs("bitmap_write") : vhd.bm[io.blk].wr /\ vhd.bm[io.blk].tx.closed
  /\ \A b \in Blocks : vhd.bm[b].tx.upd => vhd.locked /\ vhd.pbw_blk = b

Owns(b, slot) == \/ vhd.bat[b] = slot
                 \/ vhd.locked /\ vhd.pbw_blk = b /\ vhd.pbw_offset = slot

(* A write in flight only aims at a slot its block owns, and no slot has    *)
(* two owners: not in the BAT, not between the BAT and the block being      *)
(* allocated, not in the file.                                              *)
SlotsOwned ==
  /\ \A io \in vhd.aio : io.op # "bat" => io.slot \in Slots /\ Owns(io.blk, io.slot)
  /\ \A b, c \in Blocks : b # c => \A x \in Slots : ~(Owns(b, x) /\ Owns(c, x))
  /\ \A b, c \in Blocks : b # c => disk.bat[b] = DD_BLK_UNUSED \/ disk.bat[b] # disk.bat[c]

(* No vhd_request leaks or is given back twice, on any error path.          *)
VreqConservation ==
  vhd.vfree + Cardinality(outstanding(vhd)) + Cardinality(IOs("redundant_bm")) = VReqs

(* A block the batmap calls full is allocated and has a full bitmap in the  *)
(* file, so that skipping its bitmap (and rewriting it) is harmless.        *)
BatmapSound ==
  \A b \in vhd.batmap \cup disk.batmap :
     disk.bat[b] # DD_BLK_UNUSED /\ disk.map[disk.bat[b]] = Secs

(* The ASSERT of finish_bitmap_read: only reads and writes wait for a       *)
(* bitmap, so that finish_bitmap_read can queue them again.                 *)
WaitersRequeuable == \A b \in Blocks : waiters_requeuable(vhd, b)

(* With no I/O in flight nothing is left behind: nobody waits, and the BAT  *)
(* and every bitmap are unlocked.                                           *)
QuiescentClean ==
  vhd.aio = {} => /\ outstanding(vhd) = {}
                  /\ ~vhd.locked
                  /\ \A b \in Blocks : ~vhd.bm[b].locked

(* Once the file's BAT names a slot for a block, no step changes it.        *)
BatEntriesFinal ==
  [][\A b \in Blocks : disk.bat[b] # DD_BLK_UNUSED => disk'.bat[b] = disk.bat[b]]_vars

(* Every request the driver accepts is answered.                            *)
Answered == \A r \in Reqs : r \in outstanding(vhd) ~> vhd.req[r].st = "done"

(* The driver's account of the file is right while I/O is in flight: a      *)
(* transaction counts its I/O, a slot has one owner, and the batmap calls   *)
(* no block full that is not.                                               *)
Bookkeeping == TxAccounting /\ SlotsOwned /\ BatmapSound

(* The bitmap cache never takes away what a handler will look for, and each *)
(* handler finds the state its ASSERTs name.                                *)
CacheSound == LockedWhileUsed /\ HandlersReady
=============================================================================
