------------------------ MODULE BlockVhdDriverProofs ------------------------
(***************************************************************************)
(* The state of the VHD driver while requests and I/O are in flight, for   *)
(* every value of the constants of BlockVhd: the invariant that the proofs *)
(* of BlockVhdSafetyProofs rest on, and why the functions of block-vhd.c   *)
(* keep the part of it that is about struct vhd_state (Driver).  The types *)
(* of the state come first (TypeCorrect).                                  *)
(*                                                                         *)
(* The invariant is stated for a state s of the driver, a file d and the   *)
(* histories c (cand) and n (bound), so that it can be followed through    *)
(* the functions a handler calls.  Inside a handler it holds but for what  *)
(* the handler has in hand: h is a client's request for which no I/O has   *)
(* been started yet, k the block whose transaction is being ended.         *)
(***************************************************************************)
EXTENDS BlockVhd, TLAPS, FiniteSetTheorems, FunctionTheorems

-----------------------------------------------------------------------------
(* Geometry: a sector lies in a block of the BAT, at an offset inside it.   *)

LEMMA Geometry ==
  ASSUME NEW x \in Sectors
  PROVE  blk_of(x) \in Blocks /\ sec_of(x) \in Secs
<1>1. SPB \in Nat \ {0} /\ NBlocks \in Nat \ {0}
  BY ConstantsAssumption
<1>2. x \in Nat /\ x < NBlocks * SPB
  BY <1>1 DEF Sectors
<1>3. x \div SPB \in Nat /\ x % SPB \in 0 .. SPB - 1
  BY <1>1, <1>2
<1>4. x = SPB * (x \div SPB) + (x % SPB)
  BY <1>1, <1>2
<1>5. x \div SPB < NBlocks
  <2> DEFINE q == x \div SPB
             k == x % SPB
  <2>1. SUFFICES ASSUME q >= NBlocks PROVE FALSE
    BY <1>1, <1>3
  <2>2. PICK d \in Nat : q = NBlocks + d
    <3>1. q - NBlocks \in Nat BY <1>1, <1>3, <2>1
    <3> QED BY <3>1, <1>1, <1>3
  <2> HIDE DEF q, k
  <2>3. SPB * q = SPB * NBlocks + SPB * d /\ SPB * d \in Nat /\ SPB * NBlocks \in Nat
    BY <1>1, <2>2
  <2>4. SPB * NBlocks = NBlocks * SPB
    BY <1>1
  <2>5. x >= SPB * q
    BY <1>1, <1>2, <1>3, <1>4 DEF q
  <2> QED BY <2>3, <2>4, <2>5, <1>1, <1>2
<1> QED BY <1>1, <1>3, <1>5 DEF blk_of, sec_of, Blocks, Secs

-----------------------------------------------------------------------------
(* Types of the parts of struct vhd_state, and of one-field updates.        *)

LEMMA TxTypes ==
  /\ init_tx \in Tx
  /\ \A tx \in Tx : [tx EXCEPT !.upd = TRUE] \in Tx
  /\ \A tx \in Tx : [tx EXCEPT !.upd = FALSE] \in Tx
  /\ \A tx \in Tx : [tx EXCEPT !.closed = TRUE] \in Tx
  /\ \A tx \in Tx, e \in Errors : [tx EXCEPT !.err = e] \in Tx
  /\ \A tx \in Tx, e \in Errors : [tx EXCEPT !.err = e, !.upd = FALSE] \in Tx
<1>1. init_tx \in Tx
  BY DEF init_tx, Tx, Errors
<1>2. ASSUME NEW tx \in Tx PROVE [tx EXCEPT !.upd = TRUE] \in Tx
  BY DEF Tx
<1>3. ASSUME NEW tx \in Tx PROVE [tx EXCEPT !.upd = FALSE] \in Tx
  BY DEF Tx
<1>4. ASSUME NEW tx \in Tx PROVE [tx EXCEPT !.closed = TRUE] \in Tx
  BY DEF Tx
<1>5. ASSUME NEW tx \in Tx, NEW e \in Errors PROVE [tx EXCEPT !.err = e] \in Tx
  BY DEF Tx
<1>6. ASSUME NEW tx \in Tx, NEW e \in Errors
      PROVE  [tx EXCEPT !.err = e, !.upd = FALSE] \in Tx
  BY DEF Tx
<1> QED BY <1>1, <1>2, <1>3, <1>4, <1>5, <1>6

LEMMA JoinedType ==
  ASSUME NEW tx \in Tx, NEW R \in SUBSET (Reqs \cup MetaReqs), Cardinality(R) \in Nat
  PROVE  joined(tx, R) \in Tx
<1>1. tx.started + Cardinality(R) \in Nat /\ tx.reqs \cup R \in SUBSET (Reqs \cup MetaReqs)
  BY DEF Tx
<1>2. \A n \in Nat, Q \in SUBSET (Reqs \cup MetaReqs) :
        [tx EXCEPT !.started = n, !.live = TRUE, !.reqs = Q] \in Tx
  BY Zenon DEF Tx
<1> QED BY <1>1, <1>2 DEF joined

LEMMA FinishedType ==
  ASSUME NEW tx \in Tx, NEW R
  PROVE  finished(tx, R) \in Tx
<1>1. tx.finished + 1 \in Nat /\ tx.reqs \ R \in SUBSET (Reqs \cup MetaReqs)
  BY DEF Tx
<1>2. \A n \in Nat, Q \in SUBSET (Reqs \cup MetaReqs) :
        [tx EXCEPT !.finished = n, !.reqs = Q] \in Tx
  BY Zenon DEF Tx
<1> QED BY <1>1, <1>2 DEF finished

LEMMA FailedType ==
  ASSUME NEW tx \in Tx, NEW e \in Errors
  PROVE  failed(tx, e) \in Tx
  BY DEF failed, Tx

LEMMA BmField ==
  ASSUME NEW s \in VhdState, NEW b \in Blocks
  PROVE  s.bm[b] \in Bitmap /\ s.bm[b].tx \in Tx
  BY DEF VhdState, Bitmap

LEMMA UpdBm ==
  ASSUME NEW s \in VhdState, NEW b \in Blocks, NEW m \in Bitmap
  PROVE  with_bm(s, b, m) \in VhdState
  BY DEF with_bm, VhdState

LEMMA UpdReq ==
  ASSUME NEW s \in VhdState, NEW r \in Reqs, NEW q \in Request
  PROVE  with_req(s, r, q) \in VhdState
  BY DEF with_req, VhdState

LEMMA UpdTx ==
  ASSUME NEW s \in VhdState, NEW b \in Blocks, NEW tx \in Tx
  PROVE  with_tx(s, b, tx) \in VhdState
<1>1. [s.bm[b] EXCEPT !.tx = tx] \in Bitmap
  BY BmField DEF Bitmap
<1> QED BY <1>1, UpdBm DEF with_tx

LEMMA AddAio ==
  ASSUME NEW s \in VhdState, NEW A \in SUBSET Tiocb
  PROVE  [s EXCEPT !.aio = A] \in VhdState
  BY DEF VhdState

LEMMA QueueAio ==
  ASSUME NEW s \in VhdState, NEW op, NEW b, NEW r, NEW slot,
         [op |-> op, blk |-> b, req |-> r, slot |-> slot, landed |-> FALSE] \in Tiocb
  PROVE  queue_tiocb(s, op, b, r, slot) \in VhdState
<1>1. s.aio \cup {[op |-> op, blk |-> b, req |-> r, slot |-> slot,
                   landed |-> FALSE]} \in SUBSET Tiocb
  BY DEF VhdState
<1> QED BY <1>1, AddAio DEF queue_tiocb

MetaOps == {"bitmap_read", "bitmap_write", "zero_bm", "bat"}

LEMMA MetaAio ==
  ASSUME NEW s \in VhdState, NEW op \in MetaOps, NEW b \in Blocks,
         NEW r \in MetaReqs, NEW slot \in Entries
  PROVE  queue_tiocb(s, op, b, r, slot) \in VhdState
<1>1. [op |-> op, blk |-> b, req |-> r, slot |-> slot, landed |-> FALSE] \in Tiocb
  BY DEF Tiocb, AioOps, MetaOps
<1> QED BY <1>1, QueueAio

LEMMA DataAio ==
  ASSUME NEW s \in VhdState, NEW op \in AioOps, NEW b \in Blocks,
         NEW r \in Reqs, NEW slot \in Entries
  PROVE  queue_tiocb(s, op, b, r, slot) \in VhdState
<1>1. [op |-> op, blk |-> b, req |-> r, slot |-> slot, landed |-> FALSE] \in Tiocb
  BY DEF Tiocb
<1> QED BY <1>1, QueueAio

LEMMA UpdFields ==
  ASSUME NEW s \in VhdState
  PROVE  /\ \A n \in Int : [s EXCEPT !.vfree = n] \in VhdState
         /\ \A m \in Blocks \cup {FREE_BITMAP} : [s EXCEPT !.mru = m] \in VhdState
         /\ \A B \in SUBSET Blocks : [s EXCEPT !.batmap = B] \in VhdState
         /\ [s EXCEPT !.locked = TRUE] \in VhdState
         /\ [s EXCEPT !.bat_tx = TRUE] \in VhdState
         /\ \A e \in Errors : [s EXCEPT !.bat_err = e] \in VhdState
         /\ \A q \in [Reqs -> Request], n \in Int :
              [s EXCEPT !.vfree = n, !.req = q] \in VhdState
<1>1. ASSUME NEW n \in Int PROVE [s EXCEPT !.vfree = n] \in VhdState
  BY DEF VhdState
<1>2. ASSUME NEW m \in Blocks \cup {FREE_BITMAP} PROVE [s EXCEPT !.mru = m] \in VhdState
  BY DEF VhdState
<1>3. ASSUME NEW B \in SUBSET Blocks PROVE [s EXCEPT !.batmap = B] \in VhdState
  BY DEF VhdState
<1>4. [s EXCEPT !.locked = TRUE] \in VhdState
  BY DEF VhdState
<1>5. [s EXCEPT !.bat_tx = TRUE] \in VhdState
  BY DEF VhdState
<1>6. ASSUME NEW e \in Errors PROVE [s EXCEPT !.bat_err = e] \in VhdState
  BY DEF VhdState
<1>7. ASSUME NEW q \in [Reqs -> Request], NEW n \in Int
      PROVE  [s EXCEPT !.vfree = n, !.req = q] \in VhdState
  BY DEF VhdState
<1> QED BY <1>1, <1>2, <1>3, <1>4, <1>5, <1>6, <1>7

LEMMA Zero == 0 \in Blocks /\ DD_BLK_UNUSED \in Entries
  BY ConstantsAssumption DEF Blocks, Entries

LEMMA InitBatType ==
  ASSUME NEW s \in VhdState
  PROVE  init_bat(s) \in VhdState
  BY Zero, Zenon DEF init_bat, VhdState, Errors

LEMMA LockType ==
  ASSUME NEW s \in VhdState, NEW b \in Blocks
  PROVE  lock_bitmap(s, b) \in VhdState /\ unlock_if_unused(s, b) \in VhdState
<1>1. [s.bm[b] EXCEPT !.locked = TRUE] \in Bitmap
  BY BmField DEF Bitmap
<1>2. (s.bm[b].locked /\ bitmap_in_use(s.bm[b])) \in BOOLEAN
  OBVIOUS
<1>3. \A x \in BOOLEAN : [s.bm[b] EXCEPT !.locked = x] \in Bitmap
  BY BmField, Zenon DEF Bitmap
<1> QED BY <1>1, <1>2, <1>3, UpdBm DEF lock_bitmap, unlock_if_unused

LEMMA TouchType ==
  ASSUME NEW s \in VhdState, NEW b \in Blocks
  PROVE  touch_bitmap(s, b) \in VhdState /\ bump(s, b) \in VhdState
  BY UpdFields DEF touch_bitmap, bump

LEMMA FreshBitmap == init_vhd_bitmap \in Bitmap
  BY TxTypes DEF init_vhd_bitmap, Bitmap

LEMMA InstallType ==
  ASSUME NEW s \in VhdState, NEW b \in Blocks, NEW v
  PROVE  install_bitmap(s, b, v) \in VhdState /\ free_vhd_bitmap(s, b) \in VhdState
<1>1. [x \in Blocks |-> IF x \in {b, v} THEN init_vhd_bitmap ELSE s.bm[x]]
        \in [Blocks -> Bitmap]
  BY BmField, FreshBitmap
<1>2. (s.cached \ {v}) \cup {b} \in SUBSET Blocks /\ s.cached \ {b} \in SUBSET Blocks
  BY DEF VhdState
<1>3. \A C \in SUBSET Blocks, m \in Blocks \cup {FREE_BITMAP}, f \in [Blocks -> Bitmap] :
        [s EXCEPT !.cached = C, !.mru = m, !.bm = f] \in VhdState
  BY Zenon DEF VhdState
<1>4. install_bitmap(s, b, v) \in VhdState
  BY <1>1, <1>2, <1>3 DEF install_bitmap
<1>5. free_vhd_bitmap(s, b) \in VhdState
  <2> DEFINE C == s.cached \ {b}
             f == [s.bm EXCEPT ![b] = init_vhd_bitmap]
             m == IF s.mru = b THEN FREE_BITMAP ELSE s.mru
  <2>1. C \in SUBSET Blocks
    BY <1>2
  <2>2. f \in [Blocks -> Bitmap]
    BY FreshBitmap DEF VhdState
  <2>3. m \in Blocks \cup {FREE_BITMAP}
    BY DEF VhdState
  <2>4. free_vhd_bitmap(s, b) = [s EXCEPT !.cached = C, !.bm = f, !.mru = m]
    BY DEF free_vhd_bitmap
  <2> HIDE DEF C, f, m
  <2>5. [s EXCEPT !.cached = C, !.bm = f, !.mru = m] \in VhdState
    BY <2>1, <2>2, <2>3, Zenon DEF VhdState
  <2> QED BY <2>4, <2>5
<1> QED BY <1>4, <1>5

LEMMA AddType ==
  ASSUME NEW s \in VhdState, NEW b \in Blocks, NEW r \in Reqs \cup MetaReqs
  PROVE  add_to_transaction(s, b, r) \in VhdState
<1>1. Cardinality({r}) \in Nat
  BY FS_Singleton
<1> QED BY <1>1, JoinedType, BmField, UpdTx DEF add_to_transaction

LEMMA ReqField ==
  ASSUME NEW s \in VhdState, NEW r \in Reqs
  PROVE  /\ s.req[r] \in Request
         /\ blk_of(s.req[r].sec) \in Blocks
         /\ sec_of(s.req[r].sec) \in Secs
  BY Geometry DEF VhdState, Request

LEMMA RequestTypes ==
  ASSUME NEW q \in Request
  PROVE  /\ \A st \in {"free", "waiting", "io", "finished", "done"} :
              [q EXCEPT !.st = st] \in Request
         /\ \A st \in {"free", "waiting", "io", "finished", "done"}, e \in Errors :
              [q EXCEPT !.st = st, !.err = e] \in Request
         /\ \A v \in Values : [q EXCEPT !.val = v] \in Request
         /\ [q EXCEPT !.st = "done", !.err = "ok", !.val = Parent] \in Request
         /\ [q EXCEPT !.st = "done", !.val = Parent] \in Request
  BY Zenon DEF Request, Errors, Values

-----------------------------------------------------------------------------
(* Scheduling I/O keeps the type of the state.                              *)

ResultType == [s : VhdState, err : Errors, zero : SUBSET Slots]

LEMMA CompleteType ==
  ASSUME NEW s \in VhdState, NEW r \in Reqs
  PROVE  /\ \A e \in Errors : td_complete_request(s, r, e) \in VhdState
         /\ td_forward_request(s, r) \in VhdState
<1>1. ASSUME NEW e \in Errors PROVE td_complete_request(s, r, e) \in VhdState
  <2>1. [s.req[r] EXCEPT !.st = "done", !.err = e] \in Request
    BY ReqField, RequestTypes
  <2> QED BY <2>1, UpdReq DEF td_complete_request
<1>2. td_forward_request(s, r) \in VhdState
  <2>1. [s.req[r] EXCEPT !.st = "done", !.err = "ok", !.val = Parent] \in Request
    BY ReqField, RequestTypes
  <2> QED BY <2>1, UpdReq DEF td_forward_request
<1> QED BY <1>1, <1>2

LEMMA VreqType ==
  ASSUME NEW s \in VhdState, NEW r \in Reqs
  PROVE  /\ \A st \in {"free", "waiting", "io", "finished", "done"} :
              alloc_vhd_request(s, r, st) \in VhdState
         /\ free_vhd_request(s) \in VhdState
<1>1. \A t \in VhdState : t.vfree - 1 \in Int /\ t.vfree + 1 \in Int
  BY DEF VhdState
<1>2. ASSUME NEW st \in {"free", "waiting", "io", "finished", "done"}
      PROVE  alloc_vhd_request(s, r, st) \in VhdState
  <2>1. with_req(s, r, [s.req[r] EXCEPT !.st = st]) \in VhdState
    BY ReqField, RequestTypes, UpdReq
  <2> QED BY <1>1, <2>1, UpdFields DEF alloc_vhd_request
<1>3. free_vhd_request(s) \in VhdState
  BY <1>1, UpdFields DEF free_vhd_request
<1> QED BY <1>2, <1>3

LEMMA BatWriteType ==
  ASSUME NEW s \in VhdState
  PROVE  schedule_bat_write(s) \in VhdState
<1>1. bat_sector(s) \in [Blocks -> Entries]
  BY DEF bat_sector, VhdState
<1>2. \A f \in [Blocks -> Entries] :
        [s EXCEPT !.started = TRUE, !.bat_err = "ok", !.bat_tx = FALSE, !.bat_buf = f]
          \in VhdState
  BY Zenon DEF VhdState, Errors
<1>3. s.pbw_blk \in Blocks /\ s.pbw_offset \in Entries
  BY DEF VhdState
<1>4. "bat" \in MetaOps /\ bat_req \in MetaReqs
  BY DEF MetaOps, MetaReqs
<1> QED BY <1>1, <1>2, <1>3, <1>4, MetaAio DEF schedule_bat_write

LEMMA FreeSlot ==
  ASSUME NEW s \in VhdState, ~file_full(s)
  PROVE  s.next_db \in Slots /\ s.next_db \in Entries
  BY ConstantsAssumption DEF VhdState, file_full, Slots, Entries

LEMMA ReserveType ==
  ASSUME NEW s \in VhdState, NEW b \in Blocks, s.next_db \in Entries
  PROVE  reserve_and_zero(s, b) \in VhdState
<1> DEFINE t == [s EXCEPT !.locked = TRUE, !.pbw_blk = b, !.pbw_offset = s.next_db]
<1>1. t \in VhdState
  BY Zenon DEF VhdState
<1>2. "zero_bm" \in MetaOps /\ zero_req \in MetaReqs
  BY DEF MetaOps, MetaReqs
<1> HIDE DEF t
<1>3. add_to_transaction(lock_bitmap(t, b), b, zero_req) \in VhdState
  BY <1>1, <1>2, LockType, AddType
<1> QED BY <1>2, <1>3, MetaAio DEF reserve_and_zero, t

LEMMA TxUpdateType ==
  ASSUME NEW s \in VhdState, NEW b \in Blocks
  PROVE  tx_update_bat(s, b) \in VhdState /\ close_tx(s, b) \in VhdState
  BY TxTypes, BmField, UpdTx DEF tx_update_bat, close_tx

LEMMA UpdateBatType ==
  ASSUME NEW s \in VhdState, NEW b \in Blocks, NEW v
  PROVE  update_bat(s, b, v) \in ResultType
<1> DEFINE c == IF b \in s.cached THEN s ELSE install_bitmap(s, b, v)
<1>1. c \in VhdState
  BY InstallType
<1>a. c.next_db = s.next_db
  BY DEF install_bitmap, VhdState
<1>2. ~file_full(s) => tx_update_bat(reserve_and_zero(c, b), b) \in VhdState
  BY <1>1, <1>a, FreeSlot, ReserveType, TxUpdateType
<1> HIDE DEF c
<1> QED BY <1>1, <1>2 DEF update_bat, c, Result, ResultType, Errors

LEMMA AllocateType ==
  ASSUME NEW s \in VhdState, NEW b \in Blocks, NEW v, NEW w \in Errors
  PROVE  allocate_block(s, b, v, w) \in ResultType
<1> DEFINE p == [s EXCEPT !.pbw_blk = b, !.pbw_offset = s.next_db]
           c == IF b \in s.cached THEN p ELSE install_bitmap(p, b, v)
           l == [c EXCEPT !.locked = TRUE]
           n == add_to_transaction(schedule_bat_write(lock_bitmap(l, b)), b, bat_req)
<1>1. CASE s.locked \/ file_full(s)
  BY <1>1 DEF allocate_block, Result, ResultType, Errors
<1>2. CASE ~s.locked /\ ~file_full(s)
  <2>1. p \in VhdState
    BY <1>2, FreeSlot, Zenon DEF VhdState
  <2>2. c \in VhdState
    BY <2>1, InstallType
  <2>3. n \in VhdState
    <3>1. l \in VhdState
      BY <2>2, UpdFields
    <3>2. bat_req \in Reqs \cup MetaReqs
      BY DEF MetaReqs
    <3> HIDE DEF l
    <3> QED BY <3>1, <3>2, LockType, BatWriteType, AddType
  <2>4. {s.next_db} \in SUBSET Slots
    BY <1>2, FreeSlot
  <2> HIDE DEF p, c, n
  <2>5. CASE w # "ok"
    BY <1>2, <2>1, <2>5 DEF allocate_block, Result, ResultType, p
  <2>6. CASE w = "ok"
    <3>1. allocate_block(s, b, v, w)
            = IF b \notin s.cached /\ v = NO_BITMAP THEN Result(p, "EBUSY", {s.next_db})
              ELSE Result(n, "ok", {s.next_db})
      BY <1>2, <2>6 DEF allocate_block, p, c, n, l
    <3> QED BY <3>1, <2>1, <2>3, <2>4 DEF Result, ResultType, Errors
  <2> QED BY <2>5, <2>6
<1> QED BY <1>1, <1>2 DEF VhdState

LEMMA JoinTransactionType ==
  ASSUME NEW s \in VhdState, NEW b \in Blocks, NEW r \in Reqs
  PROVE  join_transaction(s, b, r) \in VhdState
<1>1. [s.bm[b] EXCEPT !.locked = TRUE, !.queue = s.bm[b].queue \cup {r}] \in Bitmap
  BY BmField DEF Bitmap
<1>2. with_bm(s, b, [s.bm[b] EXCEPT !.locked = TRUE,
                                    !.queue = s.bm[b].queue \cup {r}]) \in VhdState
  BY <1>1, UpdBm
<1>3. add_to_transaction(lock_bitmap(s, b), b, r) \in VhdState
  BY LockType, AddType
<1> QED BY <1>2, <1>3 DEF join_transaction

LEMMA BatField ==
  ASSUME NEW s \in VhdState, NEW b \in Blocks
  PROVE  s.bat[b] \in Entries /\ s.pbw_offset \in Entries /\ s.pbw_blk \in Blocks
  BY DEF VhdState

LEMMA RedundantType ==
  ASSUME NEW s \in VhdState, NEW b \in Blocks, NEW r \in Reqs
  PROVE  schedule_redundant_bm_write(s, b, r) \in VhdState
<1>1. s.vfree - 1 \in Int
  BY DEF VhdState
<1>2. [s EXCEPT !.vfree = s.vfree - 1] \in VhdState
  BY <1>1, UpdFields
<1>3. "redundant_bm" \in AioOps
  BY DEF AioOps
<1> QED BY <1>2, <1>3, BatField, DataAio DEF schedule_redundant_bm_write

LEMMA DataReadType ==
  ASSUME NEW s \in VhdState, NEW r \in Reqs
  PROVE  schedule_data_read(s, r) \in VhdState
<1>1. td_complete_request(s, r, "EBUSY") \in VhdState
  BY CompleteType DEF Errors
<1>2. alloc_vhd_request(s, r, "io") \in VhdState
  BY VreqType
<1>3. "data_read" \in AioOps
  BY DEF AioOps
<1> QED BY <1>1, <1>2, <1>3, ReqField, BatField, DataAio DEF schedule_data_read

LEMMA DataWriteType ==
  ASSUME NEW s \in VhdState, NEW r \in Reqs, NEW upd_bat \in BOOLEAN,
         NEW upd_bm \in BOOLEAN, NEW v, NEW w \in Errors
  PROVE  schedule_data_write(s, r, upd_bat, upd_bm, v, w) \in ResultType
<1> DEFINE b == blk_of(s.req[r].sec)
           a == alloc_vhd_request(s, r, "io")
           n == IF ~upd_bat THEN Result(a, "ok", {})
                ELSE IF s.prealloc THEN allocate_block(a, b, v, w)
                ELSE update_bat(a, b, v)
           slot == IF upd_bat THEN n.s.pbw_offset ELSE s.bat[b]
           j == IF upd_bm THEN join_transaction(n.s, b, r)
                ELSE IF sec_of(s.req[r].sec) = 0 /\ s.bat[b] # 0 /\ b \in s.batmap
                     THEN schedule_redundant_bm_write(n.s, b, r)
                     ELSE n.s
<1>1. b \in Blocks
  BY ReqField
<1>2. a \in VhdState
  BY VreqType
<1> HIDE DEF b, a
<1>3. n \in ResultType
  <2>1. Result(a, "ok", {}) \in ResultType
    BY <1>2 DEF Result, ResultType, Errors
  <2>2. allocate_block(a, b, v, w) \in ResultType
    BY <1>1, <1>2, AllocateType
  <2>3. update_bat(a, b, v) \in ResultType
    BY <1>1, <1>2, UpdateBatType
  <2> QED BY <2>1, <2>2, <2>3
<1> HIDE DEF n
<1>4. n.s \in VhdState /\ n.err \in Errors /\ n.zero \in SUBSET Slots
  BY <1>3 DEF ResultType
<1>5. slot \in Entries
  BY <1>1, <1>4, BatField
<1>6. j \in VhdState
  BY <1>1, <1>4, JoinTransactionType, RedundantType
<1>7. Result(td_complete_request(s, r, "EBUSY"), "EBUSY", {}) \in ResultType
  <2>1. td_complete_request(s, r, "EBUSY") \in VhdState
    BY CompleteType DEF Errors
  <2> QED BY <2>1 DEF Result, ResultType, Errors
<1>8. Result(refuse(n.s, r, n.err), n.err, n.zero) \in ResultType
  <2>1. refuse(n.s, r, n.err) \in VhdState
    BY <1>4, CompleteType, VreqType DEF refuse
  <2> QED BY <1>4, <2>1 DEF Result, ResultType
<1> HIDE DEF slot, j
<1>9. Result(queue_tiocb(j, "data_write", b, r, slot), "ok", n.zero) \in ResultType
  <2>1. "data_write" \in AioOps
    BY DEF AioOps
  <2>2. queue_tiocb(j, "data_write", b, r, slot) \in VhdState
    BY <1>1, <1>5, <1>6, <2>1, DataAio
  <2> QED BY <1>4, <2>2 DEF Result, ResultType, Errors
<1>10. schedule_data_write(s, r, upd_bat, upd_bm, v, w)
         = CASE s.vfree = 0 -> Result(td_complete_request(s, r, "EBUSY"), "EBUSY", {})
             [] s.vfree # 0 /\ n.err # "ok" -> Result(refuse(n.s, r, n.err), n.err, n.zero)
             [] OTHER -> Result(queue_tiocb(j, "data_write", b, r, slot), "ok", n.zero)
  BY DEF schedule_data_write, slot, j, n, a, b
<1> QED BY <1>7, <1>8, <1>9, <1>10

LEMMA QueueRequestType ==
  ASSUME NEW s \in VhdState, NEW b \in Blocks, NEW r \in Reqs
  PROVE  __vhd_queue_request(s, b, r) \in VhdState
<1>1. td_complete_request(s, r, "EBUSY") \in VhdState
  BY CompleteType DEF Errors
<1>2. [s.bm[b] EXCEPT !.locked = TRUE, !.waiting = s.bm[b].waiting \cup {r}] \in Bitmap
  BY BmField DEF Bitmap
<1>3. with_bm(s, b, [s.bm[b] EXCEPT !.locked = TRUE,
                                    !.waiting = s.bm[b].waiting \cup {r}]) \in VhdState
  BY <1>2, UpdBm
<1> QED BY <1>1, <1>3, VreqType DEF __vhd_queue_request

LEMMA ReadAndWaitType ==
  ASSUME NEW s \in VhdState, NEW b \in Blocks, NEW r \in Reqs, NEW v
  PROVE  read_and_wait(s, b, r, v) \in VhdState
<1>1. td_complete_request(s, r, "EBUSY") \in VhdState
  BY CompleteType DEF Errors
<1>2. [init_vhd_bitmap EXCEPT !.locked = TRUE, !.rd = TRUE] \in Bitmap
  BY FreshBitmap DEF Bitmap
<1>3. with_bm(install_bitmap(s, b, v), b,
              [init_vhd_bitmap EXCEPT !.locked = TRUE, !.rd = TRUE]) \in VhdState
  BY <1>2, InstallType, UpdBm
<1>4. "bitmap_read" \in MetaOps /\ bm_req \in MetaReqs
  BY DEF MetaOps, MetaReqs
<1>5. schedule_bitmap_read(s, b, v) \in VhdState
  BY <1>3, <1>4, BatField, MetaAio DEF schedule_bitmap_read
<1> QED BY <1>1, <1>5, QueueRequestType DEF read_and_wait

LEMMA CacheAnswers ==
  ASSUME NEW s, NEW b, NEW k, NEW op \in {"read", "write", "status"}
  PROVE  \/ read_bitmap_cache(s, b, k, op)
               \in {"bat_clear", "bit_set", "not_cached", "read_pending", "bit_clear"}
         \/ read_bitmap_cache(s, b, k, op) = "bat_locked" /\ op = "write"
  BY DEF read_bitmap_cache

LEMMA QueueReadType ==
  ASSUME NEW s \in VhdState, NEW r \in Reqs, NEW v
  PROVE  vhd_queue_read(s, r, v) \in VhdState
<1> DEFINE b == blk_of(s.req[r].sec)
           c == read_bitmap_cache(s, b, sec_of(s.req[r].sec), "read")
           t == bump(s, b)
<1>1. b \in Blocks
  BY ReqField
<1>2. t \in VhdState
  BY <1>1, TouchType
<1>3. c \in {"bat_clear", "bit_set", "not_cached", "read_pending", "bit_clear"}
  BY CacheAnswers
<1>4. vhd_queue_read(s, r, v)
        = CASE c \in {"bat_clear", "bit_clear"} -> td_forward_request(t, r)
            [] c = "bit_set"      -> schedule_data_read(t, r)
            [] c = "not_cached"   -> read_and_wait(t, b, r, v)
            [] c = "read_pending" -> __vhd_queue_request(t, b, r)
  BY DEF vhd_queue_read
<1> HIDE DEF b, c, t
<1> QED BY <1>1, <1>2, <1>3, <1>4, CompleteType, DataReadType, ReadAndWaitType,
           QueueRequestType

LEMMA QueueStatusType ==
  ASSUME NEW s \in VhdState, NEW r \in Reqs
  PROVE  vhd_queue_block_status(s, r) \in VhdState
<1> DEFINE b == blk_of(s.req[r].sec)
           c == read_bitmap_cache(s, b, sec_of(s.req[r].sec), "status")
           t == bump(s, b)
<1>1. b \in Blocks
  BY ReqField
<1>2. t \in VhdState
  BY <1>1, TouchType
<1>3. c \in {"bat_clear", "bit_set", "not_cached", "read_pending", "bit_clear"}
  BY CacheAnswers
<1>4. vhd_queue_block_status(s, r)
        = CASE c \in {"bat_clear", "bit_clear"}  -> td_forward_request(t, r)
            [] c \in {"bit_set", "not_cached"}   -> td_complete_request(t, r, "ok")
            [] c = "read_pending"                -> __vhd_queue_request(t, b, r)
  BY DEF vhd_queue_block_status
<1> HIDE DEF b, c, t
<1>5. "ok" \in Errors
  BY DEF Errors
<1> QED BY <1>1, <1>2, <1>3, <1>4, <1>5, CompleteType, QueueRequestType

LEMMA QueueWriteType ==
  ASSUME NEW s \in VhdState, NEW r \in Reqs, NEW v, NEW w \in Errors
  PROVE  vhd_queue_write(s, r, v, w) \in ResultType
<1> DEFINE b == blk_of(s.req[r].sec)
           c == read_bitmap_cache(s, b, sec_of(s.req[r].sec), "write")
           t == bump(s, b)
<1>1. b \in Blocks
  BY ReqField
<1>2. t \in VhdState
  BY <1>1, TouchType
<1>3. c \in {"bat_clear", "bit_set", "not_cached", "read_pending", "bit_clear", "bat_locked"}
  BY CacheAnswers
<1>4. vhd_queue_write(s, r, v, w)
        = CASE c = "bat_locked"   -> Result(td_complete_request(t, r, "EBUSY"), "EBUSY", {})
            [] c = "bat_clear"    -> schedule_data_write(t, r, TRUE, TRUE, v, w)
            [] c = "bit_clear"    -> schedule_data_write(t, r, FALSE, TRUE, v, w)
            [] c = "bit_set"      -> schedule_data_write(t, r, FALSE, FALSE, v, w)
            [] c = "not_cached"   -> Result(read_and_wait(t, b, r, v), "ok", {})
            [] c = "read_pending" -> Result(__vhd_queue_request(t, b, r), "ok", {})
  BY DEF vhd_queue_write
<1> HIDE DEF b, c, t
<1>5. \A x \in VhdState, e \in {"ok", "EBUSY"} : Result(x, e, {}) \in ResultType
  BY DEF Result, ResultType, Errors
<1>6. td_complete_request(t, r, "EBUSY") \in VhdState
  BY <1>2, CompleteType DEF Errors
<1> QED BY <1>1, <1>2, <1>3, <1>4, <1>5, <1>6, DataWriteType, ReadAndWaitType,
           QueueRequestType

-----------------------------------------------------------------------------
(* Transactions and completion handlers keep struct vhd_state well typed.   *)

LEMMA FiniteReqs ==
  ASSUME NEW R \in SUBSET Reqs
  PROVE  IsFiniteSet(R) /\ Cardinality(R) \in Nat
  BY ConstantsAssumption, FS_Subset, FS_CardinalityType

LEMMA SignalType ==
  ASSUME NEW s \in VhdState, NEW R \in SUBSET Reqs, NEW e \in Errors
  PROVE  signal_completion(s, R, e) \in VhdState
<1> DEFINE f == [r \in Reqs |->
              IF r \in R
              THEN [s.req[r] EXCEPT !.st = "done", !.err = IF e # "ok" THEN e ELSE @]
              ELSE s.req[r]]
<1>1. s.vfree + Cardinality(R) \in Int
  BY FiniteReqs DEF VhdState
<1>2. ASSUME NEW r \in Reqs PROVE f[r] \in Request
  <2>1. s.req[r] \in Request /\ (IF e # "ok" THEN e ELSE s.req[r].err) \in Errors
    BY ReqField DEF Request
  <2> QED BY <2>1, RequestTypes
<1>3. f \in [Reqs -> Request]
  BY <1>2
<1> HIDE DEF f
<1>4. [s EXCEPT !.vfree = s.vfree + Cardinality(R), !.req = f] \in VhdState
  BY <1>1, <1>3, UpdFields
<1> QED BY <1>4 DEF signal_completion, f

LEMMA BitmapWriteType ==
  ASSUME NEW s \in VhdState, NEW b \in Blocks
  PROVE  schedule_bitmap_write(s, b) \in VhdState
<1>1. [s.bm[b] EXCEPT !.locked = TRUE, !.wr = TRUE] \in Bitmap
  BY BmField DEF Bitmap
<1>2. touch_bitmap(with_bm(s, b, [s.bm[b] EXCEPT !.locked = TRUE, !.wr = TRUE]), b)
        \in VhdState
  BY <1>1, UpdBm, TouchType
<1>3. "bitmap_write" \in MetaOps /\ bm_req \in MetaReqs
  BY DEF MetaOps, MetaReqs
<1> QED BY <1>2, <1>3, BatField, MetaAio DEF schedule_bitmap_write

LEMMA CommitType ==
  ASSUME NEW s \in VhdState, NEW b \in Blocks
  PROVE  commit_or_undo(s, b) \in VhdState
<1>1. [s.bm[b] EXCEPT !.shadow = s.bm[b].map] \in Bitmap
  BY BmField DEF Bitmap
<1>2. [s.bm[b] EXCEPT !.map = s.bm[b].shadow] \in Bitmap
  BY BmField DEF Bitmap
<1> DEFINE t == with_bm(s, b, [s.bm[b] EXCEPT !.map = s.bm[b].shadow])
           B == IF bitmap_full(s.bm[b].shadow) THEN t.batmap \cup {b} ELSE t.batmap
<1>3. t \in VhdState
  BY <1>2, UpdBm
<1> HIDE DEF t
<1>4. B \in SUBSET Blocks
  BY <1>3 DEF VhdState
<1> HIDE DEF B
<1>5. [t EXCEPT !.batmap = B] \in VhdState
  BY <1>3, <1>4, UpdFields
<1> QED BY <1>1, <1>5, UpdBm DEF commit_or_undo, t, B

LEMMA EndTransactionType ==
  ASSUME NEW s \in VhdState, NEW b \in Blocks
  PROVE  end_transaction(s, b) \in VhdState
<1>1. s.bm[b].tx.reqs \cap Reqs \in SUBSET Reqs /\ s.bm[b].tx.err \in Errors
  BY BmField DEF Tx
<1> QED BY <1>1, CommitType, SignalType, TxTypes, UpdTx DEF end_transaction

LEMMA ReleaseType ==
  ASSUME NEW s \in VhdState, NEW b \in Blocks
  PROVE  finish_bat_transaction(s, b) \in VhdState /\ release(s, b) \in VhdState
<1>1. \A t \in VhdState : finish_bat_transaction(t, b) \in VhdState
  BY TxUpdateType, InitBatType DEF finish_bat_transaction
<1> QED BY <1>1, LockType DEF release

LEMMA PromoteType ==
  ASSUME NEW s \in VhdState, NEW b \in Blocks
  PROVE  promote_queue(s, b) \in VhdState
<1> DEFINE m   == s.bm[b]
           fin == {r \in m.queue : s.req[r].st = "finished"}
           ok  == {r \in fin : s.req[r].err = "ok"}
           j   == joined(m.tx, m.queue)
           e   == IF s.bat[b] = DD_BLK_UNUSED THEN "EIO" ELSE j.err
           n   == j.finished + Cardinality(fin)
           S   == m.shadow \cup {sec_of(s.req[r].sec) : r \in ok}
           tx  == [j EXCEPT !.err = e, !.finished = n]
<1>1. m \in Bitmap /\ m.tx \in Tx /\ m.queue \in SUBSET Reqs /\ m.shadow \in SUBSET Secs
  BY BmField DEF Bitmap
<1>2. Cardinality(m.queue) \in Nat /\ Cardinality(fin) \in Nat
  BY <1>1, FiniteReqs
<1>3. j \in Tx
  BY <1>1, <1>2, JoinedType
<1>4. \A r \in ok : sec_of(s.req[r].sec) \in Secs
  BY <1>1, ReqField
<1>5. S \in SUBSET Secs
  BY <1>1, <1>4
<1> HIDE DEF m, fin, ok, j, S
<1>6. e \in Errors /\ n \in Nat
  BY <1>2, <1>3 DEF Tx, Errors
<1> HIDE DEF e, n
<1>7. tx \in Tx
  BY <1>3, <1>6 DEF Tx
<1> HIDE DEF tx
<1>8. [m EXCEPT !.tx = tx, !.queue = {}, !.shadow = S] \in Bitmap
  BY <1>1, <1>5, <1>7 DEF Bitmap
<1>9. with_bm(s, b, [m EXCEPT !.tx = tx, !.queue = {}, !.shadow = S]) \in VhdState
  BY <1>8, UpdBm
<1> QED BY <1>9 DEF promote_queue, m, fin, ok, j, e, n, S, tx

LEMMA StartNewType ==
  ASSUME NEW s \in VhdState, NEW b \in Blocks
  PROVE  start_new_bitmap_transaction(s, b) \in VhdState
<1>1. promote_queue(s, b) \in VhdState
  BY PromoteType
<1>2. close_tx(promote_queue(s, b), b) \in VhdState
  BY <1>1, TxUpdateType
<1> QED BY <1>1, <1>2, BitmapWriteType, EndTransactionType, ReleaseType
        DEF start_new_bitmap_transaction

LEMMA FinishBitmapTxType ==
  ASSUME NEW s \in VhdState, NEW b \in Blocks, NEW e \in Errors
  PROVE  finish_bitmap_transaction(s, b, e) \in VhdState
<1>1. with_tx(s, b, failed(s.bm[b].tx, e)) \in VhdState
  BY BmField, FailedType, UpdTx
<1>2. \A t \in VhdState : /\ [t EXCEPT !.bat_tx = TRUE] \in VhdState
                          /\ release(start_new_bitmap_transaction(
                                       end_transaction(t, b), b), b) \in VhdState
  BY UpdFields, EndTransactionType, StartNewType, ReleaseType
<1> QED BY <1>1, <1>2 DEF finish_bitmap_transaction

LEMMA FinishIfCompletedType ==
  ASSUME NEW s \in VhdState, NEW b \in Blocks
  PROVE  finish_if_completed(s, b) \in VhdState
<1>1. "ok" \in Errors
  BY DEF Errors
<1>2. close_tx(s, b) \in VhdState
  BY TxUpdateType
<1>3. finish_data_transaction(s, b) \in VhdState
  BY <1>1, <1>2, BitmapWriteType, FinishBitmapTxType DEF finish_data_transaction
<1> QED BY <1>3 DEF finish_if_completed

LEMMA FinishBatWriteType ==
  ASSUME NEW s \in VhdState, NEW e \in Errors
  PROVE  finish_bat_write(s, e) \in VhdState
<1> DEFINE b == s.pbw_blk
           t == IF e = "ok"
                THEN [s EXCEPT !.bat_err = e, !.bat[b] = s.pbw_offset,
                               !.next_db = s.pbw_offset + 1]
                ELSE with_tx([s EXCEPT !.bat_err = e], b, [s.bm[b].tx EXCEPT !.err = e])
           p == finish_if_completed(with_tx(t, b, finished(t.bm[b].tx, {bat_req})), b)
           u == with_tx(t, b, [t.bm[b].tx EXCEPT !.upd = FALSE])
           n == IF u.bat_tx THEN finish_bitmap_transaction(u, b, e) ELSE u
<1>1. b \in Blocks /\ s.pbw_offset \in Entries
  BY DEF VhdState
<1>2. s.pbw_offset + 1 \in Nat
  BY <1>1, ConstantsAssumption DEF Entries, Slots, DD_BLK_UNUSED
<1>3. [s EXCEPT !.bat_err = e, !.bat[b] = s.pbw_offset, !.next_db = s.pbw_offset + 1]
        \in VhdState
  <2>1. [s.bat EXCEPT ![b] = s.pbw_offset] \in [Blocks -> Entries]
    BY <1>1 DEF VhdState
  <2>2. \A B \in [Blocks -> Entries], n_ \in Nat :
           [s EXCEPT !.bat_err = e, !.bat = B, !.next_db = n_] \in VhdState
    BY DEF VhdState
  <2> QED BY <1>2, <2>1, <2>2
<1>4. with_tx([s EXCEPT !.bat_err = e], b, [s.bm[b].tx EXCEPT !.err = e]) \in VhdState
  BY <1>1, BmField, TxTypes, UpdFields, UpdTx
<1>5. t \in VhdState
  BY <1>3, <1>4
<1> HIDE DEF b, t
<1>6. p \in VhdState
  BY <1>1, <1>5, BmField, FinishedType, UpdTx, FinishIfCompletedType
<1>7. u \in VhdState
  BY <1>1, <1>5, BmField, TxTypes, UpdTx
<1> HIDE DEF p, u
<1>8. n \in VhdState
  BY <1>1, <1>7, FinishBitmapTxType
<1> HIDE DEF n
<1> QED BY <1>1, <1>6, <1>8, ReleaseType DEF finish_bat_write, b, t, p, u, n

LEMMA FinishZeroType ==
  ASSUME NEW s \in VhdState, NEW b \in Blocks, NEW e \in Errors
  PROVE  finish_zero_bm_write(s, b, e) \in VhdState
<1> DEFINE tx == finished(s.bm[b].tx, {zero_req})
<1>1. tx \in Tx
  BY BmField, FinishedType
<1> HIDE DEF tx
<1>2. schedule_bat_write(with_tx(s, b, tx)) \in VhdState
  BY <1>1, UpdTx, BatWriteType
<1>3. with_tx(init_bat(s), b, [tx EXCEPT !.err = e, !.upd = FALSE]) \in VhdState
  BY <1>1, TxTypes, InitBatType, UpdTx
<1> QED BY <1>2, <1>3, FinishIfCompletedType DEF finish_zero_bm_write, tx

LEMMA RequeueType ==
  ASSUME NEW s \in VhdState, NEW b \in Blocks, NEW R \in SUBSET Reqs
  PROVE  requeue(s, b, R) \in VhdState
<1> DEFINE clear == {r \in R : sec_of(s.req[r].sec) \notin s.bm[b].map}
           fwd   == {r \in clear : s.req[r].op = "read"}
           upd   == {r \in clear : s.req[r].op = "write"}
           t     == IF upd = {} THEN s ELSE with_tx(s, b, joined(s.bm[b].tx, upd))
           vf    == t.vfree + Cardinality(fwd)
           mr    == IF R = {} THEN t.mru ELSE b
           rq    == [r \in Reqs |->
                      IF r \in fwd THEN [s.req[r] EXCEPT !.st = "done", !.val = Parent]
                      ELSE IF r \in R THEN [s.req[r] EXCEPT !.st = "io"] ELSE s.req[r]]
           ai    == t.aio \cup {requeued_io(s, b, r) : r \in R \ fwd}
<1>1. fwd \in SUBSET Reqs /\ upd \in SUBSET Reqs
  OBVIOUS
<1>2. t \in VhdState
  <2>1. Cardinality(upd) \in Nat /\ upd \in SUBSET (Reqs \cup MetaReqs)
    BY <1>1, FiniteReqs
  <2> HIDE DEF upd
  <2> QED BY <2>1, BmField, JoinedType, UpdTx
<1>3. rq \in [Reqs -> Request]
  <2> HIDE DEF fwd
  <2>1. ASSUME NEW r \in Reqs PROVE rq[r] \in Request
    BY ReqField, RequestTypes
  <2> QED BY <2>1
<1>4. ASSUME NEW r \in Reqs PROVE requeued_io(s, b, r) \in Tiocb
  BY BatField DEF requeued_io, Tiocb, AioOps
<1> HIDE DEF fwd, upd, t, rq
<1>5. vf \in Int
  BY <1>1, <1>2, FiniteReqs DEF VhdState
<1>6. mr \in Blocks \cup {FREE_BITMAP}
  BY <1>2 DEF VhdState
<1>7. ai \in SUBSET Tiocb
  BY <1>2, <1>4 DEF VhdState
<1> HIDE DEF vf, mr, ai
<1>8. [t EXCEPT !.vfree = vf, !.mru = mr, !.req = rq, !.aio = ai] \in VhdState
  BY <1>2, <1>3, <1>5, <1>6, <1>7 DEF VhdState
<1> QED BY <1>8 DEF requeue, vf, mr, ai, rq, t, fwd, upd

LEMMA FinishBitmapReadType ==
  ASSUME NEW s \in VhdState, NEW b \in Blocks, NEW e \in Errors
  PROVE  finish_bitmap_read(s, b, e) \in VhdState
<1> DEFINE R == s.bm[b].waiting
           m == [s.bm[b] EXCEPT !.waiting = {}, !.rd = FALSE, !.shadow = s.bm[b].map]
<1>1. R \in SUBSET Reqs /\ m \in Bitmap
  BY BmField DEF Bitmap
<1> HIDE DEF R, m
<1>2. unlock_if_unused(requeue(with_bm(s, b, m), b, R), b) \in VhdState
  BY <1>1, UpdBm, RequeueType, LockType
<1>3. signal_completion(free_vhd_bitmap(s, b), R, e) \in VhdState
  BY <1>1, InstallType, SignalType
<1> QED BY <1>2, <1>3 DEF finish_bitmap_read, R, m

LEMMA FinishDataWriteType ==
  ASSUME NEW s \in VhdState, NEW r \in Reqs, NEW e \in Errors
  PROVE  finish_data_write(s, r, e) \in VhdState
<1> DEFINE b == blk_of(s.req[r].sec)
           t == with_req(s, r, [s.req[r] EXCEPT !.st = "finished", !.err = e])
           S == IF e = "ok" THEN t.bm[b].shadow \cup {sec_of(s.req[r].sec)}
                ELSE t.bm[b].shadow
           m == [t.bm[b] EXCEPT !.tx = finished(t.bm[b].tx, {}), !.shadow = S]
<1>1. b \in Blocks /\ sec_of(s.req[r].sec) \in Secs
  BY ReqField
<1>2. t \in VhdState
  BY ReqField, RequestTypes, UpdReq
<1> HIDE DEF b, t
<1>3. m \in Bitmap
  <2>1. t.bm[b] \in Bitmap /\ finished(t.bm[b].tx, {}) \in Tx
    BY <1>1, <1>2, BmField, FinishedType
  <2>2. S \in SUBSET Secs
    BY <1>1, <2>1 DEF Bitmap
  <2> HIDE DEF S
  <2> QED BY <2>1, <2>2 DEF Bitmap
<1> HIDE DEF m
<1>4. finish_if_completed(with_bm(t, b, m), b) \in VhdState
  BY <1>1, <1>2, <1>3, UpdBm, FinishIfCompletedType
<1>5. signal_completion(t, {r}, "ok") \in VhdState
  BY <1>2, SignalType DEF Errors
<1>6. finish_data_write(s, r, e)
        = IF r \in s.bm[b].tx.reqs THEN finish_if_completed(with_bm(t, b, m), b)
          ELSE IF r \in s.bm[b].queue THEN t
          ELSE signal_completion(t, {r}, "ok")
  BY DEF finish_data_write, b, t, m, S
<1> QED BY <1>2, <1>4, <1>5, <1>6

LEMMA VhdCompleteType ==
  ASSUME NEW s \in VhdState, NEW io \in Tiocb, NEW e \in Errors
  PROVE  vhd_complete(s, io, e) \in VhdState
<1>1. /\ io.op \in AioOps /\ io.blk \in Blocks
      /\ io.op \in {"data_read", "data_write"} => io.req \in Reqs
  BY DEF Tiocb
<1>2. io.op = "data_read" => finish_data_read(s, io.req, e) \in VhdState
  BY <1>1, SignalType DEF finish_data_read
<1>3. io.op = "data_write" => finish_data_write(s, io.req, e) \in VhdState
  BY <1>1, FinishDataWriteType
<1>4. finish_bitmap_read(s, io.blk, e) \in VhdState
  BY <1>1, FinishBitmapReadType
<1>5. finish_bitmap_write(s, io.blk, e) \in VhdState
  <2>1. [s.bm[io.blk] EXCEPT !.wr = FALSE] \in Bitmap
    BY <1>1, BmField, ZenonT(40) DEF Bitmap
  <2> QED BY <1>1, <2>1, UpdBm, FinishBitmapTxType DEF finish_bitmap_write
<1>6. finish_zero_bm_write(s, io.blk, e) \in VhdState
  BY <1>1, FinishZeroType
<1>7. finish_redundant_bm_write(s) \in VhdState
  <2>1. s.vfree + 1 \in Int
    BY DEF VhdState
  <2> QED BY <2>1, UpdFields DEF finish_redundant_bm_write, free_vhd_request
<1>8. finish_bat_write(s, e) \in VhdState
  BY FinishBatWriteType
<1> QED BY <1>1, <1>2, <1>3, <1>4, <1>5, <1>6, <1>7, <1>8 DEF vhd_complete, AioOps

-----------------------------------------------------------------------------
(* Opening, the image file, the history variables.                          *)

LEMMA SectorZero == 0 \in Sectors
<1>1. NBlocks \in Nat \ {0} /\ SPB \in Nat \ {0}
  BY ConstantsAssumption
<1>2. NBlocks * SPB >= 1 /\ NBlocks * SPB \in Int
  BY <1>1
<1> QED BY <1>2 DEF Sectors

LEMMA FreshRequest ==
  /\ init_vhd_request \in Request
  /\ \A op \in {"read", "write", "status"}, x \in Sectors :
        [init_vhd_request EXCEPT !.op = op, !.sec = x] \in Request
<1>1. init_vhd_request \in Request
  BY SectorZero DEF init_vhd_request, Request, Errors, Values
<1> HIDE DEF init_vhd_request
<1> QED BY <1>1 DEF Request

LEMMA NextFreeType == \A bat : find_next_free_block(bat) \in Nat
<1>1. IsFiniteSet(Slots)
  <2>1. 0 \in Int /\ NSlots - 1 \in Int
    BY ConstantsAssumption
  <2> QED BY <2>1, FS_Interval DEF Slots
<1>2. \A bat : {n \in Slots : \E b \in Blocks : bat[b] >= n} \in SUBSET Slots
  OBVIOUS
<1> QED BY <1>1, <1>2, FS_Subset, FS_CardinalityType DEF find_next_free_block

LEMMA InitializeType ==
  ASSUME NEW p \in BOOLEAN, NEW bat \in [Blocks -> Entries],
         NEW batmap \in SUBSET Blocks, NEW req \in [Reqs -> Request]
  PROVE  /\ vhd_initialize(p, bat, batmap, req) \in VhdState
         /\ [vhd_initialize(p, bat, batmap, req) EXCEPT !.up = FALSE] \in VhdState
<1>1. [b \in Blocks |-> init_vhd_bitmap] \in [Blocks -> Bitmap]
  BY FreshBitmap
<1>2. find_next_free_block(bat) \in Nat /\ VReqs \in Int
  BY NextFreeType, ConstantsAssumption
<1>3. "ok" \in Errors
  BY DEF Errors
<1>4. vhd_initialize(p, bat, batmap, req) \in VhdState
  BY <1>1, <1>2, <1>3, Zero DEF vhd_initialize, VhdState
<1>5. \A s \in VhdState : [s EXCEPT !.up = FALSE] \in VhdState
  BY DEF VhdState
<1> QED BY <1>4, <1>5

LEMMA WrittenType ==
  ASSUME NEW d \in DiskState, NEW s \in VhdState, NEW io \in Tiocb
  PROVE  written(d, s, io) \in DiskState
<1>1. io.op \in AioOps /\ io.blk \in Blocks /\ (io.op = "data_write" => io.req \in Reqs)
  BY DEF Tiocb
<1>2. /\ \A f \in [Slots -> SUBSET Secs] : [d EXCEPT !.map = f] \in DiskState
      /\ \A f \in [Slots -> [Secs -> Values]] : [d EXCEPT !.data = f] \in DiskState
      /\ \A f \in [Blocks -> Entries] : [d EXCEPT !.bat = f] \in DiskState
  BY DEF DiskState
<1>3. ASSUME NEW m \in SUBSET Secs PROVE [d EXCEPT !.map[io.slot] = m] \in DiskState
  <2>1. [d.map EXCEPT ![io.slot] = m] \in [Slots -> SUBSET Secs]
    BY DEF DiskState
  <2> QED BY <1>2, <2>1
<1>4. ASSUME io.op = "data_write", NEW k
      PROVE  [d EXCEPT !.data[io.slot][k] = io.req] \in DiskState
  <2>1. io.req \in Values
    BY <1>1, <1>4 DEF Values
  <2>2. [d.data EXCEPT ![io.slot][k] = io.req] \in [Slots -> [Secs -> Values]]
    BY <2>1 DEF DiskState
  <2> QED BY <1>2, <2>2
<1>5. [d EXCEPT !.bat = [b \in Blocks |-> IF SameBatSector(b, io.blk)
                                          THEN s.bat_buf[b] ELSE d.bat[b]]] \in DiskState
  <2>1. [b \in Blocks |-> IF SameBatSector(b, io.blk) THEN s.bat_buf[b] ELSE d.bat[b]]
          \in [Blocks -> Entries]
    BY DEF DiskState, VhdState
  <2> QED BY <1>2, <2>1
<1>6. s.bm[io.blk].shadow \in SUBSET Secs
  BY <1>1, BmField DEF Bitmap
<1> QED BY <1>3, <1>4, <1>5, <1>6 DEF written

LEMMA FetchedType ==
  ASSUME NEW d \in DiskState, NEW s \in VhdState, NEW io \in Tiocb
  PROVE  fetched(d, s, io) \in VhdState
<1>1. io.blk \in Blocks /\ (io.op = "data_read" => io.req \in Reqs)
  BY DEF Tiocb
<1>2. CASE io.op = "data_read"
  <2>1. sec_of(s.req[io.req].sec) \in Secs /\ s.req[io.req] \in Request
    BY <1>1, <1>2, ReqField
  <2>2. data_at(d, io.slot, sec_of(s.req[io.req].sec)) \in Values
    BY <2>1 DEF data_at, DiskState, Values
  <2> QED BY <1>1, <1>2, <2>1, <2>2, RequestTypes, UpdReq DEF fetched
<1>3. CASE io.op = "bitmap_read"
  <2>1. map_at(d, io.slot) \in SUBSET Secs
    BY DEF map_at, DiskState
  <2>2. [s.bm[io.blk] EXCEPT !.map = map_at(d, io.slot)] \in Bitmap
    BY <1>1, <2>1, BmField DEF Bitmap
  <2> QED BY <1>1, <1>3, <2>2, UpdBm DEF fetched
<1> QED BY <1>2, <1>3 DEF fetched

LEMMA ZeroedType ==
  ASSUME NEW d \in DiskState, NEW Z
  PROVE  zeroed(d, Z) \in DiskState
<1>1. [x \in Slots |-> IF x \in Z THEN {} ELSE d.map[x]] \in [Slots -> SUBSET Secs]
  BY DEF DiskState
<1>2. [x \in Slots |-> IF x \in Z THEN [k \in Secs |-> Junk] ELSE d.data[x]]
        \in [Slots -> [Secs -> Values]]
  BY DEF DiskState, Values
<1>3. \A f \in [Slots -> SUBSET Secs], g \in [Slots -> [Secs -> Values]] :
         [d EXCEPT !.map = f, !.data = g] \in DiskState
  BY DEF DiskState
<1> QED BY <1>1, <1>2, <1>3 DEF zeroed

LEMMA SubmittedType ==
  ASSUME NEW r \in Reqs, NEW op, NEW x \in Sectors, Submitted(r, op, x),
         cand \in [Sectors -> SUBSET Values], bound \in [Reqs -> SUBSET Values]
  PROVE  cand' \in [Sectors -> SUBSET Values] /\ bound' \in [Reqs -> SUBSET Values]
<1>1. r \in Values /\ cand[x] \in SUBSET Values /\ Settled(x) \in SUBSET Values
  BY DEF Values, Settled
<1>2. cand' \in [Sectors -> SUBSET Values]
  BY <1>1 DEF Submitted
<1>3. bound' \in [Reqs -> SUBSET Values]
  BY <1>1 DEF Submitted
<1> QED BY <1>2, <1>3

LEMMA RequestInput ==
  ASSUME vhd \in VhdState, NEW r \in Reqs, NEW x \in ClientSecs,
         NEW op \in {"read", "write", "status"}
  PROVE  with_request(r, op, x) \in VhdState /\ x \in Sectors
<1>1. x \in Sectors
  BY ConstantsAssumption DEF Sectors
<1> QED BY <1>1, FreshRequest, UpdReq DEF with_request

LEMMA DieType ==
  ASSUME vhd \in VhdState, crashes \in Nat, Die
  PROVE  vhd' \in VhdState /\ crashes' \in Nat
<1>1. unanswered(vhd) \in [Reqs -> Request]
  <2>1. ASSUME NEW r \in Reqs PROVE unanswered(vhd)[r] \in Request
    BY ReqField, RequestTypes DEF unanswered, Errors
  <2> QED BY <2>1 DEF unanswered
<1>2. [b \in Blocks |-> DD_BLK_UNUSED] \in [Blocks -> Entries]
  BY Zero
<1>3. vhd.prealloc \in BOOLEAN
  BY DEF VhdState
<1>4. vhd' \in VhdState
  BY <1>1, <1>2, <1>3, InitializeType DEF Die
<1> QED BY <1>4 DEF Die

LEMMA InitTypeOK == Init => TypeOK
<1> SUFFICES ASSUME Init PROVE TypeOK
  OBVIOUS
<1>1. PICK p \in Modes :
        vhd = vhd_initialize(p, [b \in Blocks |-> DD_BLK_UNUSED], {},
                             [r \in Reqs |-> init_vhd_request])
  BY DEF Init
<1>2. p \in BOOLEAN
  BY ConstantsAssumption
<1>3. [b \in Blocks |-> DD_BLK_UNUSED] \in [Blocks -> Entries]
  BY Zero
<1>4. [r \in Reqs |-> init_vhd_request] \in [Reqs -> Request]
  BY FreshRequest
<1>5. vhd \in VhdState
  BY <1>1, <1>2, <1>3, <1>4, InitializeType
<1>6. disk \in DiskState
  BY <1>3 DEF Init, DiskState, Values
<1> QED BY <1>5, <1>6 DEF Init, TypeOK, Values

LEMMA NextTypeOK == TypeOK /\ [Next]_vars => TypeOK'
<1> SUFFICES ASSUME TypeOK, [Next]_vars PROVE TypeOK'
  OBVIOUS
<1> USE DEF TypeOK
<1>1. ASSUME NEW r \in Reqs, NEW x \in ClientSecs, QueueRead(r, x) PROVE TypeOK'
  <2>1. with_request(r, "read", x) \in VhdState /\ x \in Sectors
    BY RequestInput
  <2>2. vhd' \in VhdState
    BY <1>1, <2>1, QueueReadType DEF QueueRead
  <2> QED BY <1>1, <2>1, <2>2, SubmittedType DEF QueueRead
<1>2. ASSUME NEW r \in Reqs, NEW x \in ClientSecs, QueueWrite(r, x) PROVE TypeOK'
  <2>1. with_request(r, "write", x) \in VhdState /\ x \in Sectors
    BY RequestInput
  <2>2. PICK v \in Victims(vhd), w \in {"ok"} \cup {e \in {"EIO"} : "sync" \in FailOps} :
          LET q == vhd_queue_write(with_request(r, "write", x), r, v, w)
          IN  vhd' = q.s /\ disk' = zeroed(disk, q.zero)
    BY <1>2 DEF QueueWrite
  <2>3. vhd_queue_write(with_request(r, "write", x), r, v, w) \in ResultType
    BY <2>1, QueueWriteType DEF Errors
  <2>4. vhd' \in VhdState /\ disk' \in DiskState
    BY <2>2, <2>3, ZeroedType DEF ResultType
  <2> QED BY <1>2, <2>1, <2>4, SubmittedType DEF QueueWrite
<1>3. ASSUME NEW r \in Reqs, NEW x \in ClientSecs, QueueStatus(r, x) PROVE TypeOK'
  <2>1. with_request(r, "status", x) \in VhdState /\ x \in Sectors
    BY RequestInput
  <2>2. vhd' \in VhdState
    BY <1>3, <2>1, QueueStatusType DEF QueueStatus
  <2> QED BY <1>3, <2>1, <2>2, SubmittedType DEF QueueStatus
<1>4. ASSUME NEW io \in vhd.aio, Land(io) PROVE TypeOK'
  <2>1. io \in Tiocb
    BY DEF VhdState
  <2>2. disk' \in DiskState
    BY <1>4, <2>1, WrittenType DEF Land
  <2>3. fetched(disk, vhd, io) \in VhdState
    BY <2>1, FetchedType
  <2>4. [io EXCEPT !.landed = TRUE] \in Tiocb
    BY <2>1 DEF Tiocb
  <2>5. (fetched(disk, vhd, io).aio \ {io}) \cup {[io EXCEPT !.landed = TRUE]} \in SUBSET Tiocb
    BY <2>3, <2>4 DEF VhdState
  <2>6. vhd' \in VhdState
    BY <1>4, <2>3, <2>5, AddAio DEF Land
  <2> QED BY <1>4, <2>2, <2>6 DEF Land
<1>5. ASSUME NEW io \in vhd.aio, Complete(io) PROVE TypeOK'
  <2>1. io \in Tiocb /\ vhd.aio \ {io} \in SUBSET Tiocb
    BY DEF VhdState
  <2>2. [vhd EXCEPT !.aio = vhd.aio \ {io}] \in VhdState
    BY <2>1, AddAio
  <2>3. PICK e \in Outcomes(io) : vhd' = vhd_complete([vhd EXCEPT !.aio = @ \ {io}], io, e)
    BY <1>5 DEF Complete
  <2>4. e \in Errors
    BY DEF Outcomes, Errors
  <2>5. vhd' \in VhdState
    BY <2>1, <2>2, <2>3, <2>4, VhdCompleteType
  <2>6. cand' \in [Sectors -> SUBSET Values] /\ bound' = bound
    BY <1>5 DEF Complete, Signalled
  <2> QED BY <1>5, <2>5, <2>6 DEF Complete
<1>6. ASSUME NEW io \in vhd.aio, Abort(io) PROVE TypeOK'
  BY <1>6, DieType DEF Abort
<1>7. CASE Crash
  BY <1>7, DieType DEF Crash
<1>8. CASE Close
  <2>1. disk' \in DiskState
    BY <1>8 DEF Close, DiskState, VhdState
  <2> QED BY <1>8, <2>1, DieType DEF Close
<1>9. CASE Open
  <2>1. /\ vhd.prealloc \in BOOLEAN /\ vhd.req \in [Reqs -> Request]
        /\ disk.bat \in [Blocks -> Entries] /\ disk.batmap \in SUBSET Blocks
    BY DEF VhdState, DiskState
  <2> QED BY <1>9, <2>1, InitializeType DEF Open
<1>10. CASE UNCHANGED vars
  BY <1>10 DEF vars
<1> QED BY <1>1, <1>2, <1>3, <1>4, <1>5, <1>6, <1>7, <1>8, <1>9, <1>10 DEF Next, IOStep

(* In every reachable state of block-vhd.c's driver, for any geometry, pool *)
(* and cache size, client load and failures: struct vhd_state keeps its     *)
(* type (in particular a slot handed out by the allocator always fits the   *)
(* file and only client requests are attached to data I/O).                 *)
THEOREM TypeCorrect == Spec => []TypeOK
<1>1. Init => TypeOK
  BY InitTypeOK
<1>2. TypeOK /\ [Next]_vars => TypeOK'
  BY NextTypeOK
<1> QED BY <1>1, <1>2, PTL DEF Spec

-----------------------------------------------------------------------------
(* The inductive invariant                                                  *)

NoReq   == bm_req
NoBlock == -1

Data == {"data_read", "data_write"}

HasIO(s, b, op) == \E io \in s.aio : io.blk = b /\ io.op = op

TxIO(s, b, io) ==
  /\ io.blk = b
  /\ \/ io.op = "data_write" /\ io.req \in s.bm[b].tx.reqs
     \/ io.op = "zero_bm"
     \/ io.op = "bat" /\ s.prealloc
txios(s, b) == {io \in s.aio : TxIO(s, b, io)}

(* The block being allocated, and the slot that is a block's, in the file   *)
(* or soon.                                                                 *)
Mine(s, b)   == s.locked /\ s.pbw_blk = b
Own(s, d, b) == IF d.bat[b] # DD_BLK_UNUSED THEN d.bat[b]
                ELSE IF Mine(s, b) THEN s.pbw_offset ELSE DD_BLK_UNUSED

accepted(q) ==
  \/ q.st \in {"waiting", "io", "finished"}
  \/ q.st = "done" /\ q.err # "EBUSY"

-----------------------------------------------------------------------------
(* The driver's state.                                                      *)

(* The lock on the BAT is held while a bitmap is zeroed, while the BAT is   *)
(* written, and after a failed BAT write until the block's transaction is   *)
(* over; in the handler of the BAT write also when it has succeeded.        *)
Allocating(s) ==
  /\ s.bat[s.pbw_blk] = DD_BLK_UNUSED /\ s.pbw_offset = s.next_db /\ s.bat_err = "ok"
  /\ HasIO(s, s.pbw_blk, "zero_bm") \/ HasIO(s, s.pbw_blk, "bat")
  /\ s.bm[s.pbw_blk].tx.live

Failing(s, k) ==
  /\ s.bat[s.pbw_blk] = DD_BLK_UNUSED /\ s.pbw_offset = s.next_db /\ s.bat_err # "ok"
  /\ ~HasIO(s, s.pbw_blk, "zero_bm") /\ ~HasIO(s, s.pbw_blk, "bat")
  /\ s.bm[s.pbw_blk].tx.live => s.bm[s.pbw_blk].tx.err # "ok"
  /\ k # s.pbw_blk => s.bm[s.pbw_blk].tx.live /\ s.bm[s.pbw_blk].tx.closed

Done(s, k) ==
  /\ k = s.pbw_blk
  /\ s.bat[s.pbw_blk] = s.pbw_offset /\ s.next_db = s.pbw_offset + 1 /\ s.bat_err = "ok"
  /\ ~HasIO(s, s.pbw_blk, "zero_bm") /\ ~HasIO(s, s.pbw_blk, "bat")

BatOK(s, k) ==
  /\ \A b \in Blocks : s.bat[b] < s.next_db
  /\ \A b, x \in Blocks : b # x /\ s.bat[b] = s.bat[x] => s.bat[b] = DD_BLK_UNUSED
  /\ s.locked => s.pbw_offset \in Slots /\ (Allocating(s) \/ Failing(s, k) \/ Done(s, k))
  /\ ~s.locked => ~s.bat_tx /\ ~s.started /\ s.bat_err = "ok"

(* A block's bitmap and its transaction.                                    *)
BlkOK(s, b, k) ==
  LET m == s.bm[b]
      T == m.tx
  IN  /\ b \notin s.cached => m = init_vhd_bitmap
      /\ m.rd => /\ T = init_tx /\ m.queue = {} /\ ~m.wr /\ b \notin s.batmap
                 /\ s.bat[b] # DD_BLK_UNUSED /\ HasIO(s, b, "bitmap_read")
      /\ m.waiting # {} => m.rd
      /\ T.live \/ T = init_tx
      /\ T.err # "EBUSY"
      /\ m.queue # {} => T.closed \/ k = b
      /\ m.wr => T.closed /\ txios(s, b) = {} /\ b \notin s.batmap /\ HasIO(s, b, "bitmap_write")
      /\ (T.live \/ m.queue # {}) /\ s.bat[b] = DD_BLK_UNUSED => Mine(s, b)
      /\ T.upd => /\ ~s.prealloc /\ Mine(s, b) /\ T.live
                  /\ HasIO(s, b, "zero_bm") \/ HasIO(s, b, "bat")
      /\ T.upd /\ s.bat_tx => T.closed /\ txios(s, b) = {} /\ ~m.wr
      /\ ~m.rd => m.map \subseteq m.shadow /\ (T.live \/ m.shadow = m.map)
      /\ s.bat[b] = DD_BLK_UNUSED => m.map = {}
      /\ bitmap_in_use(m) => m.locked
      /\ m.locked => bitmap_in_use(m) \/ k = b
      /\ T.live => txios(s, b) # {} \/ m.wr \/ (T.upd /\ s.bat_tx) \/ k = b
      /\ b \in s.batmap => /\ s.bat[b] # DD_BLK_UNUSED
                           /\ b \in s.cached => m.map = Secs
      /\ T.reqs \cap m.queue = {}

(* started - finished counts the I/O a transaction waits for.               *)
TxOK(s, b) == s.bm[b].tx.started - s.bm[b].tx.finished = Cardinality(txios(s, b))

(* The requests on a bitmap's lists.                                        *)
MemOK(s, b) ==
  /\ \A r \in s.bm[b].waiting : s.req[r].st = "waiting" /\ blk_of(s.req[r].sec) = b
  /\ \A r \in Reqs : r \in s.bm[b].tx.reqs \cup s.bm[b].queue =>
       /\ s.req[r].st \in {"io", "finished"} /\ s.req[r].op = "write"
       /\ blk_of(s.req[r].sec) = b
  /\ \A r \in Reqs : r \in s.bm[b].tx.reqs =>
       (s.req[r].st = "finished" /\ s.req[r].err = "ok"
          => sec_of(s.req[r].sec) \in s.bm[b].shadow)

ReqOK(s, r, h) ==
  LET b == blk_of(s.req[r].sec)
  IN  /\ s.req[r].st = "waiting" => r \in s.bm[b].waiting
      /\ s.req[r].st = "io" /\ r # h => \E io \in s.aio : io.req = r /\ io.op \in Data
      /\ s.req[r].st = "finished" => r \in s.bm[b].tx.reqs \cup s.bm[b].queue
      /\ s.req[r].st \in {"waiting", "io", "finished"} => s.req[r].err # "EBUSY"
      /\ r = h => /\ s.req[r].st = "io" /\ ~\E io \in s.aio : io.req = r
                  /\ r \notin s.bm[b].tx.reqs \cup s.bm[b].queue

IoOK(s, io) ==
  LET m == s.bm[io.blk]
      q == s.req[io.req]
  IN  /\ io.op = "data_read" => /\ q.st = "io" /\ q.op = "read" /\ io.blk = blk_of(q.sec)
                                /\ io.slot = s.bat[io.blk] /\ io.slot # DD_BLK_UNUSED
      /\ io.op = "data_write" => /\ q.st = "io" /\ q.op = "write" /\ io.blk = blk_of(q.sec)
                                 /\ io.slot \in Slots
                                 /\ \/ io.slot = s.bat[io.blk]
                                    \/ /\ Mine(s, io.blk) /\ io.slot = s.pbw_offset
                                       /\ io.req \in m.tx.reqs \cup m.queue
      /\ io.op = "redundant_bm" => /\ q.op = "write" /\ accepted(q)
                                   /\ io.blk = blk_of(q.sec)
                                   /\ io.blk \in s.batmap /\ io.slot = s.bat[io.blk]
      /\ io.op = "bitmap_read" => io.req = bm_req /\ m.rd /\ io.slot = s.bat[io.blk]
      /\ io.op = "bitmap_write" =>
           /\ io.req = bm_req /\ m.wr
           /\ io.slot \in Slots
           /\ \/ io.slot = s.bat[io.blk]
              \/ Mine(s, io.blk) /\ io.slot = s.pbw_offset
      /\ io.op = "zero_bm" => /\ io.req = zero_req /\ Mine(s, io.blk) /\ ~s.started
                              /\ io.slot = s.pbw_offset /\ m.tx.upd
      /\ io.op = "bat" => /\ io.req = bat_req /\ Mine(s, io.blk) /\ s.started
                          /\ IF s.prealloc THEN bat_req \in m.tx.reqs ELSE m.tx.upd
                          /\ s.bat_buf = bat_sector(s)

Unique(s) ==
  \A i, j \in s.aio : i.op = j.op /\ i.blk = j.blk /\ i.req = j.req => i = j

Redundant(s) == {io \in s.aio : io.op = "redundant_bm"}

CountOK(s) ==
  /\ IsFiniteSet(s.aio)
  /\ Cardinality(s.cached) <= CacheSize
  /\ s.vfree >= 0
  /\ s.vfree + Cardinality(outstanding(s)) + Cardinality(Redundant(s)) = VReqs

Driver(s, h, k) ==
  /\ s \in VhdState
  /\ BatOK(s, k)
  /\ \A b \in Blocks : BlkOK(s, b, k)
  /\ \A b \in Blocks : TxOK(s, b)
  /\ \A b \in Blocks : MemOK(s, b)
  /\ \A r \in Reqs : ReqOK(s, r, h)
  /\ \A io \in s.aio : IoOK(s, io)
  /\ Unique(s)
  /\ CountOK(s)

-----------------------------------------------------------------------------
(* The driver and the file.                                                 *)

(* The BAT in the file is the driver's, but for the entry being written,    *)
(* and the entry is in the file exactly when its write has got there.       *)
FileBat(s, d) ==
  /\ d \in DiskState
  /\ s.up => \A b \in Blocks :
       \/ d.bat[b] = s.bat[b]
       \/ /\ s.bat[b] = DD_BLK_UNUSED /\ Mine(s, b) /\ d.bat[b] = s.pbw_offset
          /\ HasIO(s, b, "bat")
  /\ ~s.up => s.aio = {} /\ ~s.locked /\ s.cached = {} /\ outstanding(s) = {} /\ s.batmap = {}
  /\ \A b, x \in Blocks : b # x /\ d.bat[b] = d.bat[x] => d.bat[b] = DD_BLK_UNUSED
  /\ s.up => d.batmap \subseteq s.batmap
  /\ \A b \in s.batmap \cup d.batmap : d.bat[b] # DD_BLK_UNUSED
  /\ \A io \in s.aio : io.op = "bat" =>
       d.bat[io.blk] = IF io.landed THEN s.pbw_offset ELSE DD_BLK_UNUSED

(* What the driver knows of the bitmaps in the file.                        *)
FileMap(s, d) ==
  /\ \A b \in s.batmap \cup d.batmap : d.map[d.bat[b]] = Secs
  /\ \A b \in Blocks : b \in s.cached /\ ~s.bm[b].rd /\ s.bat[b] # DD_BLK_UNUSED
                           => s.bm[b].map \subseteq d.map[s.bat[b]]
  /\ \A b \in Blocks : s.bm[b].tx.upd /\ s.bat_tx /\ s.bm[b].tx.err = "ok"
                         => s.bm[b].shadow \subseteq d.map[s.pbw_offset]
  /\ \A io \in s.aio : io.landed =>
       /\ io.op = "bitmap_read" => s.bm[io.blk].map = d.map[io.slot]
       /\ io.op = "bitmap_write" => s.bm[io.blk].shadow \subseteq d.map[io.slot]
       /\ io.op = "zero_bm" => d.map[io.slot] = {}

FileOK(s, d) == FileBat(s, d) /\ FileMap(s, d)

-----------------------------------------------------------------------------
(* The file and the history.                                                *)

Good(s, d, c, x) == d.data[Own(s, d, blk_of(x))][sec_of(x)] \in c[x]

(* Every view of the sector is of the data in its slot: in the file, in the *)
(* cached bitmap and in the BAT.                                            *)
Set(s, d, x) ==
  LET b == blk_of(x)
  IN  /\ d.bat[b] # DD_BLK_UNUSED /\ sec_of(x) \in d.map[d.bat[b]]
      /\ s.up => /\ s.bat[b] = d.bat[b]
                 /\ b \in s.cached /\ ~s.bm[b].rd => sec_of(x) \in s.bm[b].map

(* The bitmap in a block's slot means something once it has been zeroed.    *)
Zeroed(s, b) == \A io \in s.aio : io.blk = b /\ io.op = "zero_bm" => io.landed

GoodOK(s, d, c) ==
  \A x \in Sectors :
    LET b == blk_of(x)
    IN  /\ /\ Own(s, d, b) # DD_BLK_UNUSED /\ Zeroed(s, b)
           /\ sec_of(x) \in d.map[Own(s, d, b)]
           => Good(s, d, c, x)
        /\ sec_of(x) \in s.bm[b].shadow /\ sec_of(x) \notin s.bm[b].map /\ ~s.bm[b].rd
           => Own(s, d, b) # DD_BLK_UNUSED /\ Good(s, d, c, x)

ParentOK(s, d, c) == \A x \in Sectors : Parent \in c[x] \/ Set(s, d, x)

(* The data of a write has reached the file: what is there now was written  *)
(* by it or since it was submitted.                                         *)
Fresh(s, d, c, n, r) ==
  LET x == s.req[r].sec
      o == Own(s, d, blk_of(x))
  IN  o # DD_BLK_UNUSED /\ d.data[o][sec_of(x)] \in c[x] \ n[r]

WriteOK(s, d, c, n, r, g) ==
  /\ r \in outstanding(s) /\ r # g => r \in c[s.req[r].sec]
  /\ s.req[r].st \in {"finished", "done"} /\ s.req[r].err = "ok" => Fresh(s, d, c, n, r)
  /\ s.req[r].st = "done" /\ s.req[r].err = "ok" => Set(s, d, s.req[r].sec)
  /\ \A v \in n[r] : v \in Reqs => s.req[v].st = "done" /\ s.req[v].err # "EBUSY"

ReadOK(s, c, n, r) ==
  /\ r \in outstanding(s) => c[s.req[r].sec] \subseteq n[r]
  /\ s.req[r].st = "done" /\ s.req[r].err = "ok" => s.req[r].val \in n[r]

IoHist(s, d, c, n, io) ==
  /\ io.op = "data_read" =>
       /\ Good(s, d, c, s.req[io.req].sec)
       /\ io.landed => s.req[io.req].val \in n[io.req]
  /\ io.op = "data_write" =>
       /\ io.landed => Fresh(s, d, c, n, io.req)
       /\ io.req \notin s.bm[io.blk].tx.reqs \cup s.bm[io.blk].queue
            => Set(s, d, s.req[io.req].sec)

CandOK(s, c) ==
  \A x \in Sectors : \A v \in c[x] : v \in Reqs =>
    accepted(s.req[v]) /\ s.req[v].op = "write" /\ s.req[v].sec = x

(* g is a write that is being submitted and is not among the candidates yet.*)
History(s, d, c, n, g) ==
  /\ c \in [Sectors -> SUBSET Values] /\ n \in [Reqs -> SUBSET Values]
  /\ CandOK(s, c)
  /\ GoodOK(s, d, c)
  /\ ParentOK(s, d, c)
  /\ \A r \in Reqs : s.req[r].op = "write" => WriteOK(s, d, c, n, r, g)
  /\ \A r \in Reqs : s.req[r].op = "read" => ReadOK(s, c, n, r)
  /\ \A io \in s.aio : IoHist(s, d, c, n, io)

IInv == /\ Driver(vhd, NoReq, NoBlock) /\ FileOK(vhd, disk)
        /\ History(vhd, disk, cand, bound, NoReq) /\ crashes \in Nat

-----------------------------------------------------------------------------
(* Steps that concern one block leave the others alone.                     *)

LocalTo(s, t, b) ==
  /\ t.prealloc = s.prealloc
  /\ \A x \in Blocks : x # b =>
       /\ t.bm[x] = s.bm[x] /\ t.bat[x] = s.bat[x]
       /\ x \in t.cached <=> x \in s.cached
       /\ x \in t.batmap <=> x \in s.batmap
       /\ Mine(t, x) <=> Mine(s, x)
  /\ s.locked /\ s.pbw_blk # b =>
       /\ t.pbw_offset = s.pbw_offset /\ t.bat_tx = s.bat_tx /\ t.started = s.started
       /\ t.bat_buf = s.bat_buf /\ t.bat = s.bat
  /\ \A io \in Tiocb : io.blk # b => (io \in t.aio <=> io \in s.aio)
  /\ \A r \in Reqs : /\ t.req[r].sec = s.req[r].sec
                     /\ blk_of(s.req[r].sec) # b => t.req[r] = s.req[r]

LEMMA LocalIOs ==
  ASSUME NEW s \in VhdState, NEW t \in VhdState, NEW b \in Blocks, LocalTo(s, t, b),
         NEW x \in Blocks, x # b
  PROVE  /\ \A op : HasIO(t, x, op) <=> HasIO(s, x, op)
         /\ txios(t, x) = txios(s, x)
         /\ \A io \in t.aio : io.blk = x => io \in s.aio
<1>1. s.aio \subseteq Tiocb /\ t.aio \subseteq Tiocb
  BY DEF VhdState
<1>2. \A io : io.blk = x => (io \in t.aio <=> io \in s.aio)
  BY <1>1 DEF LocalTo
<1>3. t.bm[x] = s.bm[x] /\ t.prealloc = s.prealloc
  BY DEF LocalTo
<1> QED BY <1>2, <1>3 DEF HasIO, txios, TxIO

LEMMA LocalBlk ==
  ASSUME NEW s \in VhdState, NEW t \in VhdState, NEW b \in Blocks, LocalTo(s, t, b),
         NEW x \in Blocks, x # b, NEW k, k # x, NEW k2, BlkOK(s, x, k)
  PROVE  BlkOK(t, x, k2)
<1>1. /\ \A op : HasIO(t, x, op) <=> HasIO(s, x, op)
      /\ txios(t, x) = txios(s, x)
  BY LocalIOs
<1>2. /\ t.bm[x] = s.bm[x] /\ t.bat[x] = s.bat[x] /\ t.prealloc = s.prealloc
      /\ x \in t.cached <=> x \in s.cached
      /\ x \in t.batmap <=> x \in s.batmap
      /\ Mine(t, x) <=> Mine(s, x)
      /\ Mine(s, x) => t.bat_tx = s.bat_tx
  BY DEF LocalTo, Mine
<1> QED BY <1>1, <1>2 DEF BlkOK

LEMMA LocalRest ==
  ASSUME NEW s \in VhdState, NEW t \in VhdState, NEW b \in Blocks, LocalTo(s, t, b)
  PROVE  /\ \A x \in Blocks : x # b /\ TxOK(s, x) => TxOK(t, x)
         /\ \A x \in Blocks : x # b /\ MemOK(s, x) => MemOK(t, x)
         /\ \A io \in t.aio : io.blk # b /\ IoOK(s, io) => IoOK(t, io)
<1>1. ASSUME NEW x \in Blocks, x # b, TxOK(s, x) PROVE TxOK(t, x)
  BY <1>1, LocalIOs DEF TxOK, LocalTo
<1>2. ASSUME NEW x \in Blocks, x # b, MemOK(s, x) PROVE MemOK(t, x)
  <2>1. t.bm[x] = s.bm[x]
    BY <1>2 DEF LocalTo
  <2>2. \A r \in Reqs : blk_of(s.req[r].sec) = x => t.req[r] = s.req[r]
    BY <1>2 DEF LocalTo
  <2>3. s.bm[x].waiting \subseteq Reqs
    BY BmField DEF Bitmap
  <2> QED BY <1>2, <2>1, <2>2, <2>3 DEF MemOK
<1>3. ASSUME NEW io \in t.aio, io.blk # b, IoOK(s, io) PROVE IoOK(t, io)
  <2>1. io \in Tiocb /\ io.blk \in Blocks
    BY DEF VhdState, Tiocb
  <2>2. /\ t.bm[io.blk] = s.bm[io.blk] /\ t.bat[io.blk] = s.bat[io.blk]
        /\ io.blk \in t.batmap <=> io.blk \in s.batmap
        /\ Mine(t, io.blk) <=> Mine(s, io.blk)
        /\ t.prealloc = s.prealloc
        /\ Mine(s, io.blk) => /\ t.pbw_offset = s.pbw_offset /\ t.started = s.started
                              /\ t.bat_buf = s.bat_buf /\ t.bat = s.bat
    BY <1>3, <2>1 DEF LocalTo, Mine
  <2>3. io.op \in {"data_read", "data_write", "redundant_bm"}
          => io.req \in Reqs /\ t.req[io.req] = s.req[io.req]
    BY <1>3, <2>1 DEF LocalTo, IoOK, Tiocb
  <2>4. Mine(s, io.blk) => bat_sector(t) = bat_sector(s)
    BY <2>2 DEF Mine, bat_sector
  <2> QED BY <1>3, <2>2, <2>3, <2>4 DEF IoOK
<1> QED BY <1>1, <1>2, <1>3

LEMMA LocalReq ==
  ASSUME NEW s \in VhdState, NEW t \in VhdState, NEW b \in Blocks, LocalTo(s, t, b),
         NEW r \in Reqs, blk_of(s.req[r].sec) # b, NEW h, r # h, NEW h2, r # h2,
         \A io \in s.aio : IoOK(s, io), ReqOK(s, r, h)
  PROVE  ReqOK(t, r, h2)
<1>1. t.req[r] = s.req[r] /\ blk_of(s.req[r].sec) \in Blocks
  BY ReqField DEF LocalTo
<1>2. t.bm[blk_of(s.req[r].sec)] = s.bm[blk_of(s.req[r].sec)]
  BY <1>1 DEF LocalTo
<1>3. ASSUME NEW io \in s.aio, io.req = r, io.op \in Data PROVE io \in t.aio
  <2>1. io \in Tiocb
    BY DEF VhdState
  <2>2. io.blk # b
    BY <1>3 DEF IoOK, Data
  <2> QED BY <2>1, <2>2 DEF LocalTo
<1> QED BY <1>1, <1>2, <1>3 DEF ReqOK

(* A step that concerns block b keeps the invariant if it keeps what is     *)
(* said of b, of its I/O and requests, and what concerns the whole driver.  *)
LEMMA LocalDriver ==
  ASSUME NEW s, NEW t \in VhdState, NEW b \in Blocks, LocalTo(s, t, b),
         NEW h, NEW k, NEW h2, NEW k2, Driver(s, h, k),
         k \in {b, NoBlock}, k2 \in {b, NoBlock},
         \A r \in {h, h2} : r \in Reqs => blk_of(s.req[r].sec) = b,
         BatOK(t, k2), BlkOK(t, b, k2), TxOK(t, b), MemOK(t, b),
         \A r \in Reqs : blk_of(s.req[r].sec) = b => ReqOK(t, r, h2),
         \A io \in t.aio : io.blk = b => IoOK(t, io),
         Unique(t), CountOK(t)
  PROVE  Driver(t, h2, k2)
<1>1. s \in VhdState
  BY DEF Driver
<1>2. ASSUME NEW x \in Blocks PROVE BlkOK(t, x, k2)
  <2>1. CASE x = b
    BY <2>1
  <2>2. CASE x # b
    <3>1. k # x
      BY <2>2 DEF NoBlock, Blocks
    <3> QED BY <1>1, <2>2, <3>1, LocalBlk DEF Driver
  <2> QED BY <2>1, <2>2
<1>3. ASSUME NEW x \in Blocks PROVE TxOK(t, x) /\ MemOK(t, x)
  BY <1>1, LocalRest DEF Driver
<1>4. ASSUME NEW r \in Reqs PROVE ReqOK(t, r, h2)
  <2>1. CASE blk_of(s.req[r].sec) = b
    BY <2>1
  <2>2. CASE blk_of(s.req[r].sec) # b
    <3>1. r # h /\ r # h2
      BY <2>2
    <3> QED BY <1>1, <2>2, <3>1, LocalReq DEF Driver
  <2> QED BY <2>1, <2>2
<1>5. ASSUME NEW io \in t.aio PROVE IoOK(t, io)
  <2>1. CASE io.blk = b
    BY <2>1
  <2>2. CASE io.blk # b
    <3>1. io \in s.aio
      <4>1. io \in Tiocb
        BY DEF VhdState
      <4> QED BY <4>1, <2>2 DEF LocalTo
    <3> QED BY <1>1, <2>2, <3>1, LocalRest DEF Driver
  <2> QED BY <2>1, <2>2
<1> QED BY <1>2, <1>3, <1>4, <1>5 DEF Driver

(* Nothing changes in the BAT, its lock or the BAT's buffers.               *)
SameBat(s, t) ==
  /\ t.bat = s.bat /\ t.next_db = s.next_db /\ t.locked = s.locked
  /\ t.started = s.started /\ t.pbw_blk = s.pbw_blk /\ t.pbw_offset = s.pbw_offset
  /\ t.bat_err = s.bat_err /\ t.bat_tx = s.bat_tx /\ t.bat_buf = s.bat_buf

LEMMA BatFrame ==
  ASSUME NEW s, NEW t, NEW k, SameBat(s, t), BatOK(s, k),
         s.locked =>
           LET p == s.pbw_blk
           IN  /\ HasIO(t, p, "zero_bm") <=> HasIO(s, p, "zero_bm")
               /\ HasIO(t, p, "bat") <=> HasIO(s, p, "bat")
               /\ t.bm[p].tx.live <=> s.bm[p].tx.live
               /\ s.bm[p].tx.err # "ok" => t.bm[p].tx.err # "ok"
               /\ s.bm[p].tx.closed => t.bm[p].tx.closed
  PROVE  BatOK(t, k)
  BY DEF SameBat, BatOK, Allocating, Failing, Done

LEMMA OutFinite ==
  ASSUME NEW s
  PROVE  IsFiniteSet(outstanding(s)) /\ Cardinality(outstanding(s)) \in Nat
<1>1. IsFiniteSet(Reqs) /\ outstanding(s) \subseteq Reqs
  BY ConstantsAssumption DEF outstanding
<1> QED BY <1>1, FS_Subset, FS_CardinalityType

LEMMA RedundantFinite ==
  ASSUME NEW s, IsFiniteSet(s.aio)
  PROVE  IsFiniteSet(Redundant(s)) /\ Cardinality(Redundant(s)) \in Nat
<1>1. Redundant(s) \subseteq s.aio
  BY DEF Redundant
<1> QED BY <1>1, FS_Subset, FS_CardinalityType

(* One request is taken or given back.                                      *)
LEMMA CountOne ==
  ASSUME NEW s \in VhdState, NEW t \in VhdState, NEW r \in Reqs, CountOK(s),
         IsFiniteSet(t.aio), Redundant(t) = Redundant(s), t.cached = s.cached,
         \A q \in Reqs : q # r => (q \in outstanding(t) <=> q \in outstanding(s)),
         t.vfree >= 0,
         t.vfree = s.vfree + (IF r \in outstanding(s) THEN 1 ELSE 0)
                           - (IF r \in outstanding(t) THEN 1 ELSE 0)
  PROVE  CountOK(t)
<1> DEFINE O == outstanding(s)
           P == outstanding(t)
<1>1. IsFiniteSet(O) /\ IsFiniteSet(P) /\ Cardinality(O) \in Nat /\ Cardinality(P) \in Nat
  BY OutFinite
<1>2. O \subseteq Reqs /\ P \subseteq Reqs
  BY DEF outstanding
<1>3. Cardinality(P) - Cardinality(O) = (IF r \in P THEN 1 ELSE 0) - (IF r \in O THEN 1 ELSE 0)
  <2>1. CASE r \in O /\ r \in P
    <3>1. O = P BY <1>2, <2>1
    <3> QED BY <1>1, <2>1, <3>1
  <2>2. CASE r \notin O /\ r \notin P
    <3>1. O = P BY <1>2, <2>2
    <3> QED BY <1>1, <2>2, <3>1
  <2>3. CASE r \in O /\ r \notin P
    <3>1. P = O \ {r} BY <1>2, <2>3
    <3>2. Cardinality(P) = Cardinality(O) - 1 BY <1>1, <2>3, <3>1, FS_RemoveElement
    <3> QED BY <1>1, <2>3, <3>2
  <2>4. CASE r \notin O /\ r \in P
    <3>1. P = O \cup {r} BY <1>2, <2>4
    <3>2. Cardinality(P) = Cardinality(O) + 1 BY <1>1, <2>4, <3>1, FS_AddElement
    <3> QED BY <1>1, <2>4, <3>2
  <2> QED BY <2>1, <2>2, <2>3, <2>4
<1>4. s.vfree \in Int /\ t.vfree \in Int /\ VReqs \in Nat
  BY ConstantsAssumption DEF VhdState
<1>5. Cardinality(Redundant(s)) \in Nat
  BY RedundantFinite DEF CountOK
<1> HIDE DEF O, P
<1>6. t.vfree + Cardinality(P) + Cardinality(Redundant(t)) = VReqs
  <2>1. s.vfree + Cardinality(O) + Cardinality(Redundant(s)) = VReqs
    BY DEF CountOK, O
  <2>2. t.vfree = s.vfree + (IF r \in O THEN 1 ELSE 0) - (IF r \in P THEN 1 ELSE 0)
    BY DEF O, P
  <2> QED BY <1>1, <1>3, <1>4, <1>5, <2>1, <2>2
<1> QED BY <1>6 DEF CountOK, P

(* A request that is on no list and has no I/O.                             *)
Loose(s, r) ==
  /\ s.req[r].st \in {"free", "done", "io"}
  /\ \A io \in s.aio : io.req # r
  /\ \A b \in Blocks : r \notin s.bm[b].waiting \cup s.bm[b].tx.reqs \cup s.bm[b].queue

(* Only the request r, and the number of free requests, are different.      *)
OnlyReq(s, t, r) ==
  /\ SameBat(s, t) /\ t.up = s.up /\ t.prealloc = s.prealloc /\ t.batmap = s.batmap
  /\ t.cached = s.cached /\ t.bm = s.bm /\ t.aio = s.aio
  /\ \A q \in Reqs : q # r => t.req[q] = s.req[q]

LEMMA LooseStep ==
  ASSUME NEW s, NEW t \in VhdState, NEW r \in Reqs, NEW h, NEW h2, NEW k,
         Driver(s, h, k), Loose(s, r), OnlyReq(s, t, r),
         h \in {r, NoReq}, h2 \in {r, NoReq},
         t.req[r].st \in {"free", "done", "io"}, t.req[r].st = "io" <=> h2 = r,
         h2 = r => t.req[r].err # "EBUSY",
         t.vfree >= 0,
         t.vfree = s.vfree + (IF h = r THEN 1 ELSE 0) - (IF h2 = r THEN 1 ELSE 0)
  PROVE  Driver(t, h2, k)
<1>1. s \in VhdState
  BY DEF Driver
<1>0. r # NoReq
  BY ConstantsAssumption DEF NoReq, bm_req, MetaReqs
<1>2. \A x, op : HasIO(t, x, op) <=> HasIO(s, x, op)
  BY DEF HasIO, OnlyReq
<1>3. \A x : txios(t, x) = txios(s, x)
  BY DEF txios, TxIO, OnlyReq
<1>4. BatOK(t, k)
  BY <1>2, BatFrame DEF OnlyReq, Driver
<1>5. ASSUME NEW x \in Blocks PROVE BlkOK(t, x, k)
  <2>1. BlkOK(s, x, k)
    BY DEF Driver
  <2> QED BY <2>1, <1>2, <1>3 DEF BlkOK, OnlyReq, SameBat, Mine
<1>6. ASSUME NEW x \in Blocks PROVE TxOK(t, x)
  BY <1>3 DEF Driver, TxOK, OnlyReq
<1>7. ASSUME NEW x \in Blocks PROVE MemOK(t, x)
  <2>1. MemOK(s, x) /\ s.bm[x].waiting \subseteq Reqs
    BY <1>1, BmField DEF Driver, Bitmap
  <2>2. \A q \in Reqs : q \in s.bm[x].waiting \cup s.bm[x].tx.reqs \cup s.bm[x].queue
          => t.req[q] = s.req[q]
    BY DEF Loose, OnlyReq
  <2>3. t.bm[x] = s.bm[x]
    BY DEF OnlyReq
  <2> QED BY <2>1, <2>2, <2>3 DEF MemOK
<1>8. ASSUME NEW q \in Reqs PROVE ReqOK(t, q, h2)
  <2>1. CASE q = r
    <3>1. t.aio = s.aio /\ t.bm = s.bm /\ blk_of(t.req[r].sec) \in Blocks
      BY ReqField DEF OnlyReq
    <3> QED BY <2>1, <3>1, <1>0 DEF ReqOK, Loose
  <2>2. CASE q # r
    <3>1. t.req[q] = s.req[q] /\ t.aio = s.aio /\ t.bm = s.bm /\ ReqOK(s, q, h)
      BY <2>2 DEF OnlyReq, Driver
    <3>2. q # h /\ q # h2
      BY <2>2, ConstantsAssumption DEF NoReq, bm_req, MetaReqs
    <3> QED BY <3>1, <3>2 DEF ReqOK
  <2> QED BY <2>1, <2>2
<1>9. ASSUME NEW io \in t.aio PROVE IoOK(t, io)
  <2>1. io \in s.aio /\ IoOK(s, io) /\ io \in Tiocb
    BY <1>1 DEF OnlyReq, Driver, VhdState
  <2>2. io.req \in Reqs => t.req[io.req] = s.req[io.req]
    BY <2>1 DEF Loose, OnlyReq
  <2>3. io.op \in {"data_read", "data_write", "redundant_bm"} => io.req \in Reqs
    BY <2>1 DEF Tiocb
  <2> QED BY <2>1, <2>2, <2>3 DEF IoOK, OnlyReq, SameBat, Mine, bat_sector
<1>10. Unique(t)
  BY DEF Driver, Unique, OnlyReq
<1>11. CountOK(t)
  <2>1. CountOK(s)
    BY DEF Driver
  <2>2. IsFiniteSet(t.aio) /\ Redundant(t) = Redundant(s) /\ t.cached = s.cached
    BY <2>1 DEF OnlyReq, CountOK, Redundant
  <2>3. \A q \in Reqs : q # r => (q \in outstanding(t) <=> q \in outstanding(s))
    BY DEF OnlyReq, outstanding
  <2>4. (r \in outstanding(t) <=> h2 = r)
    BY DEF outstanding
  <2>5. (r \in outstanding(s) <=> h = r)
    <3>1. ReqOK(s, r, h)
      BY DEF Driver
    <3>2. h = r => s.req[r].st = "io"
      BY <3>1 DEF ReqOK
    <3>3. h # r => s.req[r].st # "io"
      BY <3>1 DEF ReqOK, Loose
    <3> QED BY <3>2, <3>3 DEF outstanding, Loose
  <2> QED BY <1>1, <2>1, <2>2, <2>3, <2>4, <2>5, CountOne
<1> QED BY <1>4, <1>5, <1>6, <1>7, <1>8, <1>9, <1>10, <1>11 DEF Driver

-----------------------------------------------------------------------------
(* What the small updates change.                                           *)

(* Besides requests and I/O, at most the bitmap of block b is different.    *)
OnlyBlk(s, t, b) ==
  /\ SameBat(s, t) /\ t.up = s.up /\ t.prealloc = s.prealloc /\ t.batmap = s.batmap
  /\ t.cached = s.cached /\ \A x \in Blocks : x # b => t.bm[x] = s.bm[x]

LEMMA WithBm ==
  ASSUME NEW s \in VhdState, NEW b \in Blocks, NEW m
  PROVE  LET t == with_bm(s, b, m)
         IN  /\ OnlyBlk(s, t, b) /\ t.bm[b] = m /\ t.req = s.req /\ t.vfree = s.vfree
             /\ t.aio = s.aio
  BY DEF with_bm, OnlyBlk, SameBat, VhdState

LEMMA WithReq ==
  ASSUME NEW s \in VhdState, NEW r \in Reqs, NEW q
  PROVE  LET t == with_req(s, r, q)
         IN  OnlyReq(s, t, r) /\ t.req[r] = q /\ t.vfree = s.vfree
  BY DEF with_req, OnlyReq, SameBat, VhdState

LEMMA QueueEffect ==
  ASSUME NEW s \in VhdState, NEW op, NEW b, NEW r, NEW slot
  PROVE  LET t == queue_tiocb(s, op, b, r, slot)
         IN  /\ SameBat(s, t) /\ t.up = s.up /\ t.prealloc = s.prealloc
             /\ t.batmap = s.batmap /\ t.cached = s.cached /\ t.bm = s.bm
             /\ t.req = s.req /\ t.vfree = s.vfree
             /\ t.aio = s.aio \cup {[op |-> op, blk |-> b, req |-> r, slot |-> slot,
                                     landed |-> FALSE]}
  BY DEF queue_tiocb, SameBat, VhdState

(* A step of block b that leaves the BAT alone is local.                    *)
LEMMA OnlyBlkLocal ==
  ASSUME NEW s \in VhdState, NEW t \in VhdState, NEW b \in Blocks, OnlyBlk(s, t, b),
         \A io \in Tiocb : io.blk # b => (io \in t.aio <=> io \in s.aio),
         \A r \in Reqs : /\ t.req[r].sec = s.req[r].sec
                         /\ blk_of(s.req[r].sec) # b => t.req[r] = s.req[r]
  PROVE  LocalTo(s, t, b)
  BY DEF LocalTo, OnlyBlk, SameBat, Mine

-----------------------------------------------------------------------------
(* The request in hand joins a transaction, or the queue behind it, and its *)
(* data is written.                                                         *)

Joining(m, r) ==
  IF m.tx.closed THEN [m EXCEPT !.locked = TRUE, !.queue = @ \cup {r}]
  ELSE [m EXCEPT !.locked = TRUE, !.tx = joined(@, {r})]

LEMMA JoinEffect ==
  ASSUME NEW s \in VhdState, NEW b \in Blocks, NEW r \in Reqs
  PROVE  /\ join_transaction(s, b, r) = with_bm(s, b, Joining(s.bm[b], r))
         /\ join_transaction(s, b, r) \in VhdState
<1>1. CASE s.bm[b].tx.closed
  <2>1. join_transaction(s, b, r) = with_bm(s, b, Joining(s.bm[b], r))
    BY <1>1 DEF join_transaction, Joining
  <2>2. Joining(s.bm[b], r) \in Bitmap
    BY <1>1, BmField DEF Joining, Bitmap
  <2> QED BY <2>1, <2>2, UpdBm
<1>2. CASE ~s.bm[b].tx.closed
  <2>1. lock_bitmap(s, b).bm[b] = [s.bm[b] EXCEPT !.locked = TRUE]
    BY DEF lock_bitmap, with_bm, VhdState
  <2>2. [s.bm[b] EXCEPT !.locked = TRUE].tx = s.bm[b].tx
    BY BmField DEF Bitmap
  <2>3. add_to_transaction(lock_bitmap(s, b), b, r)
          = with_bm(lock_bitmap(s, b), b,
                    [[s.bm[b] EXCEPT !.locked = TRUE] EXCEPT !.tx = joined(s.bm[b].tx, {r})])
    BY <2>1, <2>2 DEF add_to_transaction, with_tx
  <2>4. [[s.bm[b] EXCEPT !.locked = TRUE] EXCEPT !.tx = joined(s.bm[b].tx, {r})]
          = Joining(s.bm[b], r)
    BY <1>2, BmField DEF Joining, Bitmap
  <2>5. \A m : with_bm(lock_bitmap(s, b), b, m) = with_bm(s, b, m)
    BY DEF lock_bitmap, with_bm, VhdState
  <2>6. join_transaction(s, b, r) = with_bm(s, b, Joining(s.bm[b], r))
    BY <1>2, <2>3, <2>4, <2>5 DEF join_transaction
  <2>7. join_transaction(s, b, r) \in VhdState
    BY <1>2, LockType, AddType DEF join_transaction
  <2> QED BY <2>6, <2>7
<1> QED BY <1>1, <1>2

LEMMA JoinFields ==
  ASSUME NEW m \in Bitmap, NEW r \in Reqs, NEW j, j = Joining(m, r)
  PROVE  /\ j.locked /\ j.rd = m.rd /\ j.wr = m.wr /\ j.map = m.map
         /\ j.shadow = m.shadow /\ j.waiting = m.waiting
         /\ m.tx.closed => j.tx = m.tx /\ j.queue = m.queue \cup {r}
         /\ ~m.tx.closed => /\ j.queue = m.queue
                            /\ j.tx.err = m.tx.err /\ j.tx.closed = m.tx.closed
                            /\ j.tx.started = m.tx.started + 1
                            /\ j.tx.finished = m.tx.finished /\ j.tx.live
                            /\ j.tx.upd = m.tx.upd /\ j.tx.reqs = m.tx.reqs \cup {r}
<1>1. Cardinality({r}) = 1
  BY FS_Singleton
<1> QED BY <1>1 DEF Joining, joined, Bitmap, Tx

LEMMA NotMeta ==
  ASSUME NEW r \in Reqs
  PROVE  r # NoReq /\ r # zero_req /\ r # bat_req /\ r # bm_req
  BY ConstantsAssumption DEF NoReq, zero_req, bat_req, bm_req

LEMMA MoreIO ==
  ASSUME NEW s, NEW t, NEW io, CountOK(s), t.aio = s.aio \cup {io}
  PROVE  IsFiniteSet(t.aio)
  BY FS_AddElement DEF CountOK

(* Requests and counts are as they were.                                    *)
LEMMA CountSame ==
  ASSUME NEW s, NEW t, CountOK(s), IsFiniteSet(t.aio), Redundant(t) = Redundant(s),
         t.cached = s.cached, outstanding(t) = outstanding(s), t.vfree = s.vfree
  PROVE  CountOK(t)
  BY DEF CountOK

LEMMA JoinDriver ==
  ASSUME NEW s, NEW r \in Reqs, NEW b \in Blocks, NEW slot \in Slots,
         Driver(s, r, NoBlock), blk_of(s.req[r].sec) = b, s.req[r].op = "write",
         b \in s.cached, ~s.bm[b].rd, s.bat[b] = DD_BLK_UNUSED => Mine(s, b),
         \/ slot = s.bat[b]
         \/ Mine(s, b) /\ slot = s.pbw_offset
  PROVE  Driver(queue_tiocb(join_transaction(s, b, r), "data_write", b, r, slot),
                NoReq, NoBlock)
<1> DEFINE j  == join_transaction(s, b, r)
           t  == queue_tiocb(j, "data_write", b, r, slot)
           io == [op |-> "data_write", blk |-> b, req |-> r, slot |-> slot, landed |-> FALSE]
<1>1. s \in VhdState
  BY DEF Driver
<1>2. j \in VhdState /\ OnlyBlk(s, j, b) /\ j.bm[b] = Joining(s.bm[b], r) /\ j.req = s.req
      /\ j.vfree = s.vfree /\ j.aio = s.aio
  BY <1>1, JoinEffect, WithBm
<1>3. t \in VhdState
  BY <1>2, DataAio DEF Entries, AioOps
<1>4. /\ OnlyBlk(s, t, b) /\ t.bm[b] = Joining(s.bm[b], r) /\ t.req = s.req
      /\ t.vfree = s.vfree /\ t.aio = s.aio \cup {io}
  BY <1>2, QueueEffect DEF OnlyBlk, SameBat
<1> HIDE DEF j, t
<1>5. /\ io.op = "data_write" /\ io.blk = b /\ io.req = r /\ io.slot = slot
  OBVIOUS
<1> HIDE DEF io
<1>6. LocalTo(s, t, b)
  <2>1. \A i \in Tiocb : i.blk # b => (i \in t.aio <=> i \in s.aio)
    BY <1>4, <1>5
  <2> QED BY <1>1, <1>3, <1>4, <2>1, OnlyBlkLocal
<1> DEFINE m == s.bm[b]
           T == s.bm[b].tx
           n == t.bm[b]
<1>7. /\ n.locked /\ n.rd = m.rd /\ n.wr = m.wr /\ n.map = m.map
      /\ n.shadow = m.shadow /\ n.waiting = m.waiting
      /\ T.closed => n.tx = T /\ n.queue = m.queue \cup {r}
      /\ ~T.closed => /\ n.queue = m.queue
                      /\ n.tx.err = T.err /\ n.tx.closed = T.closed
                      /\ n.tx.started = T.started + 1
                      /\ n.tx.finished = T.finished /\ n.tx.live
                      /\ n.tx.upd = T.upd /\ n.tx.reqs = T.reqs \cup {r}
  <2>1. n = Joining(m, r) /\ m \in Bitmap
    BY <1>1, <1>4, BmField
  <2> HIDE DEF n
  <2>2. /\ n.locked /\ n.rd = m.rd /\ n.wr = m.wr /\ n.map = m.map
        /\ n.shadow = m.shadow /\ n.waiting = m.waiting
    BY <2>1, JoinFields
  <2>3. T.closed => n.tx = T /\ n.queue = m.queue \cup {r}
    BY <2>1, JoinFields
  <2>4. ~T.closed => /\ n.queue = m.queue
                     /\ n.tx.err = T.err /\ n.tx.closed = T.closed
                     /\ n.tx.started = T.started + 1
    BY <2>1, JoinFields
  <2>5. ~T.closed => /\ n.tx.finished = T.finished /\ n.tx.live
                     /\ n.tx.upd = T.upd /\ n.tx.reqs = T.reqs \cup {r}
    BY <2>1, JoinFields
  <2> QED BY <2>2, <2>3, <2>4, <2>5
<1> HIDE DEF n
<1>8. BlkOK(s, b, NoBlock) /\ MemOK(s, b) /\ TxOK(s, b) /\ ReqOK(s, r, r) /\ BatOK(s, NoBlock)
      /\ CountOK(s) /\ Unique(s) /\ \A i \in s.aio : IoOK(s, i)
  BY DEF Driver
<1>9. r \notin T.reqs /\ r \notin m.queue /\ \A i \in s.aio : i.req # r
  BY <1>8 DEF ReqOK
<1>10. \A op : op # "data_write" => (HasIO(t, b, op) <=> HasIO(s, b, op))
  BY <1>4, <1>5 DEF HasIO
<1>11. txios(t, b) = IF T.closed THEN txios(s, b) ELSE txios(s, b) \cup {io}
  <2>1. t.prealloc = s.prealloc
    BY <1>4 DEF OnlyBlk
  <2>2. \A i \in s.aio : TxIO(t, b, i) <=> TxIO(s, b, i)
    BY <1>7, <1>9, <2>1 DEF TxIO, n
  <2>3. TxIO(t, b, io) <=> ~T.closed
    BY <1>5, <1>7, <1>9 DEF TxIO, n
  <2> QED BY <1>4, <2>2, <2>3 DEF txios
<1>12. s.locked /\ s.pbw_blk = b => T.live
  BY <1>8 DEF BatOK, Allocating, Failing, Done, NoBlock, Blocks
<1>13. BatOK(t, NoBlock)
  <2>1. s.locked => LET p == s.pbw_blk
           IN  /\ HasIO(t, p, "zero_bm") <=> HasIO(s, p, "zero_bm")
               /\ HasIO(t, p, "bat") <=> HasIO(s, p, "bat")
               /\ t.bm[p].tx.live <=> s.bm[p].tx.live
               /\ s.bm[p].tx.err # "ok" => t.bm[p].tx.err # "ok"
               /\ s.bm[p].tx.closed => t.bm[p].tx.closed
    <3>1. CASE s.locked /\ s.pbw_blk = b
      BY <3>1, <1>7, <1>10, <1>12 DEF n
    <3>2. CASE s.locked /\ s.pbw_blk # b
      <4>1. s.pbw_blk \in Blocks
        BY <1>1 DEF VhdState
      <4> QED BY <3>2, <4>1, <1>1, <1>3, <1>4, <1>6, LocalIOs DEF OnlyBlk
    <3> QED BY <3>1, <3>2
  <2> QED BY <2>1, <1>4, <1>8, BatFrame DEF OnlyBlk
<1>14. BlkOK(t, b, NoBlock)
  <2>1. /\ t.bat = s.bat /\ t.prealloc = s.prealloc /\ t.batmap = s.batmap
        /\ t.cached = s.cached /\ t.bat_tx = s.bat_tx /\ (Mine(t, b) <=> Mine(s, b))
    BY <1>4 DEF OnlyBlk, SameBat, Mine
  <2>2. CASE T.closed
    BY <2>1, <2>2, <1>7, <1>8, <1>9, <1>10, <1>11 DEF BlkOK, n, bitmap_in_use
  <2>3. CASE ~T.closed
    BY <2>1, <2>3, <1>7, <1>8, <1>9, <1>10, <1>11 DEF BlkOK, n, bitmap_in_use
  <2> QED BY <2>2, <2>3
<1>15. TxOK(t, b)
  <2>1. CASE T.closed
    BY <2>1, <1>7, <1>8, <1>11 DEF TxOK, n
  <2>2. CASE ~T.closed
    <3>1. IsFiniteSet(txios(s, b)) /\ io \notin txios(s, b)
      <4>1. txios(s, b) \subseteq s.aio
        BY DEF txios
      <4> QED BY <4>1, <1>8, <1>5, <1>9, FS_Subset DEF CountOK
    <3>2. Cardinality(txios(t, b)) = Cardinality(txios(s, b)) + 1
      BY <2>2, <3>1, <1>11, FS_AddElement
    <3>3. Cardinality(txios(s, b)) \in Nat /\ T \in Tx
      BY <3>1, <1>1, FS_CardinalityType, BmField
    <3>4. n.tx.started = T.started + 1 /\ n.tx.finished = T.finished
      BY <2>2, <1>7
    <3>5. T.started \in Nat /\ T.finished \in Nat
      BY <3>3 DEF Tx
    <3>6. T.started - T.finished = Cardinality(txios(s, b))
      BY <1>8 DEF TxOK
    <3>7. n.tx.started - n.tx.finished = Cardinality(txios(t, b))
      BY <3>2, <3>3, <3>4, <3>5, <3>6
    <3> QED BY <3>7 DEF TxOK, n
  <2> QED BY <2>1, <2>2
<1>16. MemOK(t, b)
  <2>1. s.req[r].st = "io"
    BY <1>8 DEF ReqOK
  <2>2. /\ n.tx.reqs \cup n.queue \subseteq T.reqs \cup m.queue \cup {r}
        /\ n.tx.reqs \subseteq T.reqs \cup {r}
        /\ n.waiting = m.waiting /\ n.shadow = m.shadow
    BY <1>7
  <2>3. t.req = s.req
    BY <1>4
  <2>4. MemOK(s, b)
    BY <1>8
  <2>5. n.waiting = m.waiting => \A q \in n.waiting : t.req[q].st = "waiting" /\ blk_of(t.req[q].sec) = b
    BY <2>3, <2>4 DEF MemOK
  <2>6. \A q \in Reqs : q \in n.tx.reqs \cup n.queue =>
           /\ t.req[q].st \in {"io", "finished"} /\ t.req[q].op = "write"
           /\ blk_of(t.req[q].sec) = b
    <3>1. \A q \in Reqs : q \in T.reqs \cup m.queue =>
            /\ s.req[q].st \in {"io", "finished"} /\ s.req[q].op = "write"
            /\ blk_of(s.req[q].sec) = b
      BY <2>4 DEF MemOK
    <3> QED BY <2>1, <2>2, <2>3, <3>1
  <2>7. \A q \in Reqs : q \in n.tx.reqs =>
          (t.req[q].st = "finished" /\ t.req[q].err = "ok"
             => sec_of(t.req[q].sec) \in n.shadow)
    BY <2>1, <2>2, <2>3, <2>4 DEF MemOK
  <2> QED BY <2>2, <2>5, <2>6, <2>7 DEF MemOK, n
<1>17. ASSUME NEW q \in Reqs, blk_of(s.req[q].sec) = b PROVE ReqOK(t, q, NoReq)
  <2>1. ReqOK(s, q, r) /\ q # NoReq
    BY NotMeta DEF Driver
  <2>2. m.tx.reqs \cup m.queue \subseteq n.tx.reqs \cup n.queue
    BY <1>7
  <2>3. io \in t.aio /\ s.aio \subseteq t.aio /\ t.req = s.req /\ n.waiting = m.waiting
    BY <1>4, <1>7
  <2>4. io.req = r /\ io.op \in Data
    BY <1>5 DEF Data
  <2> QED BY <2>1, <2>2, <2>3, <2>4, <1>17 DEF ReqOK, n
<1>18. ASSUME NEW i \in t.aio, i.blk = b PROVE IoOK(t, i)
  <2>1. /\ t.bat = s.bat /\ t.prealloc = s.prealloc /\ t.batmap = s.batmap
        /\ t.pbw_offset = s.pbw_offset /\ t.started = s.started /\ t.bat_buf = s.bat_buf
        /\ (Mine(t, b) <=> Mine(s, b)) /\ bat_sector(t) = bat_sector(s)
    BY <1>4 DEF OnlyBlk, SameBat, Mine, bat_sector
  <2>2. r \in n.tx.reqs \cup n.queue /\ T.reqs \subseteq n.tx.reqs
        /\ m.queue \subseteq n.queue /\ n.tx.upd = T.upd
    BY <1>7
  <2>3. CASE i = io
    BY <2>1, <2>2, <2>3, <1>4, <1>5, <1>8 DEF IoOK, ReqOK, n
  <2>4. CASE i \in s.aio
    <3>1. IoOK(s, i)
      BY <1>8, <2>4
    <3> QED BY <3>1, <2>1, <2>2, <1>4, <1>7, <1>18 DEF IoOK, n
  <2> QED BY <2>3, <2>4, <1>4
<1>19. Unique(t)
  BY <1>4, <1>5, <1>8, <1>9 DEF Unique
<1>20. CountOK(t)
  <2>1. IsFiniteSet(t.aio)
    BY <1>4, <1>8, MoreIO
  <2>2. Redundant(t) = Redundant(s)
    BY <1>4, <1>5 DEF Redundant
  <2> QED BY <2>1, <2>2, <1>4, <1>8, CountSame DEF OnlyBlk, outstanding
<1>21. NoBlock \in {b, NoBlock} /\ \A q \in {r, NoReq} : q \in Reqs => blk_of(s.req[q].sec) = b
  BY NotMeta
<1> QED BY <1>3, <1>6, <1>13, <1>14, <1>15, <1>16, <1>17, <1>18, <1>19, <1>20, <1>21,
           LocalDriver DEF t, j

LEMMA IoField ==
  ASSUME NEW s \in VhdState, NEW io \in s.aio
  PROVE  /\ io \in Tiocb /\ io.blk \in Blocks /\ io.slot \in Entries /\ io.op \in AioOps
         /\ io.req \in Reqs \cup MetaReqs /\ io.landed \in BOOLEAN
         /\ io.op \in {"data_read", "data_write", "redundant_bm"} => io.req \in Reqs
<1>1. io \in Tiocb
  BY DEF VhdState
<1> QED BY <1>1 DEF Tiocb

LEMMA BlkNo ==
  ASSUME NEW b \in Blocks
  PROVE  b # NoBlock /\ b \in Int
  BY DEF NoBlock, Blocks

LEMMA BatFrame2 ==
  ASSUME NEW s \in VhdState, NEW t, NEW b \in Blocks, NEW k, NEW k2, SameBat(s, t), BatOK(s, k),
         k2 = k \/ k = NoBlock,
         s.locked =>
           LET p == s.pbw_blk
           IN  /\ HasIO(t, p, "zero_bm") <=> HasIO(s, p, "zero_bm")
               /\ HasIO(t, p, "bat") <=> HasIO(s, p, "bat")
               /\ t.bm[p].tx.live <=> s.bm[p].tx.live
               /\ s.bm[p].tx.err # "ok" => t.bm[p].tx.err # "ok"
               /\ s.bm[p].tx.closed => t.bm[p].tx.closed
  PROVE  BatOK(t, k2)
<1>1. s.pbw_blk # NoBlock
  BY BlkNo DEF VhdState
<1>2. BatOK(s, k2)
  BY <1>1 DEF BatOK, Failing, Done
<1> QED BY <1>2, BatFrame

(* A step of one block that leaves the BAT alone.                           *)
LEMMA BlkDriver ==
  ASSUME NEW s, NEW t \in VhdState, NEW b \in Blocks, NEW h, NEW k, NEW h2, NEW k2,
         Driver(s, h, k), OnlyBlk(s, t, b),
         k \in {b, NoBlock}, k2 \in {b, NoBlock}, k2 = k \/ k = NoBlock,
         \A r \in {h, h2} : r \in Reqs => blk_of(s.req[r].sec) = b,
         \A io \in Tiocb : io.blk # b => (io \in t.aio <=> io \in s.aio),
         \A r \in Reqs : /\ t.req[r].sec = s.req[r].sec
                         /\ blk_of(s.req[r].sec) # b => t.req[r] = s.req[r],
         Mine(s, b) => /\ HasIO(t, b, "zero_bm") <=> HasIO(s, b, "zero_bm")
                       /\ HasIO(t, b, "bat") <=> HasIO(s, b, "bat")
                       /\ t.bm[b].tx.live <=> s.bm[b].tx.live
                       /\ s.bm[b].tx.err # "ok" => t.bm[b].tx.err # "ok"
                       /\ s.bm[b].tx.closed => t.bm[b].tx.closed,
         BlkOK(t, b, k2), TxOK(t, b), MemOK(t, b),
         \A r \in Reqs : blk_of(s.req[r].sec) = b => ReqOK(t, r, h2),
         \A io \in t.aio : io.blk = b => IoOK(t, io),
         Unique(t), CountOK(t)
  PROVE  Driver(t, h2, k2)
<1>1. s \in VhdState
  BY DEF Driver
<1>2. LocalTo(s, t, b)
  BY <1>1, OnlyBlkLocal
<1>3. s.locked =>
           LET p == s.pbw_blk
           IN  /\ HasIO(t, p, "zero_bm") <=> HasIO(s, p, "zero_bm")
               /\ HasIO(t, p, "bat") <=> HasIO(s, p, "bat")
               /\ t.bm[p].tx.live <=> s.bm[p].tx.live
               /\ s.bm[p].tx.err # "ok" => t.bm[p].tx.err # "ok"
               /\ s.bm[p].tx.closed => t.bm[p].tx.closed
  <2>1. CASE s.locked /\ s.pbw_blk = b
    BY <2>1 DEF Mine
  <2>2. CASE s.locked /\ s.pbw_blk # b
    <3>1. s.pbw_blk \in Blocks
      BY <1>1 DEF VhdState
    <3>2. t.bm[s.pbw_blk] = s.bm[s.pbw_blk]
      BY <3>1, <2>2 DEF OnlyBlk
    <3>3. \A op : HasIO(t, s.pbw_blk, op) <=> HasIO(s, s.pbw_blk, op)
      BY <1>1, <1>2, <2>2, <3>1, LocalIOs
    <3> QED BY <3>2, <3>3
  <2> QED BY <2>1, <2>2
<1>4. BatOK(t, k2)
  <2>1. BatOK(s, k) /\ SameBat(s, t)
    BY DEF Driver, OnlyBlk
  <2> QED BY <1>1, <1>3, <2>1, BatFrame2
<1> QED BY <1>2, <1>4, LocalDriver

(* An I/O of block b is over.                                               *)
LEMMA LessIO ==
  ASSUME NEW s \in VhdState, NEW t, NEW io \in s.aio, t.aio = s.aio \ {io},
         Unique(s), CountOK(s)
  PROVE  /\ \A x, op : op # io.op \/ x # io.blk => (HasIO(t, x, op) <=> HasIO(s, x, op))
         /\ \A x, op : HasIO(t, x, op) => HasIO(s, x, op)
         /\ \A i \in Tiocb : i.blk # io.blk => (i \in t.aio <=> i \in s.aio)
         /\ Unique(t) /\ IsFiniteSet(t.aio)
         /\ io.op # "redundant_bm" => Redundant(t) = Redundant(s)
<1>1. IsFiniteSet(t.aio)
  BY FS_RemoveElement DEF CountOK
<1> QED BY <1>1 DEF HasIO, Unique, Redundant

(* What an I/O relies on is kept.                                           *)
LEMMA IoKeep ==
  ASSUME NEW s \in VhdState, NEW t, NEW io \in s.aio, IoOK(s, io), SameBat(s, t),
         t.prealloc = s.prealloc, t.batmap = s.batmap,
         io.req \in Reqs =>
           /\ t.req[io.req].op = s.req[io.req].op /\ t.req[io.req].sec = s.req[io.req].sec
           /\ io.op \in Data => t.req[io.req].st = s.req[io.req].st
           /\ io.op = "redundant_bm" => accepted(t.req[io.req]),
         LET m == s.bm[io.blk]
             n == t.bm[io.blk]
         IN  /\ m.rd /\ io.op = "bitmap_read" => n.rd
             /\ m.wr /\ io.op = "bitmap_write" => n.wr
             /\ m.tx.upd /\ io.op \in {"zero_bm", "bat"} => n.tx.upd
             /\ bat_req \in m.tx.reqs /\ io.op = "bat" => bat_req \in n.tx.reqs
             /\ io.req \in m.tx.reqs \cup m.queue /\ io.op = "data_write"
                  => io.req \in n.tx.reqs \cup n.queue
  PROVE  IoOK(t, io)
<1>1. /\ t.bat = s.bat /\ t.prealloc = s.prealloc /\ t.batmap = s.batmap
      /\ t.pbw_offset = s.pbw_offset /\ t.started = s.started /\ t.bat_buf = s.bat_buf
      /\ (Mine(t, io.blk) <=> Mine(s, io.blk)) /\ bat_sector(t) = bat_sector(s)
  BY DEF SameBat, Mine, bat_sector
<1>2. io.op \in {"data_read", "data_write", "redundant_bm"} => io.req \in Reqs
  BY IoField
<1> QED BY <1>1, <1>2 DEF IoOK, Data

(* A request is given back.                                                 *)
LEMMA CountLess ==
  ASSUME NEW s \in VhdState, NEW t, NEW r, CountOK(s), IsFiniteSet(t.aio),
         Redundant(t) = Redundant(s), t.cached = s.cached, r \in outstanding(s),
         outstanding(t) = outstanding(s) \ {r}, t.vfree = s.vfree + 1
  PROVE  CountOK(t)
<1>1. Cardinality(outstanding(t)) = Cardinality(outstanding(s)) - 1
  BY OutFinite, FS_RemoveElement
<1>2. Cardinality(outstanding(s)) \in Nat /\ Cardinality(Redundant(s)) \in Nat
      /\ s.vfree \in Int /\ VReqs \in Nat
  BY OutFinite, RedundantFinite, ConstantsAssumption DEF CountOK, VhdState
<1> QED BY <1>1, <1>2 DEF CountOK

(* A step that only changes requests and data I/O keeps a block's bitmap.   *)
LEMMA BlkSame ==
  ASSUME NEW s, NEW t, NEW b, NEW k, BlkOK(s, b, k), t.bm[b] = s.bm[b],
         t.bat = s.bat, t.prealloc = s.prealloc, t.batmap = s.batmap, t.cached = s.cached,
         t.bat_tx = s.bat_tx, Mine(t, b) <=> Mine(s, b), txios(t, b) = txios(s, b),
         \A op \in {"bitmap_read", "bitmap_write", "zero_bm", "bat"} :
            HasIO(t, b, op) <=> HasIO(s, b, op)
  PROVE  BlkOK(t, b, k)
<1>1. /\ HasIO(t, b, "bitmap_read") <=> HasIO(s, b, "bitmap_read")
      /\ HasIO(t, b, "bitmap_write") <=> HasIO(s, b, "bitmap_write")
      /\ HasIO(t, b, "zero_bm") <=> HasIO(s, b, "zero_bm")
      /\ HasIO(t, b, "bat") <=> HasIO(s, b, "bat")
  OBVIOUS
<1> QED BY <1>1 DEF BlkOK

(* A request is over, or waits in a queue for the end of a transaction.     *)
LEMMA DataDriver ==
  ASSUME NEW s, NEW t \in VhdState, NEW io \in s.aio, NEW b, NEW r, b = io.blk, r = io.req,
         Driver(s, NoReq, NoBlock), io.op \in Data,
         OnlyBlk(s, t, b), t.bm[b] = s.bm[b], t.aio = s.aio \ {io},
         \A q \in Reqs : q # r => t.req[q] = s.req[q],
         t.req[r].sec = s.req[r].sec, t.req[r].op = s.req[r].op, t.req[r].err # "EBUSY",
         \/ /\ r \notin s.bm[b].tx.reqs \cup s.bm[b].queue
            /\ t.req[r].st = "done" /\ t.vfree = s.vfree + 1
         \/ /\ r \notin s.bm[b].tx.reqs /\ r \in s.bm[b].queue
            /\ t.req[r].st = "finished" /\ t.vfree = s.vfree
  PROVE  Driver(t, NoReq, NoBlock)
<1>1. s \in VhdState /\ BlkOK(s, b, NoBlock) /\ MemOK(s, b) /\ TxOK(s, b) /\ CountOK(s)
      /\ Unique(s) /\ b \in Blocks /\ r \in Reqs /\ IoOK(s, io)
  BY IoField DEF Driver, Data
<1>2. /\ s.req[r].st = "io" /\ blk_of(s.req[r].sec) = b
      /\ r \notin s.bm[b].tx.reqs /\ r \notin s.bm[b].waiting
  BY <1>1 DEF IoOK, Data, MemOK
<1>3. /\ \A x, op : op # io.op \/ x # io.blk => (HasIO(t, x, op) <=> HasIO(s, x, op))
      /\ \A i \in Tiocb : i.blk # io.blk => (i \in t.aio <=> i \in s.aio)
      /\ Unique(t) /\ IsFiniteSet(t.aio)
      /\ io.op # "redundant_bm" => Redundant(t) = Redundant(s)
  BY <1>1, LessIO
<1>4. txios(t, b) = txios(s, b)
  <2>1. ~TxIO(s, b, io)
    BY <1>2 DEF TxIO, Data
  <2>2. \A i : TxIO(t, b, i) <=> TxIO(s, b, i)
    BY DEF TxIO, OnlyBlk
  <2> QED BY <2>1, <2>2 DEF txios
<1>5. \A op : op \in AioOps \ Data => (HasIO(t, b, op) <=> HasIO(s, b, op))
  BY <1>3
<1>6. BlkOK(t, b, NoBlock)
  <2>1. /\ t.bat = s.bat /\ t.prealloc = s.prealloc /\ t.batmap = s.batmap
        /\ t.cached = s.cached /\ t.bat_tx = s.bat_tx /\ (Mine(t, b) <=> Mine(s, b))
    BY DEF OnlyBlk, SameBat, Mine
  <2>2. \A op \in {"bitmap_read", "bitmap_write", "zero_bm", "bat"} :
           HasIO(t, b, op) <=> HasIO(s, b, op)
    BY <1>5 DEF AioOps, Data
  <2> QED BY <2>1, <2>2, <1>1, <1>4, BlkSame
<1>7. TxOK(t, b)
  BY <1>1, <1>4 DEF TxOK
<1>8. MemOK(t, b)
  <2>1. s.bm[b].waiting \subseteq Reqs
    BY <1>1, BmField DEF Bitmap
  <2>2. \A q \in s.bm[b].waiting : q # r /\ t.req[q] = s.req[q]
    BY <1>2, <2>1
  <2>3. \A q \in s.bm[b].waiting : t.req[q].st = "waiting" /\ blk_of(t.req[q].sec) = b
    BY ONLY <1>1, <2>2 DEF MemOK
  <2>4. ASSUME NEW q \in Reqs, q \in s.bm[b].tx.reqs \cup s.bm[b].queue
        PROVE  /\ t.req[q].st \in {"io", "finished"} /\ t.req[q].op = "write"
               /\ blk_of(t.req[q].sec) = b
               /\ q \in s.bm[b].tx.reqs => t.req[q] = s.req[q]
    <3>1. s.req[q].st \in {"io", "finished"} /\ s.req[q].op = "write" /\ blk_of(s.req[q].sec) = b
      BY ONLY <1>1, <2>4 DEF MemOK
    <3>2. CASE q = r
      <4>1. t.req[r].st = "finished"
        BY <2>4, <3>2
      <4> QED BY <3>1, <3>2, <4>1, <1>2
    <3>3. CASE q # r
      BY <3>1, <3>3
    <3> QED BY <3>2, <3>3
  <2>5. \A q \in Reqs : q \in s.bm[b].tx.reqs =>
           (t.req[q].st = "finished" /\ t.req[q].err = "ok"
              => sec_of(t.req[q].sec) \in s.bm[b].shadow)
    BY ONLY <1>1, <2>4 DEF MemOK
  <2> QED BY <2>3, <2>4, <2>5 DEF MemOK
<1>9. ASSUME NEW q \in Reqs, blk_of(s.req[q].sec) = b PROVE ReqOK(t, q, NoReq)
  <2>1. ReqOK(s, q, NoReq) /\ q # NoReq
    BY NotMeta DEF Driver
  <2>2. CASE q = r
    BY <2>1, <2>2, <1>2, <1>9, SMTT(30) DEF ReqOK
  <2>3. CASE q # r
    BY <2>1, <2>3, <1>9, SMTT(30) DEF ReqOK
  <2> QED BY <2>2, <2>3
<1>10. ASSUME NEW i \in t.aio, i.blk = b PROVE IoOK(t, i)
  <2>1. i \in s.aio /\ i # io /\ IoOK(s, i)
    BY DEF Driver
  <2>2. CASE i.req # r
    <3>1. i.req \in Reqs => t.req[i.req] = s.req[i.req]
      BY <2>2
    <3>2. i.op = "redundant_bm" => accepted(s.req[i.req])
      BY <2>1 DEF IoOK
    <3>3. t.bm[i.blk] = s.bm[i.blk] /\ SameBat(s, t) /\ t.prealloc = s.prealloc /\ t.batmap = s.batmap
      BY <1>10 DEF OnlyBlk
    <3> QED BY <2>1, <3>1, <3>2, <3>3, <1>1, IoKeep
  <2>3. CASE i.req = r
    <3>1. i.op \notin Data
      BY <2>1, <2>3, <1>1, <1>10 DEF Unique, IoOK, Data
    <3>2. accepted(t.req[r])
      BY DEF accepted
    <3> QED BY <2>1, <2>3, <3>1, <3>2, <1>1, <1>10, IoKeep DEF OnlyBlk
  <2> QED BY <2>2, <2>3
<1>11. CountOK(t)
  <2>1. r \in outstanding(s) /\ Redundant(t) = Redundant(s) /\ t.cached = s.cached
    BY <1>1, <1>2, <1>3 DEF outstanding, OnlyBlk, Data
  <2>2. CASE t.req[r].st = "done" /\ t.vfree = s.vfree + 1
    <3>1. outstanding(t) = outstanding(s) \ {r}
      BY <1>1, <2>2 DEF outstanding
    <3> QED BY <1>1, <1>3, <2>1, <2>2, <3>1, CountLess
  <2>3. CASE t.req[r].st = "finished" /\ t.vfree = s.vfree
    <3>1. outstanding(t) = outstanding(s)
      BY <1>1, <1>2, <2>3, SMTT(30) DEF outstanding
    <3> QED BY <1>1, <1>3, <2>1, <2>3, <3>1, CountSame
  <2> QED BY <2>2, <2>3
<1> QED BY <1>1, <1>2, <1>3, <1>5, <1>6, <1>7, <1>8, <1>9, <1>10, <1>11, NotMeta, BlkDriver
        DEF AioOps, Data

LEMMA NewIO ==
  ASSUME NEW s, NEW t, NEW io, t.aio = s.aio \cup {io}, CountOK(s), Unique(s),
         \A i \in s.aio : i.req # io.req \/ i.op # io.op \/ i.blk # io.blk
  PROVE  /\ \A x, op : op # io.op \/ x # io.blk => (HasIO(t, x, op) <=> HasIO(s, x, op))
         /\ HasIO(t, io.blk, io.op)
         /\ \A x, op : HasIO(s, x, op) => HasIO(t, x, op)
         /\ \A i \in Tiocb : i.blk # io.blk => (i \in t.aio <=> i \in s.aio)
         /\ Unique(t) /\ IsFiniteSet(t.aio)
         /\ io.op # "redundant_bm" => Redundant(t) = Redundant(s)
<1>1. IsFiniteSet(t.aio)
  BY MoreIO
<1> QED BY <1>1 DEF HasIO, Unique, Redundant

(* The request in hand goes straight to the file.                           *)
LEMMA PlainDriver ==
  ASSUME NEW s, NEW r \in Reqs, NEW b, NEW op \in Data,
         Driver(s, r, NoBlock), blk_of(s.req[r].sec) = b, s.bat[b] # DD_BLK_UNUSED,
         op = "data_read" => s.req[r].op = "read",
         op = "data_write" => s.req[r].op = "write"
  PROVE  Driver(queue_tiocb(s, op, b, r, s.bat[b]), NoReq, NoBlock)
<1> DEFINE t  == queue_tiocb(s, op, b, r, s.bat[b])
           io == [op |-> op, blk |-> b, req |-> r, slot |-> s.bat[b], landed |-> FALSE]
<1>1. s \in VhdState /\ b \in Blocks /\ s.bat[b] \in Slots /\ op \in AioOps
  BY ReqField, BatField DEF Driver, Entries, Data, AioOps
<1>2. t \in VhdState
  BY <1>1, DataAio DEF Entries
<1>3. OnlyBlk(s, t, b) /\ t.bm[b] = s.bm[b] /\ t.aio = s.aio \cup {io} /\ t.req = s.req
      /\ t.vfree = s.vfree /\ t.cached = s.cached
  BY <1>1, QueueEffect DEF OnlyBlk
<1>4. io.op = op /\ io.blk = b /\ io.req = r /\ io.slot = s.bat[b]
  OBVIOUS
<1> HIDE DEF t, io
<1>5. BlkOK(s, b, NoBlock) /\ MemOK(s, b) /\ TxOK(s, b) /\ ReqOK(s, r, r)
      /\ CountOK(s) /\ Unique(s) /\ \A i \in s.aio : IoOK(s, i)
  BY <1>1 DEF Driver
<1>6. /\ r \notin s.bm[b].tx.reqs /\ r \notin s.bm[b].queue /\ s.req[r].st = "io"
      /\ \A i \in s.aio : i.req # r
  BY <1>5 DEF ReqOK
<1>7. /\ \A x, o : o # io.op \/ x # io.blk => (HasIO(t, x, o) <=> HasIO(s, x, o))
      /\ \A i \in Tiocb : i.blk # io.blk => (i \in t.aio <=> i \in s.aio)
      /\ Unique(t) /\ IsFiniteSet(t.aio)
      /\ io.op # "redundant_bm" => Redundant(t) = Redundant(s)
  <2>1. CountOK(s) /\ Unique(s) /\ t.aio = s.aio \cup {io} /\ \A i \in s.aio : i.req # io.req
    BY <1>3, <1>4, <1>5, <1>6
  <2> QED BY <2>1, NewIO
<1>8. txios(t, b) = txios(s, b)
  <2>1. ~TxIO(t, b, io)
    BY <1>3, <1>4, <1>6 DEF TxIO, Data
  <2>2. \A i : TxIO(t, b, i) <=> TxIO(s, b, i)
    BY <1>3 DEF TxIO, OnlyBlk
  <2> QED BY <1>3, <2>1, <2>2 DEF txios
<1>9. \A o : o \in AioOps \ Data => (HasIO(t, b, o) <=> HasIO(s, b, o))
  BY <1>4, <1>7
<1>10. BlkOK(t, b, NoBlock)
  <2>1. /\ t.bat = s.bat /\ t.prealloc = s.prealloc /\ t.batmap = s.batmap
        /\ t.cached = s.cached /\ t.bat_tx = s.bat_tx /\ (Mine(t, b) <=> Mine(s, b))
    BY <1>3 DEF OnlyBlk, SameBat, Mine
  <2> QED BY <2>1, <1>3, <1>5, <1>8, <1>9 DEF BlkOK, AioOps, Data
<1>11. TxOK(t, b) /\ MemOK(t, b)
  <2>1. TxOK(t, b)
    BY <1>3, <1>5, <1>8 DEF TxOK
  <2>2. t.req = s.req /\ t.bm[b] = s.bm[b] /\ MemOK(s, b)
    BY <1>3, <1>5
  <2> QED BY <2>1, <2>2 DEF MemOK
<1>12. ASSUME NEW q \in Reqs, blk_of(s.req[q].sec) = b PROVE ReqOK(t, q, NoReq)
  <2>1. ReqOK(s, q, r) /\ q # NoReq
    BY NotMeta DEF Driver
  <2>2. io \in t.aio /\ s.aio \subseteq t.aio
    BY <1>3
  <2> QED BY <2>1, <2>2, <1>3, <1>4, <1>12 DEF ReqOK
<1>13. ASSUME NEW i \in t.aio, i.blk = b PROVE IoOK(t, i)
  <2>1. CASE i = io
    BY <2>1, <1>1, <1>3, <1>4, <1>6, <1>13 DEF IoOK, OnlyBlk, SameBat, Data
  <2>2. CASE i \in s.aio
    <3>1. IoOK(s, i)
      BY <2>2, <1>5
    <3>2. i.op = "redundant_bm" => accepted(s.req[i.req])
      BY <3>1 DEF IoOK
    <3>3. t.bm[i.blk] = s.bm[i.blk] /\ SameBat(s, t) /\ t.prealloc = s.prealloc /\ t.batmap = s.batmap
      BY <1>3, <1>13 DEF OnlyBlk
    <3> QED BY <1>1, <1>3, <2>2, <3>1, <3>2, <3>3, IoKeep
  <2> QED BY <1>3, <2>1, <2>2
<1>14. CountOK(t)
  BY <1>3, <1>4, <1>5, <1>7, CountSame DEF outstanding, Data
<1>15. \A q \in {r, NoReq} : q \in Reqs => blk_of(s.req[q].sec) = b
  BY NotMeta
<1>16. /\ HasIO(t, b, "zero_bm") <=> HasIO(s, b, "zero_bm")
       /\ HasIO(t, b, "bat") <=> HasIO(s, b, "bat")
       /\ \A i \in Tiocb : i.blk # b => (i \in t.aio <=> i \in s.aio)
  BY <1>4, <1>7, <1>9 DEF AioOps, Data
<1>17. Unique(t) /\ OnlyBlk(s, t, b) /\ t.bm[b] = s.bm[b] /\ t.req = s.req /\ b \in Blocks
  BY <1>1, <1>3, <1>7
<1>18. Driver(t, NoReq, NoBlock)
  BY <1>2, <1>10, <1>11, <1>12, <1>13, <1>14, <1>15, <1>16, <1>17, BlkDriver
<1> QED BY <1>18 DEF t

(* A redundant bitmap write starts or ends.                                 *)
LEMMA RedundantDriver ==
  ASSUME NEW s, NEW t \in VhdState, NEW io \in Tiocb, Driver(s, NoReq, NoBlock),
         io.op = "redundant_bm", OnlyBlk(s, t, io.blk), t.bm[io.blk] = s.bm[io.blk],
         t.req = s.req,
         \/ /\ io \notin s.aio /\ t.aio = s.aio \cup {io} /\ t.vfree = s.vfree - 1 /\ s.vfree # 0
            /\ \A i \in s.aio : i.op = "redundant_bm" => i.req # io.req
            /\ IoOK(s, io)
         \/ io \in s.aio /\ t.aio = s.aio \ {io} /\ t.vfree = s.vfree + 1
  PROVE  Driver(t, NoReq, NoBlock)
<1> DEFINE b == io.blk
<1>1. s \in VhdState /\ b \in Blocks /\ BlkOK(s, b, NoBlock) /\ MemOK(s, b) /\ TxOK(s, b)
      /\ CountOK(s) /\ Unique(s) /\ \A i \in s.aio : IoOK(s, i)
  BY DEF Driver, Tiocb
<1>2. /\ \A x, o : o # io.op \/ x # io.blk => (HasIO(t, x, o) <=> HasIO(s, x, o))
      /\ \A i \in Tiocb : i.blk # io.blk => (i \in t.aio <=> i \in s.aio)
      /\ Unique(t) /\ IsFiniteSet(t.aio)
  <2>1. CASE io \notin s.aio
    BY <2>1, <1>1, NewIO
  <2>2. CASE io \in s.aio
    BY <2>2, <1>1, LessIO
  <2> QED BY <2>1, <2>2
<1>3. txios(t, b) = txios(s, b)
  <2>1. ~TxIO(t, b, io)
    BY DEF TxIO
  <2>2. \A i : TxIO(t, b, i) <=> TxIO(s, b, i)
    BY DEF TxIO, OnlyBlk
  <2> QED BY <2>1, <2>2 DEF txios
<1>4. BlkOK(t, b, NoBlock)
  <2>1. /\ t.bat = s.bat /\ t.prealloc = s.prealloc /\ t.batmap = s.batmap
        /\ t.cached = s.cached /\ t.bat_tx = s.bat_tx /\ (Mine(t, b) <=> Mine(s, b))
    BY DEF OnlyBlk, SameBat, Mine
  <2> QED BY <2>1, <1>1, <1>2, <1>3 DEF BlkOK
<1>5. TxOK(t, b) /\ MemOK(t, b)
  BY <1>1, <1>3 DEF TxOK, MemOK
<1>6. ASSUME NEW q \in Reqs, blk_of(s.req[q].sec) = b PROVE ReqOK(t, q, NoReq)
  <2>1. ReqOK(s, q, NoReq) /\ q # NoReq
    BY NotMeta DEF Driver
  <2>2. \A i \in s.aio : i.op \in Data => i \in t.aio
    BY DEF Data
  <2> QED BY <2>1, <2>2, <1>6 DEF ReqOK
<1>7. ASSUME NEW i \in t.aio, i.blk = b PROVE IoOK(t, i)
  <2>1. IoOK(s, i)
    BY <1>1
  <2> QED BY <2>1, <1>7 DEF IoOK, OnlyBlk, SameBat, Mine, bat_sector
<1>8. CountOK(t)
  <2> DEFINE R == Redundant(s)
             Q == Redundant(t)
  <2>1. outstanding(t) = outstanding(s) /\ t.cached = s.cached
    BY DEF outstanding, OnlyBlk
  <2>2. Cardinality(outstanding(s)) \in Nat /\ Cardinality(R) \in Nat /\ IsFiniteSet(R)
        /\ s.vfree \in Int /\ VReqs \in Nat
    BY <1>1, OutFinite, RedundantFinite, ConstantsAssumption DEF CountOK, VhdState
  <2>3. CASE io \notin s.aio
    <3>1. Q = R \cup {io} /\ io \notin R
      BY <2>3 DEF Redundant
    <3> HIDE DEF R, Q
    <3>2. Cardinality(Q) = Cardinality(R) + 1
      BY <2>2, <3>1, FS_AddElement
    <3> QED BY <1>1, <1>2, <2>1, <2>2, <2>3, <3>2 DEF CountOK, R, Q
  <2>4. CASE io \in s.aio
    <3>1. Q = R \ {io} /\ io \in R
      BY <2>4 DEF Redundant
    <3> HIDE DEF R, Q
    <3>2. Cardinality(Q) = Cardinality(R) - 1
      BY <2>2, <3>1, FS_RemoveElement
    <3> QED BY <1>1, <1>2, <2>1, <2>2, <2>4, <3>2 DEF CountOK, R, Q
  <2> QED BY <2>3, <2>4
<1>9. \A r \in {NoReq} : r \in Reqs => blk_of(s.req[r].sec) = b
  BY NotMeta
<1> QED BY <1>1, <1>2, <1>4, <1>5, <1>6, <1>7, <1>8, <1>9, BlkDriver

LEMMA CountMore ==
  ASSUME NEW s \in VhdState, NEW t, NEW r \in Reqs, CountOK(s), IsFiniteSet(t.aio),
         Redundant(t) = Redundant(s), t.cached = s.cached, r \notin outstanding(s),
         outstanding(t) = outstanding(s) \cup {r}, s.vfree # 0, t.vfree = s.vfree - 1
  PROVE  CountOK(t)
<1>1. Cardinality(outstanding(t)) = Cardinality(outstanding(s)) + 1
  BY OutFinite, FS_AddElement
<1>2. Cardinality(outstanding(s)) \in Nat /\ Cardinality(Redundant(s)) \in Nat
      /\ s.vfree \in Int /\ VReqs \in Nat
  BY OutFinite, RedundantFinite, ConstantsAssumption DEF CountOK, VhdState
<1> QED BY <1>1, <1>2 DEF CountOK

(* A request waits for its block's bitmap.                                  *)
Waits(s, t, b, r) ==
  /\ OnlyBlk(s, t, b)
  /\ t.bm[b].locked /\ t.bm[b].rd = s.bm[b].rd /\ t.bm[b].wr = s.bm[b].wr
  /\ t.bm[b].map = s.bm[b].map /\ t.bm[b].shadow = s.bm[b].shadow /\ t.bm[b].tx = s.bm[b].tx
  /\ t.bm[b].queue = s.bm[b].queue /\ t.bm[b].waiting = s.bm[b].waiting \cup {r}
  /\ t.aio = s.aio /\ \A q \in Reqs : q # r => t.req[q] = s.req[q]
  /\ t.req[r].st = "waiting" /\ t.req[r].sec = s.req[r].sec /\ t.req[r].op = s.req[r].op
  /\ t.req[r].err = s.req[r].err /\ t.vfree = s.vfree - 1

LEMMA WaitDriver ==
  ASSUME NEW s, NEW t \in VhdState, NEW r \in Reqs, NEW b, blk_of(s.req[r].sec) = b,
         Driver(s, NoReq, NoBlock), Loose(s, r), s.req[r].st # "io", s.req[r].err # "EBUSY",
         s.bm[b].rd, s.vfree # 0, Waits(s, t, b, r)
  PROVE  Driver(t, NoReq, NoBlock)
<1>1. s \in VhdState /\ b \in Blocks /\ s.bm[b] \in Bitmap /\ s.bm[b].tx \in Tx /\ s.req[r] \in Request
  BY ReqField, BmField DEF Driver
<1>2. BlkOK(s, b, NoBlock) /\ MemOK(s, b) /\ TxOK(s, b) /\ CountOK(s) /\ Unique(s)
      /\ \A i \in s.aio : IoOK(s, i)
  BY <1>1 DEF Driver
<1> DEFINE m == s.bm[b]
           n == t.bm[b]
<1>3. /\ n.locked /\ n.rd = m.rd /\ n.wr = m.wr /\ n.map = m.map /\ n.shadow = m.shadow
      /\ n.tx = m.tx /\ n.queue = m.queue /\ n.waiting = m.waiting \cup {r}
  BY DEF Waits
<1>4. /\ t.req[r].st = "waiting" /\ t.req[r].sec = s.req[r].sec /\ t.req[r].op = s.req[r].op
      /\ t.req[r].err = s.req[r].err /\ t.vfree = s.vfree - 1
  BY DEF Waits
<1>0. OnlyBlk(s, t, b) /\ t.aio = s.aio /\ \A q \in Reqs : q # r => t.req[q] = s.req[q]
  BY DEF Waits
<1> HIDE DEF n
<1>5. txios(t, b) = txios(s, b) /\ \A x, op : HasIO(t, x, op) <=> HasIO(s, x, op)
  BY <1>0, <1>3 DEF txios, TxIO, OnlyBlk, HasIO, n
<1>6. BlkOK(t, b, NoBlock)
  <2>1. /\ t.bat = s.bat /\ t.prealloc = s.prealloc /\ t.batmap = s.batmap
        /\ t.cached = s.cached /\ t.bat_tx = s.bat_tx /\ (Mine(t, b) <=> Mine(s, b))
    BY <1>0 DEF OnlyBlk, SameBat, Mine
  <2>2. b \in s.cached
    <3>1. ~init_vhd_bitmap.rd
      BY DEF init_vhd_bitmap
    <3> QED BY <1>2, <3>1 DEF BlkOK
  <2> QED BY <2>1, <2>2, <1>2, <1>3, <1>5 DEF BlkOK, bitmap_in_use, n
<1>7. TxOK(t, b)
  BY <1>2, <1>3, <1>5 DEF TxOK, n
<1>8. MemOK(t, b)
  <2>1. m.waiting \subseteq Reqs
    BY <1>1 DEF Bitmap
  <2>2. r \notin m.tx.reqs /\ r \notin m.queue /\ r \notin m.waiting
    BY <1>1 DEF Loose
  <2>3. \A q \in Reqs : q \in m.tx.reqs \cup m.queue \cup m.waiting => t.req[q] = s.req[q]
    BY <1>0, <2>2
  <2>4. t.bm[b].tx = m.tx /\ t.bm[b].queue = m.queue /\ t.bm[b].shadow = m.shadow
        /\ t.bm[b].waiting = m.waiting \cup {r}
    BY <1>3 DEF n
  <2>5. \A q \in m.waiting \cup {r} : t.req[q].st = "waiting" /\ blk_of(t.req[q].sec) = b
    BY <1>2, <1>4, <2>1, <2>3 DEF MemOK
  <2>6. \A q \in Reqs : q \in m.tx.reqs \cup m.queue =>
          /\ t.req[q].st \in {"io", "finished"} /\ t.req[q].op = "write"
          /\ blk_of(t.req[q].sec) = b
    BY <1>2, <2>3 DEF MemOK
  <2>7. \A q \in Reqs : q \in m.tx.reqs =>
          (t.req[q].st = "finished" /\ t.req[q].err = "ok" => sec_of(t.req[q].sec) \in m.shadow)
    BY <1>2, <2>3 DEF MemOK
  <2> QED BY <2>4, <2>5, <2>6, <2>7 DEF MemOK
<1>9. ASSUME NEW q \in Reqs, blk_of(s.req[q].sec) = b PROVE ReqOK(t, q, NoReq)
  <2>1. ReqOK(s, q, NoReq) /\ q # NoReq
    BY NotMeta DEF Driver
  <2>2. CASE q = r
    BY <2>1, <2>2, <1>3, <1>4, <1>9 DEF ReqOK, n
  <2>3. CASE q # r
    <3>1. t.req[q] = s.req[q] /\ t.aio = s.aio /\ t.bm[b].tx = s.bm[b].tx
          /\ t.bm[b].queue = s.bm[b].queue
          /\ (q \in s.bm[b].waiting => q \in t.bm[b].waiting)
      BY <1>0, <1>3, <2>3 DEF n
    <3> QED BY <2>1, <3>1, <1>9 DEF ReqOK
  <2> QED BY <2>2, <2>3
<1>10. ASSUME NEW i \in t.aio, i.blk = b PROVE IoOK(t, i)
  <2>1. i \in s.aio /\ IoOK(s, i) /\ i.req # r
    BY <1>0, <1>2 DEF Loose
  <2>2. i.req \in Reqs => t.req[i.req] = s.req[i.req]
    BY <1>0, <2>1
  <2>3. i.op = "redundant_bm" => accepted(s.req[i.req])
    BY <2>1 DEF IoOK
  <2>4. SameBat(s, t) /\ t.prealloc = s.prealloc /\ t.batmap = s.batmap
    BY <1>0 DEF OnlyBlk
  <2>5. i.req \in Reqs =>
           /\ t.req[i.req].op = s.req[i.req].op /\ t.req[i.req].sec = s.req[i.req].sec
           /\ i.op \in Data => t.req[i.req].st = s.req[i.req].st
           /\ i.op = "redundant_bm" => accepted(t.req[i.req])
    BY <2>2, <2>3
  <2>6. s.bm[i.blk] = m /\ t.bm[i.blk] = n
    BY <1>10 DEF n
  <2> QED BY <1>1, <1>3, <2>1, <2>4, <2>5, <2>6, IoKeep
<1>11. CountOK(t)
  <2>1. outstanding(t) = outstanding(s) \cup {r} /\ r \notin outstanding(s)
    BY <1>0, <1>4 DEF outstanding, Loose
  <2> QED BY <1>0, <1>4, <1>1, <1>2, <2>1, CountMore DEF OnlyBlk, CountOK, Redundant
<1>12. \A q \in {NoReq} : q \in Reqs => blk_of(s.req[q].sec) = b
  BY NotMeta
<1>13. Unique(t) /\ \A q \in Reqs : /\ t.req[q].sec = s.req[q].sec
                                    /\ blk_of(s.req[q].sec) # b => t.req[q] = s.req[q]
  BY <1>0, <1>2, <1>4 DEF Unique
<1>14. /\ HasIO(t, b, "zero_bm") <=> HasIO(s, b, "zero_bm")
       /\ HasIO(t, b, "bat") <=> HasIO(s, b, "bat")
       /\ t.bm[b].tx = s.bm[b].tx /\ NoBlock \in {b, NoBlock}
  BY <1>3, <1>5 DEF n
<1> HIDE DEF m
<1> QED BY <1>0, <1>1, <1>6, <1>7, <1>8, <1>9, <1>10, <1>11, <1>12, <1>13, <1>14, BlkDriver

-----------------------------------------------------------------------------
(* The bitmap cache.                                                        *)

(* A step that changes at most the bitmap of one block.                     *)
LEMMA CacheDriver ==
  ASSUME NEW s, NEW t \in VhdState, NEW b \in Blocks, NEW h, NEW k, NEW k2,
         Driver(s, h, k), k \in {b, NoBlock}, k2 \in {b, NoBlock}, k2 = k \/ k = NoBlock,
         SameBat(s, t), t.prealloc = s.prealloc, t.batmap = s.batmap,
         t.aio = s.aio, t.req = s.req, t.vfree = s.vfree,
         \A x \in Blocks : x # b => t.bm[x] = s.bm[x] /\ (x \in t.cached <=> x \in s.cached),
         Mine(s, b) => /\ t.bm[b].tx.live <=> s.bm[b].tx.live
                       /\ s.bm[b].tx.err # "ok" => t.bm[b].tx.err # "ok"
                       /\ s.bm[b].tx.closed => t.bm[b].tx.closed,
         BlkOK(t, b, k2), TxOK(t, b), MemOK(t, b),
         s.bm[b].waiting \subseteq t.bm[b].waiting,
         t.bm[b].tx.reqs \cup t.bm[b].queue = s.bm[b].tx.reqs \cup s.bm[b].queue,
         s.bm[b].tx.reqs \subseteq t.bm[b].tx.reqs, s.bm[b].tx.upd => t.bm[b].tx.upd,
         s.bm[b].rd => t.bm[b].rd, s.bm[b].wr => t.bm[b].wr,
         Cardinality(t.cached) <= CacheSize
  PROVE  Driver(t, h, k2)
<1>1. s \in VhdState /\ BatOK(s, k) /\ CountOK(s) /\ Unique(s)
  BY DEF Driver
<1>2. \A x, op : HasIO(t, x, op) <=> HasIO(s, x, op)
  BY DEF HasIO
<1>3. BatOK(t, k2)
  <2>1. s.locked =>
           LET p == s.pbw_blk
           IN  /\ HasIO(t, p, "zero_bm") <=> HasIO(s, p, "zero_bm")
               /\ HasIO(t, p, "bat") <=> HasIO(s, p, "bat")
               /\ t.bm[p].tx.live <=> s.bm[p].tx.live
               /\ s.bm[p].tx.err # "ok" => t.bm[p].tx.err # "ok"
               /\ s.bm[p].tx.closed => t.bm[p].tx.closed
    <3>1. CASE s.locked /\ s.pbw_blk = b
      BY <3>1, <1>2 DEF Mine
    <3>2. CASE s.locked /\ s.pbw_blk # b
      <4>1. s.pbw_blk \in Blocks
        BY <1>1 DEF VhdState
      <4> QED BY <3>2, <4>1, <1>2
    <3> QED BY <3>1, <3>2
  <2> QED BY <1>1, <2>1, BatFrame2
<1>4. ASSUME NEW x \in Blocks, x # b PROVE BlkOK(t, x, k2) /\ TxOK(t, x) /\ MemOK(t, x)
  <2>1. BlkOK(s, x, k) /\ TxOK(s, x) /\ MemOK(s, x) /\ t.bm[x] = s.bm[x]
        /\ (x \in t.cached <=> x \in s.cached) /\ k # x
    BY <1>4, BlkNo DEF Driver
  <2>2. txios(t, x) = txios(s, x)
    BY <2>1 DEF txios, TxIO
  <2>3. BlkOK(t, x, k2)
    BY <1>2, <2>1, <2>2 DEF BlkOK, SameBat, Mine
  <2>4. TxOK(t, x)
    BY <2>1, <2>2 DEF TxOK
  <2>5. MemOK(t, x)
    BY <2>1 DEF MemOK
  <2> QED BY <2>3, <2>4, <2>5
<1>5. ASSUME NEW q \in Reqs PROVE ReqOK(t, q, h)
  <2>1. ReqOK(s, q, h) /\ blk_of(s.req[q].sec) \in Blocks
    BY <1>1, ReqField DEF Driver
  <2>2. CASE blk_of(s.req[q].sec) = b
    <3>1. q \in t.bm[b].tx.reqs \cup t.bm[b].queue <=> q \in s.bm[b].tx.reqs \cup s.bm[b].queue
      OBVIOUS
    <3> QED BY <2>1, <2>2, <3>1 DEF ReqOK
  <2>3. CASE blk_of(s.req[q].sec) # b
    BY <2>1, <2>3 DEF ReqOK
  <2> QED BY <2>2, <2>3
<1>6. ASSUME NEW i \in t.aio PROVE IoOK(t, i)
  <2>1. i \in s.aio /\ IoOK(s, i) /\ i.blk \in Blocks
    BY <1>1, IoField DEF Driver
  <2>2. i.op = "redundant_bm" => accepted(s.req[i.req])
    BY <2>1 DEF IoOK
  <2>3. CASE i.blk = b
    <3>1. \A q : q \in t.bm[b].tx.reqs \cup t.bm[b].queue <=> q \in s.bm[b].tx.reqs \cup s.bm[b].queue
      OBVIOUS
    <3>2. bat_req \in s.bm[b].tx.reqs => bat_req \in t.bm[b].tx.reqs
      OBVIOUS
    <3> QED BY <1>1, <2>1, <2>2, <2>3, <3>1, <3>2, IoKeep
  <2>4. CASE i.blk # b
    <3>1. t.bm[i.blk] = s.bm[i.blk]
      BY <2>1, <2>4
    <3> QED BY <1>1, <2>1, <2>2, <3>1, IoKeep
  <2> QED BY <2>3, <2>4
<1>7. Unique(t)
  BY <1>1 DEF Unique
<1>8. CountOK(t)
  BY <1>1 DEF CountOK, outstanding, Redundant
<1>9. \A x \in Blocks : BlkOK(t, x, k2) /\ TxOK(t, x) /\ MemOK(t, x)
  BY <1>4
<1> QED BY <1>3, <1>5, <1>6, <1>7, <1>8, <1>9 DEF Driver

(* Nothing needs a bitmap that is not locked.                               *)
LEMMA Idle ==
  ASSUME NEW s, NEW h, Driver(s, h, NoBlock), NEW b \in Blocks, ~s.bm[b].locked
  PROVE  /\ s.bm[b].tx = init_tx /\ ~s.bm[b].rd /\ ~s.bm[b].wr /\ s.bm[b].waiting = {}
         /\ s.bm[b].queue = {} /\ ~Mine(s, b) /\ s.bm[b].shadow = s.bm[b].map
<1>1. BlkOK(s, b, NoBlock) /\ BatOK(s, NoBlock) /\ b # NoBlock /\ \A i \in s.aio : IoOK(s, i)
  BY BlkNo DEF Driver
<1>2. /\ ~s.bm[b].rd /\ ~s.bm[b].wr /\ s.bm[b].waiting = {} /\ s.bm[b].queue = {}
      /\ ~s.bm[b].tx.upd /\ s.bm[b].tx.reqs = {}
  BY <1>1 DEF BlkOK, bitmap_in_use
<1>3. txios(s, b) = {}
  <2>1. ASSUME NEW i \in s.aio, TxIO(s, b, i) PROVE FALSE
    BY <2>1, <1>1, <1>2 DEF TxIO, IoOK
  <2> QED BY <2>1 DEF txios
<1>4. ~s.bm[b].tx.live
  BY <1>1, <1>2, <1>3 DEF BlkOK
<1>5. s.bm[b].tx = init_tx /\ s.bm[b].shadow = s.bm[b].map
  BY <1>1, <1>2, <1>4 DEF BlkOK
<1>6. ~Mine(s, b)
  BY <1>1, <1>4 DEF Mine, BatOK, Allocating, Failing, Done
<1> QED BY <1>2, <1>5, <1>6

Evictable(s, v) ==
  \/ v = FREE_BITMAP /\ Cardinality(s.cached) < CacheSize
  \/ v \in s.cached /\ ~s.bm[v].locked

evict(s, v) == [s EXCEPT !.cached = @ \ {v},
                         !.bm = [x \in Blocks |-> IF x = v THEN init_vhd_bitmap ELSE s.bm[x]]]

LEMMA EvictDriver ==
  ASSUME NEW s, NEW h, Driver(s, h, NoBlock), NEW v \in s.cached, ~s.bm[v].locked
  PROVE  Driver(evict(s, v), h, NoBlock)
<1> DEFINE t == evict(s, v)
<1>1. s \in VhdState /\ v \in Blocks /\ CountOK(s)
  BY DEF Driver, VhdState
<1>2. /\ SameBat(s, t) /\ t.prealloc = s.prealloc /\ t.batmap = s.batmap
      /\ t.aio = s.aio /\ t.req = s.req /\ t.vfree = s.vfree /\ t.cached = s.cached \ {v}
      /\ t.bm[v] = init_vhd_bitmap /\ \A x \in Blocks : x # v => t.bm[x] = s.bm[x]
  BY <1>1 DEF evict, SameBat, VhdState
<1>3. t \in VhdState
  <2>1. [x \in Blocks |-> IF x = v THEN init_vhd_bitmap ELSE s.bm[x]] \in [Blocks -> Bitmap]
    BY <1>1, FreshBitmap, BmField
  <2> QED BY <1>1, <2>1 DEF evict, VhdState
<1> HIDE DEF t
<1>4. /\ s.bm[v].tx = init_tx /\ ~s.bm[v].rd /\ ~s.bm[v].wr /\ s.bm[v].waiting = {}
      /\ s.bm[v].queue = {} /\ ~Mine(s, v)
  BY <1>1, Idle
<1> DEFINE n == t.bm[v]
<1>5. /\ n.tx = init_tx /\ ~n.rd /\ ~n.wr /\ n.waiting = {} /\ n.queue = {} /\ n.map = {}
      /\ n.shadow = {} /\ ~n.locked /\ n = init_vhd_bitmap
  BY <1>2 DEF init_vhd_bitmap
<1>6. init_tx.reqs = {} /\ ~init_tx.live /\ ~init_tx.upd /\ init_tx.err = "ok" /\ ~init_tx.closed
  BY DEF init_tx
<1> HIDE DEF n
<1>7. txios(t, v) = txios(s, v)
  BY <1>2, <1>4, <1>5 DEF txios, TxIO, n
<1>8. BlkOK(s, v, NoBlock) /\ TxOK(s, v) /\ v # NoBlock
  BY <1>1, BlkNo DEF Driver
<1>9. BlkOK(t, v, NoBlock)
  BY <1>2, <1>5, <1>6, <1>8 DEF BlkOK, bitmap_in_use, SameBat, n
<1>10. TxOK(t, v)
  BY <1>4, <1>5, <1>7, <1>8 DEF TxOK, n
<1>11. MemOK(t, v)
  BY <1>5, <1>6 DEF MemOK, n
<1>12. Cardinality(t.cached) <= CacheSize
  <2>1. IsFiniteSet(Blocks)
    BY FS_Interval, ConstantsAssumption DEF Blocks
  <2>2. IsFiniteSet(s.cached)
    BY <1>1, <2>1, FS_Subset DEF VhdState
  <2>3. Cardinality(t.cached) <= Cardinality(s.cached)
    BY <1>2, <2>2, FS_Subset
  <2>4. Cardinality(t.cached) \in Nat /\ Cardinality(s.cached) \in Nat /\ CacheSize \in Nat
    BY <1>2, <2>2, FS_Subset, FS_CardinalityType, ConstantsAssumption
  <2> QED BY <1>1, <2>3, <2>4 DEF CountOK
<1>13. Driver(t, h, NoBlock)
  BY <1>1, <1>2, <1>3, <1>4, <1>5, <1>6, <1>9, <1>10, <1>11, <1>12, CacheDriver DEF n
<1> QED BY <1>13 DEF t

LEMMA InitBm ==
  /\ init_vhd_bitmap.tx = init_tx /\ ~init_vhd_bitmap.rd /\ ~init_vhd_bitmap.wr
  /\ init_vhd_bitmap.waiting = {} /\ init_vhd_bitmap.queue = {} /\ init_vhd_bitmap.map = {}
  /\ init_vhd_bitmap.shadow = {} /\ ~init_vhd_bitmap.locked
  /\ init_tx.reqs = {} /\ ~init_tx.live /\ ~init_tx.upd /\ init_tx.err = "ok"
  /\ ~init_tx.closed /\ init_tx.started = 0 /\ init_tx.finished = 0
  BY DEF init_vhd_bitmap, init_tx

LEMMA CachedFinite ==
  ASSUME NEW s \in VhdState
  PROVE  IsFiniteSet(s.cached) /\ Cardinality(s.cached) \in Nat
<1>1. IsFiniteSet(Blocks)
  BY FS_Interval, ConstantsAssumption DEF Blocks
<1> QED BY <1>1, FS_Subset, FS_CardinalityType DEF VhdState

(* Only the set of cached bitmaps and the bitmap v are different.           *)
Installs(s, t, b, v) ==
  /\ SameBat(s, t) /\ t.up = s.up /\ t.prealloc = s.prealloc /\ t.batmap = s.batmap
  /\ t.aio = s.aio /\ t.req = s.req /\ t.vfree = s.vfree
  /\ t.cached = (s.cached \ {v}) \cup {b}
  /\ t.bm[b] = init_vhd_bitmap
  /\ v \in Blocks => t.bm[v] = init_vhd_bitmap
  /\ \A x \in Blocks : x # b /\ x # v => t.bm[x] = s.bm[x]

LEMMA InstallEffect ==
  ASSUME NEW s \in VhdState, NEW b \in Blocks, NEW v
  PROVE  Installs(s, install_bitmap(s, b, v), b, v)
  BY DEF install_bitmap, Installs, SameBat, VhdState

LEMMA EvictEffect ==
  ASSUME NEW s \in VhdState, NEW v \in Blocks
  PROVE  LET t == evict(s, v)
         IN  /\ SameBat(s, t) /\ t.up = s.up /\ t.prealloc = s.prealloc /\ t.batmap = s.batmap
             /\ t.aio = s.aio /\ t.req = s.req /\ t.vfree = s.vfree
             /\ t.cached = s.cached \ {v} /\ t.bm[v] = init_vhd_bitmap
             /\ \A x \in Blocks : x # v => t.bm[x] = s.bm[x]
  BY DEF evict, SameBat, VhdState

(* A place in the cache is given to a bitmap.                               *)
LEMMA AdmitDriver ==
  ASSUME NEW s, NEW t \in VhdState, NEW h, NEW b \in Blocks, Driver(s, h, NoBlock),
         b \notin s.cached, b \notin s.batmap, Cardinality(s.cached) < CacheSize,
         Installs(s, t, b, FREE_BITMAP)
  PROVE  Driver(t, h, NoBlock)
<1>1. s \in VhdState /\ BlkOK(s, b, NoBlock) /\ TxOK(s, b) /\ MemOK(s, b) /\ b # NoBlock
  BY BlkNo DEF Driver
<1>2. s.bm[b] = init_vhd_bitmap
  BY <1>1 DEF BlkOK
<1>3. /\ SameBat(s, t) /\ t.prealloc = s.prealloc /\ t.batmap = s.batmap
      /\ t.aio = s.aio /\ t.req = s.req /\ t.vfree = s.vfree
      /\ t.cached = s.cached \cup {b}
  BY <1>1 DEF Installs, FREE_BITMAP, VhdState, Blocks
<1>4. t.bm[b] = s.bm[b] /\ \A x \in Blocks : x # b => t.bm[x] = s.bm[x]
  BY <1>2 DEF Installs, FREE_BITMAP, Blocks
<1>5. txios(t, b) = txios(s, b)
  BY <1>3, <1>4 DEF txios, TxIO
<1>6. \A x, op : HasIO(t, x, op) <=> HasIO(s, x, op)
  BY <1>3 DEF HasIO
<1>7. BlkOK(t, b, NoBlock)
  BY <1>1, <1>3, <1>4, <1>5, <1>6 DEF BlkOK, SameBat, Mine
<1>8. TxOK(t, b)
  BY <1>1, <1>4, <1>5 DEF TxOK
<1>9. MemOK(t, b)
  BY <1>1, <1>3, <1>4 DEF MemOK
<1>10. Cardinality(t.cached) <= CacheSize
  <2>1. Cardinality(t.cached) = Cardinality(s.cached) + 1
    BY <1>1, <1>3, CachedFinite, FS_AddElement
  <2>2. Cardinality(s.cached) \in Nat /\ CacheSize \in Nat
    BY <1>1, CachedFinite, ConstantsAssumption
  <2> QED BY <2>1, <2>2
<1>11. \A x \in Blocks : x # b => t.bm[x] = s.bm[x] /\ (x \in t.cached <=> x \in s.cached)
  BY <1>3, <1>4
<1> QED BY <1>1, <1>3, <1>4, <1>7, <1>8, <1>9, <1>10, <1>11, CacheDriver

(* The read of a bitmap is scheduled.                                       *)
ReadsBitmap(s, t, b) ==
  /\ OnlyBlk(s, t, b) /\ t.req = s.req /\ t.vfree = s.vfree
  /\ t.bm[b] = [init_vhd_bitmap EXCEPT !.locked = TRUE, !.rd = TRUE]
  /\ t.aio = s.aio \cup {[op |-> "bitmap_read", blk |-> b, req |-> bm_req,
                          slot |-> s.bat[b], landed |-> FALSE]}

LEMMA BitmapReadDriver ==
  ASSUME NEW s, NEW t \in VhdState, NEW b \in Blocks, Driver(s, NoReq, NoBlock),
         b \in s.cached, s.bm[b] = init_vhd_bitmap, s.bat[b] # DD_BLK_UNUSED,
         b \notin s.batmap, ReadsBitmap(s, t, b)
  PROVE  Driver(t, NoReq, NoBlock)
<1> DEFINE io == [op |-> "bitmap_read", blk |-> b, req |-> bm_req, slot |-> s.bat[b],
                  landed |-> FALSE]
           n == t.bm[b]
<1>1. s \in VhdState /\ BlkOK(s, b, NoBlock) /\ TxOK(s, b) /\ MemOK(s, b) /\ CountOK(s)
      /\ Unique(s) /\ \A i \in s.aio : IoOK(s, i)
  BY DEF Driver
<1>2. OnlyBlk(s, t, b) /\ t.req = s.req /\ t.vfree = s.vfree /\ t.aio = s.aio \cup {io}
  BY DEF ReadsBitmap
<1>3. /\ n.tx = init_tx /\ n.rd /\ ~n.wr /\ n.waiting = {} /\ n.queue = {} /\ n.map = {}
      /\ n.shadow = {} /\ n.locked
  BY DEF ReadsBitmap, init_vhd_bitmap
<1>4. io.op = "bitmap_read" /\ io.blk = b /\ io.req = bm_req /\ io.slot = s.bat[b]
  OBVIOUS
<1> HIDE DEF io, n
<1>5. \A i \in s.aio : i.op # io.op \/ i.blk # b
  BY <1>1, <1>4, InitBm DEF IoOK
<1>6. /\ \A x, op : op # io.op \/ x # io.blk => (HasIO(t, x, op) <=> HasIO(s, x, op))
      /\ HasIO(t, io.blk, io.op)
      /\ \A i \in Tiocb : i.blk # io.blk => (i \in t.aio <=> i \in s.aio)
      /\ Unique(t) /\ IsFiniteSet(t.aio)
      /\ io.op # "redundant_bm" => Redundant(t) = Redundant(s)
  <2>1. CountOK(s) /\ Unique(s) /\ t.aio = s.aio \cup {io} /\ \A i \in s.aio : i.op # io.op \/ i.blk # io.blk
    BY <1>1, <1>2, <1>4, <1>5
  <2> QED BY <2>1, NewIO
<1>7. txios(t, b) = txios(s, b)
  <2>1. ~TxIO(t, b, io)
    BY <1>4 DEF TxIO
  <2>2. \A i : TxIO(t, b, i) <=> TxIO(s, b, i)
    BY <1>2, <1>3, InitBm DEF TxIO, OnlyBlk, n
  <2> QED BY <1>2, <2>1, <2>2 DEF txios
<1>8. BlkOK(t, b, NoBlock)
  <2>1. /\ t.bat = s.bat /\ t.prealloc = s.prealloc /\ t.batmap = s.batmap
        /\ t.cached = s.cached /\ t.bat_tx = s.bat_tx
    BY <1>2 DEF OnlyBlk, SameBat
  <2>2. HasIO(t, b, "bitmap_read")
    BY <1>4, <1>6
  <2> QED BY <2>1, <2>2, <1>3, InitBm DEF BlkOK, bitmap_in_use, n
<1>9. TxOK(t, b)
  BY <1>1, <1>3, <1>7, InitBm DEF TxOK, n
<1>10. MemOK(t, b)
  BY <1>3, InitBm DEF MemOK, n
<1>11. ASSUME NEW q \in Reqs, blk_of(s.req[q].sec) = b PROVE ReqOK(t, q, NoReq)
  <2>1. ReqOK(s, q, NoReq) /\ q # NoReq
    BY NotMeta DEF Driver
  <2>2. s.aio \subseteq t.aio /\ t.req = s.req
    BY <1>2
  <2> QED BY <2>1, <2>2, <1>3, <1>11, InitBm DEF ReqOK, n
<1>12. ASSUME NEW i \in t.aio, i.blk = b PROVE IoOK(t, i)
  <2>1. CASE i = io
    BY <2>1, <1>2, <1>3, <1>4, <1>12 DEF IoOK, OnlyBlk, SameBat, n
  <2>2. CASE i \in s.aio
    <3>1. IoOK(s, i)
      BY <2>2, <1>1
    <3>2. i.op = "redundant_bm" => accepted(s.req[i.req])
      BY <3>1 DEF IoOK
    <3>3. SameBat(s, t) /\ t.prealloc = s.prealloc /\ t.batmap = s.batmap /\ t.req = s.req
      BY <1>2 DEF OnlyBlk
    <3>4. s.bm[i.blk] = init_vhd_bitmap /\ t.bm[i.blk] = n
      BY <1>12 DEF n
    <3> QED BY <1>1, <1>3, <2>2, <3>1, <3>2, <3>3, <3>4, InitBm, IoKeep
  <2> QED BY <1>2, <2>1, <2>2
<1>13. CountOK(t)
  <2>1. IsFiniteSet(t.aio) /\ Redundant(t) = Redundant(s)
    BY <1>4, <1>6
  <2> QED BY <1>1, <1>2, <2>1, CountSame DEF outstanding, OnlyBlk
<1>14. \A q \in {NoReq} : q \in Reqs => blk_of(s.req[q].sec) = b
  BY NotMeta
<1>15. /\ HasIO(t, b, "zero_bm") <=> HasIO(s, b, "zero_bm")
       /\ HasIO(t, b, "bat") <=> HasIO(s, b, "bat")
       /\ \A i \in Tiocb : i.blk # b => (i \in t.aio <=> i \in s.aio)
  BY <1>4, <1>6
<1>16. t.bm[b].tx = s.bm[b].tx
  BY <1>3, InitBm DEF n
<1>17. Unique(t) /\ OnlyBlk(s, t, b) /\ t.req = s.req
  BY <1>2, <1>6
<1> QED BY <1>8, <1>9, <1>10, <1>11, <1>12, <1>13, <1>14, <1>15, <1>16, <1>17, BlkDriver

(* A block that has no slot has no I/O.                                     *)
LEMMA NoSlotNoIO ==
  ASSUME NEW s, NEW h, NEW b \in Blocks, Driver(s, h, NoBlock),
         s.bat[b] = DD_BLK_UNUSED, ~Mine(s, b)
  PROVE  /\ \A i \in s.aio : i.blk # b
         /\ s.bm[b].tx = init_tx /\ ~s.bm[b].rd /\ ~s.bm[b].wr /\ s.bm[b].queue = {}
         /\ s.bm[b].waiting = {} /\ b \notin s.batmap
         /\ s.bm[b].map = {} /\ s.bm[b].shadow = {}
<1>1. BlkOK(s, b, NoBlock) /\ s \in VhdState /\ b # NoBlock
  BY BlkNo DEF Driver
<1>2. ~s.bm[b].tx.live /\ b \notin s.batmap /\ ~s.bm[b].rd
  BY <1>1 DEF BlkOK
<1>3. s.bm[b].tx = init_tx
  BY <1>1, <1>2 DEF BlkOK
<1>4. ~s.bm[b].wr /\ s.bm[b].queue = {} /\ s.bm[b].waiting = {}
      /\ s.bm[b].map = {} /\ s.bm[b].shadow = {}
  BY <1>1, <1>2, <1>3, InitBm DEF BlkOK
<1>5. ASSUME NEW i \in s.aio, i.blk = b PROVE FALSE
  <2>1. IoOK(s, i) /\ i.op \in AioOps
    BY <1>1, IoField DEF Driver
  <2>2. DD_BLK_UNUSED \notin Slots
    BY DEF DD_BLK_UNUSED, Slots
  <2> QED BY <2>1, <2>2, <1>2, <1>4, <1>5 DEF IoOK, AioOps
<1> QED BY <1>2, <1>3, <1>4, <1>5

(* The lock on the BAT is taken and the first I/O of the allocation starts. *)
Allocates(s, t, b, op, q) ==
  /\ t.up = s.up /\ t.prealloc = s.prealloc /\ t.batmap = s.batmap /\ t.cached = s.cached
  /\ t.req = s.req /\ t.vfree = s.vfree /\ t.bat = s.bat /\ t.next_db = s.next_db
  /\ \A x \in Blocks : x # b => t.bm[x] = s.bm[x]
  /\ t.locked /\ t.pbw_blk = b /\ t.pbw_offset = s.next_db /\ t.bat_err = "ok" /\ ~t.bat_tx
  /\ t.started <=> op = "bat"
  /\ op = "bat" => t.bat_buf = bat_sector(t)
  /\ t.bm[b] = [s.bm[b] EXCEPT !.locked = TRUE,
                   !.tx = [err |-> "ok", closed |-> FALSE, started |-> 1, finished |-> 0,
                           live |-> TRUE, upd |-> op = "zero_bm", reqs |-> {q}]]
  /\ t.aio = s.aio \cup {[op |-> op, blk |-> b, req |-> q, slot |-> s.next_db,
                          landed |-> FALSE]}

LEMMA AllocDriver ==
  ASSUME NEW s, NEW t \in VhdState, NEW h, NEW b \in Blocks, NEW op, NEW q,
         Driver(s, h, NoBlock), h \in Reqs => blk_of(s.req[h].sec) = b,
         ~s.locked, b \in s.cached, s.bat[b] = DD_BLK_UNUSED, s.next_db \in Slots,
         \/ op = "zero_bm" /\ q = zero_req /\ ~s.prealloc
         \/ op = "bat" /\ q = bat_req /\ s.prealloc,
         Allocates(s, t, b, op, q)
  PROVE  Driver(t, h, NoBlock)
<1> DEFINE io == [op |-> op, blk |-> b, req |-> q, slot |-> s.next_db, landed |-> FALSE]
           m  == s.bm[b]
           n  == t.bm[b]
<1>1. s \in VhdState /\ m \in Bitmap /\ BlkOK(s, b, NoBlock) /\ CountOK(s) /\ Unique(s)
      /\ BatOK(s, NoBlock) /\ ~Mine(s, b) /\ b # NoBlock
  BY BmField, BlkNo DEF Driver, Mine
<1>2. /\ \A i \in s.aio : i.blk # b
      /\ m.tx = init_tx /\ ~m.rd /\ ~m.wr /\ m.queue = {}
      /\ m.waiting = {} /\ b \notin s.batmap /\ m.map = {} /\ m.shadow = {}
  BY <1>1, NoSlotNoIO
<1>3. /\ n.rd = m.rd /\ n.wr = m.wr /\ n.map = m.map /\ n.shadow = m.shadow
      /\ n.queue = m.queue /\ n.waiting = m.waiting /\ n.locked
      /\ n.tx.err = "ok" /\ ~n.tx.closed /\ n.tx.started = 1 /\ n.tx.finished = 0
      /\ n.tx.live /\ (n.tx.upd <=> op = "zero_bm") /\ n.tx.reqs = {q}
  <2> DEFINE T == [err |-> "ok", closed |-> FALSE, started |-> 1, finished |-> 0,
                   live |-> TRUE, upd |-> op = "zero_bm", reqs |-> {q}]
  <2>1. n = [m EXCEPT !.locked = TRUE, !.tx = T] /\ m \in Bitmap
    BY <1>1 DEF Allocates
  <2>2. /\ T.err = "ok" /\ ~T.closed /\ T.started = 1 /\ T.finished = 0
        /\ T.live /\ (T.upd <=> op = "zero_bm") /\ T.reqs = {q}
    OBVIOUS
  <2> HIDE DEF T, n, m
  <2>3. /\ n.rd = m.rd /\ n.wr = m.wr /\ n.map = m.map /\ n.shadow = m.shadow
        /\ n.queue = m.queue /\ n.waiting = m.waiting /\ n.locked /\ n.tx = T
    BY <2>1 DEF Bitmap
  <2> QED BY <2>2, <2>3
<1>4. /\ t.prealloc = s.prealloc /\ t.batmap = s.batmap /\ t.cached = s.cached
      /\ t.req = s.req /\ t.vfree = s.vfree /\ t.bat = s.bat /\ t.next_db = s.next_db
      /\ \A x \in Blocks : x # b => t.bm[x] = s.bm[x]
      /\ t.locked /\ t.pbw_blk = b /\ t.pbw_offset = s.next_db /\ t.bat_err = "ok" /\ ~t.bat_tx
      /\ t.aio = s.aio \cup {io}
  BY DEF Allocates
<1>5. (t.started <=> op = "bat") /\ (op = "bat" => t.bat_buf = bat_sector(t))
  BY DEF Allocates
<1>6. io.op = op /\ io.blk = b /\ io.req = q /\ io.slot = s.next_db
  OBVIOUS
<1> HIDE DEF io, n, m
<1>7. /\ \A x, o : o # io.op \/ x # io.blk => (HasIO(t, x, o) <=> HasIO(s, x, o))
      /\ HasIO(t, io.blk, io.op)
      /\ \A i \in Tiocb : i.blk # io.blk => (i \in t.aio <=> i \in s.aio)
      /\ Unique(t) /\ IsFiniteSet(t.aio)
      /\ io.op # "redundant_bm" => Redundant(t) = Redundant(s)
  <2>1. CountOK(s) /\ Unique(s) /\ t.aio = s.aio \cup {io} /\ \A i \in s.aio : i.blk # io.blk
    BY <1>1, <1>2, <1>4, <1>6
  <2> QED BY <2>1, NewIO
<1>8. Mine(t, b) /\ HasIO(t, b, op)
  BY <1>4, <1>6, <1>7 DEF Mine
<1>9. LocalTo(s, t, b)
  <2>1. \A x \in Blocks : x # b => ~Mine(t, x) /\ ~Mine(s, x)
    BY <1>4 DEF Mine
  <2> QED BY <2>1, <1>4, <1>6, <1>7 DEF LocalTo
<1>10. BatOK(t, NoBlock)
  <2>1. Allocating(t)
    BY <1>3, <1>4, <1>8 DEF Allocating, n
  <2> QED BY <2>1, <1>1, <1>4 DEF BatOK
<1>11. txios(t, b) = {io}
  <2>1. TxIO(t, b, io)
    BY <1>4, <1>6 DEF TxIO
  <2>2. \A i \in s.aio : ~TxIO(t, b, i)
    BY <1>2 DEF TxIO
  <2> QED BY <1>4, <2>1, <2>2 DEF txios
<1>12. BlkOK(t, b, NoBlock)
  BY <1>2, <1>3, <1>4, <1>8, <1>11 DEF BlkOK, bitmap_in_use, n
<1>13. TxOK(t, b)
  <2>1. Cardinality({io}) = 1
    BY FS_Singleton
  <2> QED BY <2>1, <1>3, <1>11 DEF TxOK, n
<1>14. q \notin Reqs
  BY NotMeta
<1>15. MemOK(t, b)
  BY <1>2, <1>3, <1>14 DEF MemOK, n
<1>16. ASSUME NEW r \in Reqs, blk_of(s.req[r].sec) = b PROVE ReqOK(t, r, h)
  <2>1. ReqOK(s, r, h) /\ r # q
    BY <1>14 DEF Driver
  <2>2. s.aio \subseteq t.aio /\ t.req = s.req /\ (\A i \in t.aio : i.req = r => i \in s.aio)
    BY <1>4, <1>6, <2>1
  <2>3. \A i \in s.aio : i.req = r => i \in t.aio
    BY <2>2
  <2>4. m.tx.reqs = {} /\ n.tx.reqs = {q} /\ m.queue = {} /\ n.queue = {} /\ m.waiting = {}
    BY <1>2, <1>3, InitBm
  <2>5. s.req[r].st # "waiting" /\ s.req[r].st # "finished"
    BY <2>1, <2>4, <1>16 DEF ReqOK, m
  <2>6. s.req[r].st = "io" /\ r # h => \E i \in t.aio : i.req = r /\ i.op \in Data
    BY <2>1, <2>2, <1>16 DEF ReqOK
  <2>7. r = h => s.req[r].st = "io" /\ ~\E i \in t.aio : i.req = r
    BY <2>1, <2>2, <1>16 DEF ReqOK
  <2>8. s.req[r].st \in {"waiting", "io", "finished"} => s.req[r].err # "EBUSY"
    BY <2>1 DEF ReqOK
  <2> QED BY <2>1, <2>2, <2>4, <2>5, <2>6, <2>7, <2>8, <1>16 DEF ReqOK, n
<1>17. ASSUME NEW i \in t.aio, i.blk = b PROVE IoOK(t, i)
  <2>1. i = io
    BY <1>2, <1>4, <1>17
  <2>2. t.bm[io.blk] = n
    BY <1>6 DEF n
  <2> QED BY <2>1, <2>2, <1>3, <1>4, <1>5, <1>6, <1>8 DEF IoOK
<1>18. CountOK(t)
  <2>1. IsFiniteSet(t.aio) /\ Redundant(t) = Redundant(s)
    BY <1>6, <1>7
  <2> QED BY <1>1, <1>4, <2>1, CountSame DEF outstanding
<1>19. \A r \in {h} : r \in Reqs => blk_of(s.req[r].sec) = b
  OBVIOUS
<1>20. Unique(t)
  BY <1>7
<1> QED BY <1>9, <1>10, <1>12, <1>13, <1>15, <1>16, <1>17, <1>18, <1>19, <1>20, LocalDriver

(* allocate_block has noted the block and the slot and gone no further.     *)
Notes(s, t) ==
  /\ t.up = s.up /\ t.prealloc = s.prealloc /\ t.batmap = s.batmap /\ t.cached = s.cached
  /\ t.req = s.req /\ t.vfree = s.vfree /\ t.bat = s.bat /\ t.next_db = s.next_db
  /\ t.bm = s.bm /\ t.aio = s.aio /\ t.locked = s.locked /\ t.started = s.started
  /\ t.bat_err = s.bat_err /\ t.bat_tx = s.bat_tx

LEMMA NoteDriver ==
  ASSUME NEW s, NEW t \in VhdState, NEW h, Driver(s, h, NoBlock), ~s.locked, Notes(s, t)
  PROVE  Driver(t, h, NoBlock)
<1>1. /\ t.prealloc = s.prealloc /\ t.batmap = s.batmap /\ t.cached = s.cached
      /\ t.req = s.req /\ t.vfree = s.vfree /\ t.bat = s.bat /\ t.next_db = s.next_db
      /\ t.bm = s.bm /\ t.aio = s.aio /\ ~t.locked /\ ~s.locked /\ t.started = s.started
      /\ t.bat_err = s.bat_err /\ t.bat_tx = s.bat_tx
  BY DEF Notes
<1>2. BatOK(t, NoBlock)
  BY <1>1 DEF Driver, BatOK
<1>3. \A x, op : HasIO(t, x, op) <=> HasIO(s, x, op)
  BY <1>1 DEF HasIO
<1>4. \A x : txios(t, x) = txios(s, x) /\ ~Mine(s, x) /\ ~Mine(t, x)
  BY <1>1 DEF txios, TxIO, Mine
<1>5. ASSUME NEW x \in Blocks PROVE BlkOK(t, x, NoBlock) /\ TxOK(t, x) /\ MemOK(t, x)
  <2>1. BlkOK(s, x, NoBlock) /\ TxOK(s, x) /\ MemOK(s, x)
    BY DEF Driver
  <2>2. BlkOK(t, x, NoBlock)
    BY <1>1, <1>3, <1>4, <2>1 DEF BlkOK
  <2>3. TxOK(t, x) /\ MemOK(t, x)
    BY <1>1, <1>4, <2>1 DEF TxOK, MemOK
  <2> QED BY <2>2, <2>3
<1>6. \A r \in Reqs : ReqOK(t, r, h)
  BY <1>1 DEF Driver, ReqOK
<1>7. \A i \in t.aio : IoOK(t, i)
  BY <1>1, <1>4 DEF Driver, IoOK
<1>8. Unique(t) /\ CountOK(t)
  BY <1>1 DEF Driver, Unique, CountOK, outstanding, Redundant
<1> QED BY <1>2, <1>5, <1>6, <1>7, <1>8 DEF Driver

(* What is said of a block's transaction when one of its I/Os is over.      *)
LEMMA TxLess ==
  ASSUME NEW s, NEW t, NEW b, NEW io, CountOK(s), TxOK(s, b), io \in txios(s, b),
         txios(t, b) = txios(s, b) \ {io}, s.bm[b].tx \in Tx,
         t.bm[b].tx.started = s.bm[b].tx.started,
         t.bm[b].tx.finished = s.bm[b].tx.finished + 1
  PROVE  TxOK(t, b)
<1>1. IsFiniteSet(txios(s, b)) /\ Cardinality(txios(s, b)) \in Nat
  <2>1. txios(s, b) \subseteq s.aio
    BY DEF txios
  <2> QED BY <2>1, FS_Subset, FS_CardinalityType DEF CountOK
<1>2. Cardinality(txios(t, b)) = Cardinality(txios(s, b)) - 1
  BY <1>1, FS_RemoveElement
<1>3. s.bm[b].tx.started \in Nat /\ s.bm[b].tx.finished \in Nat
  BY DEF Tx
<1> QED BY <1>1, <1>2, <1>3 DEF TxOK

(* A step of a block after which its transaction may be over.               *)
LEMMA BusyDriver ==
  ASSUME NEW s, NEW t \in VhdState, NEW b \in Blocks,
         Driver(s, NoReq, NoBlock), OnlyBlk(s, t, b),
         \A io \in Tiocb : io.blk # b => (io \in t.aio <=> io \in s.aio),
         \A r \in Reqs : /\ t.req[r].sec = s.req[r].sec
                         /\ blk_of(s.req[r].sec) # b => t.req[r] = s.req[r],
         Mine(s, b) => /\ HasIO(t, b, "zero_bm") <=> HasIO(s, b, "zero_bm")
                       /\ HasIO(t, b, "bat") <=> HasIO(s, b, "bat")
                       /\ t.bm[b].tx.live <=> s.bm[b].tx.live
                       /\ s.bm[b].tx.err # "ok" => t.bm[b].tx.err # "ok"
                       /\ s.bm[b].tx.closed => t.bm[b].tx.closed,
         BlkOK(t, b, b), TxOK(t, b), MemOK(t, b),
         \A r \in Reqs : blk_of(s.req[r].sec) = b => ReqOK(t, r, NoReq),
         \A io \in t.aio : io.blk = b => IoOK(t, io),
         Unique(t), CountOK(t)
  PROVE  Driver(t, NoReq, b)
<1>1. \A r \in {NoReq} : r \in Reqs => blk_of(s.req[r].sec) = b
  BY NotMeta
<1>2. NoBlock \in {b, NoBlock} /\ b \in {b, NoBlock}
  OBVIOUS
<1> QED BY <1>1, <1>2, BlkDriver

(* The data of a transaction's write is over.                               *)
counted(T) == [T EXCEPT !.finished = @ + 1]

TxWritten(s, t, b, r, io) ==
  /\ OnlyBlk(s, t, b) /\ t.aio = s.aio \ {io} /\ t.vfree = s.vfree
  /\ \A q \in Reqs : q # r => t.req[q] = s.req[q]
  /\ t.req[r].st = "finished" /\ t.req[r].sec = s.req[r].sec /\ t.req[r].op = s.req[r].op
  /\ t.req[r].err # "EBUSY"
  /\ t.bm[b].locked = s.bm[b].locked /\ t.bm[b].rd = s.bm[b].rd /\ t.bm[b].wr = s.bm[b].wr
  /\ t.bm[b].map = s.bm[b].map /\ t.bm[b].queue = s.bm[b].queue
  /\ t.bm[b].waiting = s.bm[b].waiting
  /\ t.bm[b].shadow = IF t.req[r].err = "ok" THEN s.bm[b].shadow \cup {sec_of(s.req[r].sec)}
                      ELSE s.bm[b].shadow
  /\ t.bm[b].tx = counted(s.bm[b].tx)

LEMMA TxFields ==
  ASSUME NEW T \in Tx, NEW U, U = counted(T)
  PROVE  /\ U.err = T.err /\ U.closed = T.closed /\ U.started = T.started
         /\ U.finished = T.finished + 1 /\ U.live = T.live /\ U.upd = T.upd /\ U.reqs = T.reqs
  BY DEF Tx, counted

LEMMA TxWriteDriver ==
  ASSUME NEW s, NEW t \in VhdState, NEW io \in s.aio, NEW b, NEW r, b = io.blk, r = io.req,
         Driver(s, NoReq, NoBlock), io.op = "data_write", r \in s.bm[b].tx.reqs,
         TxWritten(s, t, b, r, io)
  PROVE  /\ Driver(t, NoReq, b) /\ t.bm[b].tx.live /\ ~t.bm[b].wr
         /\ ~(t.bm[b].tx.upd /\ t.bat_tx)
<1> DEFINE m == s.bm[b]
           n == t.bm[b]
<1>1. s \in VhdState /\ BlkOK(s, b, NoBlock) /\ MemOK(s, b) /\ TxOK(s, b) /\ CountOK(s)
      /\ Unique(s) /\ b \in Blocks /\ r \in Reqs /\ IoOK(s, io) /\ m \in Bitmap /\ m.tx \in Tx
  BY IoField, BmField DEF Driver
<1>2. s.req[r].st = "io" /\ blk_of(s.req[r].sec) = b /\ s.req[r].op = "write"
  BY <1>1 DEF IoOK
<1>3. OnlyBlk(s, t, b) /\ t.aio = s.aio \ {io} /\ t.vfree = s.vfree
      /\ \A q \in Reqs : q # r => t.req[q] = s.req[q]
  BY DEF TxWritten
<1>4. t.req[r].st = "finished" /\ t.req[r].sec = s.req[r].sec /\ t.req[r].op = s.req[r].op
      /\ t.req[r].err # "EBUSY"
  BY DEF TxWritten
<1>5. /\ n.locked = m.locked /\ n.rd = m.rd /\ n.wr = m.wr /\ n.map = m.map
      /\ n.queue = m.queue /\ n.waiting = m.waiting
      /\ n.shadow = IF t.req[r].err = "ok" THEN m.shadow \cup {sec_of(s.req[r].sec)}
                    ELSE m.shadow
  BY DEF TxWritten
<1>6. /\ n.tx.err = m.tx.err /\ n.tx.closed = m.tx.closed /\ n.tx.started = m.tx.started
      /\ n.tx.finished = m.tx.finished + 1 /\ n.tx.live = m.tx.live /\ n.tx.upd = m.tx.upd
      /\ n.tx.reqs = m.tx.reqs
  <2>1. n.tx = counted(m.tx)
    BY DEF TxWritten
  <2> HIDE DEF n, m
  <2> QED BY <1>1, <2>1, TxFields
<1> HIDE DEF n, m
<1>7. /\ \A x, op : op # io.op \/ x # io.blk => (HasIO(t, x, op) <=> HasIO(s, x, op))
      /\ \A i \in Tiocb : i.blk # io.blk => (i \in t.aio <=> i \in s.aio)
      /\ Unique(t) /\ IsFiniteSet(t.aio)
      /\ io.op # "redundant_bm" => Redundant(t) = Redundant(s)
  BY <1>1, <1>3, LessIO
<1>8. io \in txios(s, b) /\ txios(t, b) = txios(s, b) \ {io}
  <2>1. TxIO(s, b, io)
    BY DEF TxIO
  <2>2. \A i : TxIO(t, b, i) <=> TxIO(s, b, i)
    BY <1>3, <1>6 DEF TxIO, OnlyBlk, n, m
  <2> QED BY <1>3, <2>1, <2>2 DEF txios
<1>9. ~m.wr /\ ~(m.tx.upd /\ s.bat_tx) /\ m.tx.live /\ ~m.rd /\ b # NoBlock
  <2>1. m.tx # init_tx
    BY InitBm DEF m
  <2> QED BY <1>1, <1>8, <2>1, BlkNo DEF BlkOK, m
<1>10. /\ t.bat = s.bat /\ t.prealloc = s.prealloc /\ t.batmap = s.batmap
       /\ t.cached = s.cached /\ t.bat_tx = s.bat_tx /\ (Mine(t, b) <=> Mine(s, b))
    BY <1>3 DEF OnlyBlk, SameBat, Mine
<1>11. \A op : op # "data_write" => (HasIO(t, b, op) <=> HasIO(s, b, op))
  BY <1>7
<1>12. m.shadow \subseteq n.shadow
  BY <1>5
<1>13. BlkOK(t, b, b)
  <2>1. n.map \subseteq n.shadow
    BY <1>1, <1>5, <1>9, <1>12 DEF BlkOK, m
  <2>2. b \in s.cached
    BY <1>1, <1>9, InitBm DEF BlkOK, m
  <2>3. b \in s.batmap => s.bat[b] # DD_BLK_UNUSED /\ m.map = Secs
    BY <1>1, <2>2 DEF BlkOK, m
  <2>4. (bitmap_in_use(n) => n.locked) /\ n.tx.reqs \cap n.queue = {}
    BY <1>1, <1>5, <1>6 DEF BlkOK, bitmap_in_use, m
  <2>5. n.queue # {} => n.tx.closed
    BY <1>1, <1>5, <1>6, <1>9 DEF BlkOK, m
  <2>6. /\ n.tx.err # "EBUSY" /\ (n.waiting # {} => n.rd)
        /\ (s.bat[b] = DD_BLK_UNUSED => Mine(s, b) /\ n.map = {})
        /\ n.tx.upd => /\ ~s.prealloc /\ Mine(s, b)
                       /\ HasIO(s, b, "zero_bm") \/ HasIO(s, b, "bat")
    BY <1>1, <1>5, <1>6, <1>9 DEF BlkOK, m
  <2> QED BY <1>5, <1>6, <1>9, <1>10, <1>11, <2>1, <2>2, <2>3, <2>4, <2>5, <2>6 DEF BlkOK, n
<1>14. TxOK(t, b)
  BY <1>1, <1>6, <1>8, TxLess DEF n, m
<1>15. MemOK(t, b)
  <2>1. m.waiting \subseteq Reqs /\ r \notin m.waiting
    BY <1>1, <1>2 DEF Bitmap, MemOK, m
  <2>2. \A q \in n.waiting : t.req[q].st = "waiting" /\ blk_of(t.req[q].sec) = b
    BY <1>1, <1>3, <1>5, <2>1 DEF MemOK, m
  <2>3. \A q \in Reqs : q \in n.tx.reqs \cup n.queue =>
          /\ t.req[q].st \in {"io", "finished"} /\ t.req[q].op = "write"
          /\ blk_of(t.req[q].sec) = b
    BY <1>1, <1>2, <1>3, <1>4, <1>5, <1>6 DEF MemOK, m
  <2>4. \A q \in Reqs : q \in n.tx.reqs =>
          (t.req[q].st = "finished" /\ t.req[q].err = "ok" => sec_of(t.req[q].sec) \in n.shadow)
    BY <1>1, <1>3, <1>4, <1>5, <1>6 DEF MemOK, m
  <2> QED BY <2>2, <2>3, <2>4 DEF MemOK, n
<1>16. ASSUME NEW q \in Reqs, blk_of(s.req[q].sec) = b PROVE ReqOK(t, q, NoReq)
  <2>1. ReqOK(s, q, NoReq) /\ q # NoReq
    BY NotMeta DEF Driver
  <2>2. CASE q = r
    <3>1. r \in n.tx.reqs
      BY <1>6 DEF m
    <3> QED BY <2>1, <2>2, <3>1, <1>2, <1>4 DEF ReqOK, n
  <2>3. CASE q # r
    <3>1. t.req[q] = s.req[q] /\ (\A i \in s.aio : i.req = q => i \in t.aio)
      BY <1>3, <2>3
    <3>2. n.waiting = m.waiting /\ n.queue = m.queue /\ n.tx.reqs = m.tx.reqs
      BY <1>5, <1>6
    <3> QED BY <2>1, <3>1, <3>2, <1>16 DEF ReqOK, n, m
  <2> QED BY <2>2, <2>3
<1>17. ASSUME NEW i \in t.aio, i.blk = b PROVE IoOK(t, i)
  <2>1. i \in s.aio /\ i # io /\ IoOK(s, i)
    BY <1>3 DEF Driver
  <2>2. SameBat(s, t) /\ t.prealloc = s.prealloc /\ t.batmap = s.batmap
    BY <1>3 DEF OnlyBlk
  <2>3. s.bm[i.blk] = m /\ t.bm[i.blk] = n
    BY <1>17 DEF m, n
  <2>4. i.req \in Reqs =>
           /\ t.req[i.req].op = s.req[i.req].op /\ t.req[i.req].sec = s.req[i.req].sec
           /\ i.op \in Data => t.req[i.req].st = s.req[i.req].st
           /\ i.op = "redundant_bm" => accepted(t.req[i.req])
    <3>1. CASE i.req # r
      BY <3>1, <1>3, <2>1 DEF IoOK
    <3>2. CASE i.req = r
      <4>1. i.op \notin Data
        BY <2>1, <3>2, <1>1, <1>2, <1>17 DEF Unique, IoOK, Data
      <4> QED BY <3>2, <4>1, <1>4 DEF accepted
    <3> QED BY <3>1, <3>2
  <2> QED BY <1>1, <1>5, <1>6, <2>1, <2>2, <2>3, <2>4, IoKeep
<1>18. CountOK(t)
  <2>1. outstanding(t) = outstanding(s)
    BY <1>1, <1>2, <1>3, <1>4 DEF outstanding
  <2>2. IsFiniteSet(t.aio) /\ Redundant(t) = Redundant(s) /\ t.cached = s.cached
    BY <1>7, <1>10
  <2> QED BY <1>1, <1>3, <2>1, <2>2, CountSame
<1>19. \A q \in {NoReq} : q \in Reqs => blk_of(s.req[q].sec) = b
  BY NotMeta
<1>20. /\ Unique(t) /\ OnlyBlk(s, t, b)
       /\ \A q \in Reqs : /\ t.req[q].sec = s.req[q].sec
                          /\ blk_of(s.req[q].sec) # b => t.req[q] = s.req[q]
  BY <1>2, <1>3, <1>4, <1>7
<1>21. /\ HasIO(t, b, "zero_bm") <=> HasIO(s, b, "zero_bm")
       /\ HasIO(t, b, "bat") <=> HasIO(s, b, "bat")
       /\ \A i \in Tiocb : i.blk # b => (i \in t.aio <=> i \in s.aio)
       /\ t.bm[b].tx.live <=> s.bm[b].tx.live
       /\ s.bm[b].tx.err # "ok" => t.bm[b].tx.err # "ok"
       /\ s.bm[b].tx.closed => t.bm[b].tx.closed
  BY <1>6, <1>7, <1>11 DEF n, m
<1>22. Driver(t, NoReq, b)
  <2>1. b \in Blocks
    BY <1>1
  <2>2. (\A q \in Reqs : blk_of(s.req[q].sec) = b => ReqOK(t, q, NoReq))
        /\ (\A i \in t.aio : i.blk = b => IoOK(t, i))
    BY <1>16, <1>17
  <2> QED BY <1>13, <1>14, <1>15, <1>18, <1>20, <1>21, <2>1, <2>2, BusyDriver
<1> QED BY <1>5, <1>6, <1>9, <1>10, <1>22 DEF n

(* A bitmap has been written, or the write has failed.                      *)
BitmapWritten(s, t, b, io) ==
  /\ OnlyBlk(s, t, b) /\ t.aio = s.aio \ {io} /\ t.vfree = s.vfree /\ t.req = s.req
  /\ t.bm[b].locked = s.bm[b].locked /\ t.bm[b].rd = s.bm[b].rd /\ ~t.bm[b].wr
  /\ t.bm[b].map = s.bm[b].map /\ t.bm[b].queue = s.bm[b].queue
  /\ t.bm[b].waiting = s.bm[b].waiting /\ t.bm[b].shadow = s.bm[b].shadow
  /\ t.bm[b].tx = s.bm[b].tx

LEMMA BitmapWriteDriver ==
  ASSUME NEW s, NEW t \in VhdState, NEW io \in s.aio, NEW b, b = io.blk,
         Driver(s, NoReq, NoBlock), io.op = "bitmap_write", BitmapWritten(s, t, b, io)
  PROVE  /\ Driver(t, NoReq, b) /\ t.bm[b].tx.live /\ ~t.bm[b].wr
         /\ t.bm[b].tx.closed /\ txios(t, b) = {} /\ ~(t.bm[b].tx.upd /\ t.bat_tx)
<1> DEFINE m == s.bm[b]
           n == t.bm[b]
<1>1. s \in VhdState /\ BlkOK(s, b, NoBlock) /\ MemOK(s, b) /\ TxOK(s, b) /\ CountOK(s)
      /\ Unique(s) /\ b \in Blocks /\ IoOK(s, io) /\ m \in Bitmap /\ m.tx \in Tx
  BY IoField, BmField DEF Driver
<1>2. m.wr /\ io.req = bm_req
  BY <1>1 DEF IoOK
<1>3. OnlyBlk(s, t, b) /\ t.aio = s.aio \ {io} /\ t.vfree = s.vfree /\ t.req = s.req
  BY DEF BitmapWritten
<1>4. /\ n.locked = m.locked /\ n.rd = m.rd /\ ~n.wr /\ n.map = m.map
      /\ n.queue = m.queue /\ n.waiting = m.waiting /\ n.shadow = m.shadow /\ n.tx = m.tx
  BY DEF BitmapWritten
<1> HIDE DEF n, m
<1>5. /\ \A x, op : op # io.op \/ x # io.blk => (HasIO(t, x, op) <=> HasIO(s, x, op))
      /\ \A i \in Tiocb : i.blk # io.blk => (i \in t.aio <=> i \in s.aio)
      /\ Unique(t) /\ IsFiniteSet(t.aio)
      /\ io.op # "redundant_bm" => Redundant(t) = Redundant(s)
  BY <1>1, <1>3, LessIO
<1>6. txios(t, b) = txios(s, b)
  <2>1. ~TxIO(s, b, io)
    BY DEF TxIO
  <2>2. \A i : TxIO(t, b, i) <=> TxIO(s, b, i)
    BY <1>3, <1>4 DEF TxIO, OnlyBlk, n, m
  <2> QED BY <1>3, <2>1, <2>2 DEF txios
<1>7. m.tx.closed /\ m.tx.live /\ ~m.rd /\ b # NoBlock /\ txios(s, b) = {}
      /\ ~(m.tx.upd /\ s.bat_tx)
  BY <1>1, <1>2, InitBm, BlkNo DEF BlkOK, m
<1>8. /\ t.bat = s.bat /\ t.prealloc = s.prealloc /\ t.batmap = s.batmap
      /\ t.cached = s.cached /\ t.bat_tx = s.bat_tx /\ (Mine(t, b) <=> Mine(s, b))
    BY <1>3 DEF OnlyBlk, SameBat, Mine
<1>9. \A op : op # "bitmap_write" => (HasIO(t, b, op) <=> HasIO(s, b, op))
  BY <1>5
<1>10. BlkOK(t, b, b)
  <2>1. b \in s.cached
    BY <1>1, <1>2, InitBm DEF BlkOK, m
  <2>2. bitmap_in_use(n) => n.locked
    BY <1>1, <1>4 DEF BlkOK, bitmap_in_use, m
  <2> QED BY <1>1, <1>4, <1>6, <1>7, <1>8, <1>9, <2>1, <2>2 DEF BlkOK, n, m
<1>11. TxOK(t, b)
  BY <1>1, <1>4, <1>6 DEF TxOK, n, m
<1>12. MemOK(t, b)
  BY <1>1, <1>3, <1>4 DEF MemOK, n, m
<1>13. ASSUME NEW q \in Reqs, blk_of(s.req[q].sec) = b PROVE ReqOK(t, q, NoReq)
  <2>1. ReqOK(s, q, NoReq) /\ q # NoReq
    BY NotMeta DEF Driver
  <2>2. \A i \in s.aio : i.op \in Data => i \in t.aio
    BY <1>3 DEF Data
  <2> QED BY <2>1, <2>2, <1>3, <1>4, <1>13 DEF ReqOK, n, m
<1>14. ASSUME NEW i \in t.aio, i.blk = b PROVE IoOK(t, i)
  <2>1. i \in s.aio /\ i # io /\ IoOK(s, i)
    BY <1>3 DEF Driver
  <2>2. SameBat(s, t) /\ t.prealloc = s.prealloc /\ t.batmap = s.batmap /\ t.req = s.req
    BY <1>3 DEF OnlyBlk
  <2>3. s.bm[i.blk] = m /\ t.bm[i.blk] = n
    BY <1>14 DEF m, n
  <2>4. i.op # "bitmap_write"
    BY <2>1, <1>1, <1>2, <1>14 DEF Unique, IoOK
  <2>5. i.op = "redundant_bm" => accepted(s.req[i.req])
    BY <2>1 DEF IoOK
  <2> QED BY <1>1, <1>4, <2>1, <2>2, <2>3, <2>4, <2>5, IoKeep
<1>15. CountOK(t)
  <2>1. IsFiniteSet(t.aio) /\ Redundant(t) = Redundant(s) /\ t.cached = s.cached
    BY <1>5, <1>8
  <2> QED BY <1>1, <1>3, <2>1, CountSame DEF outstanding
<1>16. Unique(t) /\ OnlyBlk(s, t, b) /\ t.req = s.req /\ b \in Blocks
  BY <1>1, <1>3, <1>5
<1>17. /\ HasIO(t, b, "zero_bm") <=> HasIO(s, b, "zero_bm")
       /\ HasIO(t, b, "bat") <=> HasIO(s, b, "bat")
       /\ \A i \in Tiocb : i.blk # b => (i \in t.aio <=> i \in s.aio)
       /\ t.bm[b].tx = s.bm[b].tx
  BY <1>4, <1>5, <1>9 DEF n, m
<1>18. Driver(t, NoReq, b)
  BY <1>10, <1>11, <1>12, <1>13, <1>14, <1>15, <1>16, <1>17, BusyDriver
<1> QED BY <1>4, <1>6, <1>7, <1>8, <1>18 DEF n

(* The zeroed bitmap is in the file, and the BAT entry follows.             *)
ZeroEnds(s, t, b, io) ==
  /\ t.up = s.up /\ t.prealloc = s.prealloc /\ t.batmap = s.batmap /\ t.cached = s.cached
  /\ t.req = s.req /\ t.vfree = s.vfree /\ t.bat = s.bat /\ t.next_db = s.next_db
  /\ \A x \in Blocks : x # b => t.bm[x] = s.bm[x]
  /\ t.locked = s.locked /\ t.pbw_blk = s.pbw_blk /\ t.pbw_offset = s.pbw_offset
  /\ t.bat_err = "ok" /\ ~t.bat_tx /\ t.started /\ t.bat_buf = bat_sector(s)
  /\ t.bm[b].locked = s.bm[b].locked /\ t.bm[b].rd = s.bm[b].rd /\ t.bm[b].wr = s.bm[b].wr
  /\ t.bm[b].map = s.bm[b].map /\ t.bm[b].queue = s.bm[b].queue
  /\ t.bm[b].waiting = s.bm[b].waiting /\ t.bm[b].shadow = s.bm[b].shadow
  /\ t.bm[b].tx = finished(s.bm[b].tx, {zero_req})
  /\ t.aio = (s.aio \ {io}) \cup {[op |-> "bat", blk |-> b, req |-> bat_req,
                                   slot |-> s.pbw_offset, landed |-> FALSE]}

LEMMA FinishedFields ==
  ASSUME NEW T \in Tx, NEW R, NEW U, U = finished(T, R)
  PROVE  /\ U.err = T.err /\ U.closed = T.closed /\ U.started = T.started
         /\ U.finished = T.finished + 1 /\ U.live = T.live /\ U.upd = T.upd
         /\ U.reqs = T.reqs \ R
  BY DEF Tx, finished

(* Another I/O takes the place of one that is over.                         *)
LEMMA SwapIO ==
  ASSUME NEW s, NEW t, NEW io \in s.aio, NEW j, t.aio = (s.aio \ {io}) \cup {j},
         CountOK(s), Unique(s), io.blk = j.blk,
         \A i \in s.aio : i.req # j.req \/ i.op # j.op \/ i.blk # j.blk \/ i = io
  PROVE  /\ \A x, op : (op # io.op /\ op # j.op) \/ x # io.blk => (HasIO(t, x, op) <=> HasIO(s, x, op))
         /\ HasIO(t, j.blk, j.op)
         /\ \A i \in Tiocb : i.blk # io.blk => (i \in t.aio <=> i \in s.aio)
         /\ Unique(t) /\ IsFiniteSet(t.aio)
         /\ io.op # "redundant_bm" /\ j.op # "redundant_bm" => Redundant(t) = Redundant(s)
<1>1. IsFiniteSet(t.aio)
  <2>1. IsFiniteSet(s.aio \ {io})
    BY FS_RemoveElement DEF CountOK
  <2> QED BY <2>1, FS_AddElement
<1>2. Unique(t)
  BY DEF Unique
<1>3. HasIO(t, j.blk, j.op)
  BY DEF HasIO
<1> QED BY <1>1, <1>2, <1>3 DEF HasIO, Redundant

LEMMA ZeroDriver ==
  ASSUME NEW s, NEW t \in VhdState, NEW io \in s.aio, NEW b, b = io.blk,
         Driver(s, NoReq, NoBlock), io.op = "zero_bm", ZeroEnds(s, t, b, io)
  PROVE  /\ Driver(t, NoReq, b) /\ t.bm[b].tx.live /\ ~t.bm[b].wr
         /\ ~(t.bm[b].tx.upd /\ t.bat_tx) /\ (Mine(t, b) => Allocating(t))
<1> DEFINE m == s.bm[b]
           n == t.bm[b]
           j == [op |-> "bat", blk |-> b, req |-> bat_req, slot |-> s.pbw_offset, landed |-> FALSE]
<1>1. s \in VhdState /\ BlkOK(s, b, NoBlock) /\ MemOK(s, b) /\ TxOK(s, b) /\ CountOK(s)
      /\ Unique(s) /\ b \in Blocks /\ IoOK(s, io) /\ m \in Bitmap /\ m.tx \in Tx
      /\ BatOK(s, NoBlock)
  BY IoField, BmField DEF Driver
<1>2. m.tx.upd /\ io.req = zero_req /\ Mine(s, b) /\ ~s.started /\ io.slot = s.pbw_offset
  BY <1>1 DEF IoOK
<1>3. /\ t.prealloc = s.prealloc /\ t.batmap = s.batmap /\ t.cached = s.cached
      /\ t.req = s.req /\ t.vfree = s.vfree /\ t.bat = s.bat /\ t.next_db = s.next_db
      /\ \A x \in Blocks : x # b => t.bm[x] = s.bm[x]
  BY DEF ZeroEnds
<1>4. /\ t.locked = s.locked /\ t.pbw_blk = s.pbw_blk /\ t.pbw_offset = s.pbw_offset
      /\ t.bat_err = "ok" /\ ~t.bat_tx /\ t.started /\ t.bat_buf = bat_sector(s)
  BY DEF ZeroEnds
<1>5. /\ n.locked = m.locked /\ n.rd = m.rd /\ n.wr = m.wr /\ n.map = m.map
      /\ n.queue = m.queue /\ n.waiting = m.waiting /\ n.shadow = m.shadow
  BY DEF ZeroEnds
<1>6. n.tx = finished(m.tx, {zero_req}) /\ t.aio = (s.aio \ {io}) \cup {j}
  BY DEF ZeroEnds
<1>7. j.op = "bat" /\ j.blk = b /\ j.req = bat_req /\ j.slot = s.pbw_offset
  OBVIOUS
<1> HIDE DEF n, m, j
<1>8. /\ n.tx.err = m.tx.err /\ n.tx.closed = m.tx.closed /\ n.tx.started = m.tx.started
      /\ n.tx.finished = m.tx.finished + 1 /\ n.tx.live = m.tx.live /\ n.tx.upd = m.tx.upd
      /\ n.tx.reqs = m.tx.reqs \ {zero_req}
  BY <1>1, <1>6, FinishedFields
<1>9. \A i \in s.aio : i.op # "bat" \/ i.blk # b
  BY <1>2 DEF Driver, IoOK
<1>10. \A i \in s.aio : i.op = "zero_bm" /\ i.blk = b => i = io
  BY <1>1, <1>2 DEF Driver, IoOK, Unique
<1>11. /\ \A x, op : (op # io.op /\ op # j.op) \/ x # io.blk => (HasIO(t, x, op) <=> HasIO(s, x, op))
       /\ HasIO(t, j.blk, j.op)
       /\ \A i \in Tiocb : i.blk # io.blk => (i \in t.aio <=> i \in s.aio)
       /\ Unique(t) /\ IsFiniteSet(t.aio)
       /\ io.op # "redundant_bm" /\ j.op # "redundant_bm" => Redundant(t) = Redundant(s)
  <2>1. \A i \in s.aio : i.req # j.req \/ i.op # j.op \/ i.blk # j.blk \/ i = io
    BY <1>7, <1>9
  <2>2. CountOK(s) /\ Unique(s) /\ io.blk = j.blk /\ t.aio = (s.aio \ {io}) \cup {j}
    BY <1>1, <1>6, <1>7
  <2> QED BY ONLY <2>1, <2>2, io \in s.aio, SwapIO
<1>12. HasIO(s, b, "zero_bm") /\ HasIO(t, b, "bat") /\ b # NoBlock
  BY <1>1, <1>7, <1>11, BlkNo DEF HasIO
<1>13. ~s.prealloc /\ m.tx.live /\ ~m.rd
  BY <1>1, <1>2, InitBm DEF BlkOK, m
<1>14. io \in txios(s, b) /\ txios(t, b) = txios(s, b) \ {io}
  <2>1. TxIO(s, b, io)
    BY DEF TxIO
  <2>2. ~TxIO(t, b, j)
    BY <1>3, <1>7, <1>13 DEF TxIO
  <2>3. \A i \in s.aio : TxIO(t, b, i) <=> TxIO(s, b, i)
    <3>1. \A i \in s.aio : i.op = "data_write" => i.req # zero_req
      BY <1>1, IoField, NotMeta
    <3> QED BY <3>1, <1>3, <1>8 DEF TxIO, n, m
  <2> QED BY <1>6, <2>1, <2>2, <2>3 DEF txios
<1>15. ~m.wr
  BY <1>1, <1>14 DEF BlkOK, m
<1>16. Allocating(s) /\ Mine(t, b) /\ s.pbw_blk = b /\ s.locked
  BY <1>1, <1>2, <1>4, <1>12 DEF BatOK, Failing, Done, Mine
<1>17. Allocating(t)
  BY <1>3, <1>4, <1>8, <1>12, <1>13, <1>16 DEF Allocating, n
<1>18. BatOK(t, b)
  BY <1>1, <1>3, <1>4, <1>16, <1>17 DEF BatOK
<1>19. LocalTo(s, t, b)
  <2>1. \A x \in Blocks : x # b => (Mine(t, x) <=> Mine(s, x))
    BY <1>4 DEF Mine
  <2> QED BY <2>1, <1>3, <1>11, <1>16 DEF LocalTo
<1>20. BlkOK(t, b, b)
  <2>1. bitmap_in_use(n) => n.locked
    BY <1>1, <1>5, <1>8 DEF BlkOK, bitmap_in_use, m
  <2>2. b \in s.cached
    BY <1>1, <1>13, InitBm DEF BlkOK, m
  <2>3. n.tx.reqs \cap n.queue = {} /\ (n.queue # {} => n.tx.closed)
    BY <1>1, <1>5, <1>8, <1>12 DEF BlkOK, m
  <2>4. n.map \subseteq n.shadow /\ (n.waiting # {} => n.rd) /\ n.tx.err # "EBUSY"
        /\ (s.bat[b] = DD_BLK_UNUSED => n.map = {})
        /\ (b \in s.batmap => s.bat[b] # DD_BLK_UNUSED /\ n.map = Secs)
    BY <1>1, <1>5, <1>8, <1>13, <2>2 DEF BlkOK, m
  <2> QED BY <1>3, <1>4, <1>5, <1>8, <1>12, <1>13, <1>15, <1>16, <2>1, <2>2, <2>3, <2>4
      DEF BlkOK, n
<1>21. TxOK(t, b)
  BY <1>1, <1>8, <1>14, TxLess DEF n, m
<1>22. MemOK(t, b)
  <2>1. n.tx.reqs \subseteq m.tx.reqs
    BY <1>8
  <2> QED BY <1>1, <1>3, <1>5, <2>1, SMTT(30) DEF MemOK, n, m
<1>23. ASSUME NEW q \in Reqs, blk_of(s.req[q].sec) = b PROVE ReqOK(t, q, NoReq)
  <2>1. ReqOK(s, q, NoReq) /\ q # NoReq /\ q # zero_req
    BY NotMeta DEF Driver
  <2>2. \A i \in s.aio : i.op \in Data => i \in t.aio
    BY <1>6 DEF Data
  <2>3. q \in n.tx.reqs <=> q \in m.tx.reqs
    BY <1>8, <2>1
  <2> QED BY <2>1, <2>2, <2>3, <1>3, <1>5, <1>23 DEF ReqOK, n, m
<1>24. ASSUME NEW i \in t.aio, i.blk = b PROVE IoOK(t, i)
  <2>1. CASE i = j
    <3>1. bat_sector(t) = bat_sector(s)
      BY <1>3, <1>4 DEF bat_sector
    <3> QED BY <2>1, <3>1, <1>3, <1>4, <1>7, <1>8, <1>2, <1>13, <1>16, <1>24 DEF IoOK, n
  <2>2. CASE i \in s.aio /\ i # io
    <3>1. IoOK(s, i) /\ i.op # "zero_bm" /\ i.op # "bat"
      BY <2>2, <1>9, <1>10, <1>24 DEF Driver
    <3>2. i.op = "data_write" => i.req # zero_req
      BY <1>1, <2>2, IoField, NotMeta
    <3>3. \A q : q # zero_req => (q \in n.tx.reqs <=> q \in m.tx.reqs)
      BY <1>8
    <3> QED BY <3>1, <3>2, <3>3, <1>3, <1>4, <1>5, <1>16, <1>24 DEF IoOK, Mine, n, m
  <2> QED BY <1>6, <2>1, <2>2
<1>25. CountOK(t)
  <2>1. IsFiniteSet(t.aio) /\ Redundant(t) = Redundant(s)
    BY <1>7, <1>11
  <2> QED BY <1>1, <1>3, <2>1, CountSame DEF outstanding
<1>26. Unique(t) /\ b \in Blocks /\ \A r \in {NoReq} : r \in Reqs => blk_of(s.req[r].sec) = b
  BY <1>1, <1>11, NotMeta
<1>27. Driver(t, NoReq, b)
  BY <1>18, <1>19, <1>20, <1>21, <1>22, <1>23, <1>24, <1>25, <1>26, LocalDriver
<1> QED BY <1>4, <1>5, <1>8, <1>13, <1>15, <1>17, <1>27 DEF n

(* The BAT write is over; e is its error.                                   *)
BatEnds(s, t, b, io, e) ==
  /\ t.up = s.up /\ t.prealloc = s.prealloc /\ t.batmap = s.batmap /\ t.cached = s.cached
  /\ t.req = s.req /\ t.vfree = s.vfree /\ t.aio = s.aio \ {io}
  /\ \A x \in Blocks : x # b => t.bm[x] = s.bm[x]
  /\ t.locked = s.locked /\ t.pbw_blk = s.pbw_blk /\ t.pbw_offset = s.pbw_offset
  /\ t.started = s.started /\ t.bat_tx = s.bat_tx /\ t.bat_err = e
  /\ \A x \in Blocks : x # b => t.bat[x] = s.bat[x]
  /\ e = "ok" => t.bat[b] = s.pbw_offset /\ t.next_db = s.pbw_offset + 1
  /\ e # "ok" => t.bat = s.bat /\ t.next_db = s.next_db
  /\ t.bm[b].locked = s.bm[b].locked /\ t.bm[b].rd = s.bm[b].rd /\ t.bm[b].wr = s.bm[b].wr
  /\ t.bm[b].map = s.bm[b].map /\ t.bm[b].queue = s.bm[b].queue
  /\ t.bm[b].waiting = s.bm[b].waiting /\ t.bm[b].shadow = s.bm[b].shadow
  /\ t.bm[b].tx.err = IF e = "ok" THEN s.bm[b].tx.err ELSE e
  /\ t.bm[b].tx.closed = s.bm[b].tx.closed /\ t.bm[b].tx.started = s.bm[b].tx.started
  /\ t.bm[b].tx.live = s.bm[b].tx.live
  /\ s.prealloc => /\ t.bm[b].tx.finished = s.bm[b].tx.finished + 1
                   /\ t.bm[b].tx.upd = s.bm[b].tx.upd
                   /\ t.bm[b].tx.reqs = s.bm[b].tx.reqs \ {bat_req}
  /\ ~s.prealloc => /\ t.bm[b].tx.finished = s.bm[b].tx.finished
                    /\ ~t.bm[b].tx.upd /\ t.bm[b].tx.reqs = s.bm[b].tx.reqs

NoAlloc(s, b) == ~HasIO(s, b, "zero_bm") /\ ~HasIO(s, b, "bat")

LEMMA BatEndDriver ==
  ASSUME NEW s, NEW t \in VhdState, NEW io \in s.aio, NEW b, b = io.blk, NEW e \in {"ok", "EIO"},
         Driver(s, NoReq, NoBlock), io.op = "bat", BatEnds(s, t, b, io, e)
  PROVE  /\ Driver(t, NoReq, b) /\ NoAlloc(t, b) /\ t.bm[b].tx.live /\ ~t.bm[b].tx.upd
         /\ Mine(t, b)
         /\ t.bm[b].queue # {} => t.bm[b].tx.closed
         /\ s.prealloc => ~t.bm[b].wr
         /\ ~s.prealloc /\ s.bat_tx =>
              t.bm[b].tx.closed /\ txios(t, b) = {} /\ ~t.bm[b].wr
         /\ ~s.prealloc /\ ~s.bat_tx =>
              (txios(t, b) # {} \/ t.bm[b].wr) /\ bitmap_in_use(t.bm[b])
<1> DEFINE m == s.bm[b]
           n == t.bm[b]
<1>1. s \in VhdState /\ BlkOK(s, b, NoBlock) /\ MemOK(s, b) /\ TxOK(s, b) /\ CountOK(s)
      /\ Unique(s) /\ b \in Blocks /\ IoOK(s, io) /\ m \in Bitmap /\ m.tx \in Tx
      /\ BatOK(s, NoBlock)
  BY IoField, BmField DEF Driver
<1>2. io.req = bat_req /\ Mine(s, b) /\ s.started /\ s.pbw_blk = b /\ s.locked
      /\ (IF s.prealloc THEN bat_req \in m.tx.reqs ELSE m.tx.upd)
  BY <1>1 DEF IoOK, Mine
<1>3. /\ t.prealloc = s.prealloc /\ t.batmap = s.batmap /\ t.cached = s.cached
      /\ t.req = s.req /\ t.vfree = s.vfree /\ t.aio = s.aio \ {io}
      /\ \A x \in Blocks : x # b => t.bm[x] = s.bm[x]
  BY DEF BatEnds
<1>4. /\ t.locked = s.locked /\ t.pbw_blk = s.pbw_blk /\ t.pbw_offset = s.pbw_offset
      /\ t.started = s.started /\ t.bat_tx = s.bat_tx /\ t.bat_err = e
      /\ \A x \in Blocks : x # b => t.bat[x] = s.bat[x]
      /\ e = "ok" => t.bat[b] = s.pbw_offset /\ t.next_db = s.pbw_offset + 1
      /\ e # "ok" => t.bat = s.bat /\ t.next_db = s.next_db
  BY DEF BatEnds
<1>5. /\ n.locked = m.locked /\ n.rd = m.rd /\ n.wr = m.wr /\ n.map = m.map
      /\ n.queue = m.queue /\ n.waiting = m.waiting /\ n.shadow = m.shadow
  BY DEF BatEnds
<1>6. /\ n.tx.err = IF e = "ok" THEN m.tx.err ELSE e
      /\ n.tx.closed = m.tx.closed /\ n.tx.started = m.tx.started /\ n.tx.live = m.tx.live
      /\ s.prealloc => /\ n.tx.finished = m.tx.finished + 1 /\ n.tx.upd = m.tx.upd
                       /\ n.tx.reqs = m.tx.reqs \ {bat_req}
      /\ ~s.prealloc => /\ n.tx.finished = m.tx.finished /\ ~n.tx.upd /\ n.tx.reqs = m.tx.reqs
  BY DEF BatEnds
<1> HIDE DEF n, m
<1>7. \A i \in s.aio : i.op = "bat" /\ i.blk = b => i = io
  BY <1>1, <1>2 DEF Driver, IoOK, Unique
<1>8. \A i \in s.aio : i.op = "zero_bm" => i.blk # b
  BY <1>2 DEF Driver, IoOK
<1>9. /\ \A x, op : op # io.op \/ x # io.blk => (HasIO(t, x, op) <=> HasIO(s, x, op))
      /\ \A i \in Tiocb : i.blk # io.blk => (i \in t.aio <=> i \in s.aio)
      /\ Unique(t) /\ IsFiniteSet(t.aio)
      /\ io.op # "redundant_bm" => Redundant(t) = Redundant(s)
  BY <1>1, <1>3, LessIO
<1>10. NoAlloc(t, b) /\ HasIO(s, b, "bat") /\ b # NoBlock
  BY <1>1, <1>3, <1>7, <1>8, BlkNo DEF NoAlloc, HasIO
<1>11. /\ Allocating(s) /\ m.tx.live /\ s.bat[b] = DD_BLK_UNUSED /\ s.pbw_offset = s.next_db
       /\ s.pbw_offset \in Slots
  BY <1>1, <1>2, <1>10 DEF BatOK, Failing, Done, Allocating, m
<1>12. ~m.rd /\ (m.tx.upd => ~s.prealloc) /\ b \notin s.batmap /\ m.map = {} /\ b \in s.cached
  BY <1>1, <1>11, InitBm DEF BlkOK, m
<1>13. \A i \in s.aio : i.op = "data_write" => i.req # bat_req
  BY <1>1, IoField, NotMeta
<1>14. \A i \in s.aio : TxIO(t, b, i) <=> TxIO(s, b, i)
  BY <1>3, <1>6, <1>13 DEF TxIO, n, m
<1>15. s.prealloc => io \in txios(s, b) /\ txios(t, b) = txios(s, b) \ {io}
  <2>1. s.prealloc => TxIO(s, b, io)
    BY DEF TxIO
  <2> QED BY <1>3, <1>14, <2>1 DEF txios
<1>16. ~s.prealloc => txios(t, b) = txios(s, b)
  <2>1. ~s.prealloc => ~TxIO(s, b, io)
    BY DEF TxIO
  <2> QED BY <1>3, <1>14, <2>1 DEF txios
<1>17. s.prealloc => ~m.wr
  BY <1>1, <1>15 DEF BlkOK, m
<1>18. Mine(t, b) /\ ~n.tx.upd
  BY <1>2, <1>4, <1>6, <1>12 DEF Mine
<1>19. BatOK(t, b)
  <2>1. CASE e = "ok"
    <3>1. Done(t, b)
      BY <2>1, <1>2, <1>4, <1>10 DEF Done, NoAlloc
    <3>2. \A x \in Blocks : x # b => t.bat[x] = s.bat[x] /\ s.bat[x] < s.next_db /\ s.bat[x] \in Int
      BY <1>1, <1>4, BatField DEF BatOK, Entries, Slots, DD_BLK_UNUSED
    <3>3. s.next_db \in Nat /\ t.bat[b] = s.next_db /\ t.next_db = s.next_db + 1
      BY <2>1, <1>1, <1>4, <1>11 DEF VhdState
    <3>4. \A x \in Blocks : t.bat[x] < t.next_db
      BY <3>2, <3>3
    <3>5. \A x \in Blocks : x # b => t.bat[x] # t.bat[b]
      BY <3>2, <3>3
    <3>6. \A x, y \in Blocks : x # y /\ t.bat[x] = t.bat[y] => t.bat[x] = DD_BLK_UNUSED
      BY <3>2, <3>5, <1>1 DEF BatOK
    <3> QED BY <3>1, <3>4, <3>6, <1>2, <1>4, <1>11 DEF BatOK
  <2>2. CASE e # "ok"
    <3>1. Failing(t, b)
      BY <2>2, <1>2, <1>4, <1>6, <1>10, <1>11 DEF Failing, NoAlloc, n
    <3> QED BY <2>2, <3>1, <1>1, <1>2, <1>4, <1>11 DEF BatOK
  <2> QED BY <2>1, <2>2
<1>20. LocalTo(s, t, b)
  <2>1. \A x \in Blocks : x # b => (Mine(t, x) <=> Mine(s, x))
    BY <1>4 DEF Mine
  <2> QED BY <2>1, <1>2, <1>3, <1>4, <1>9 DEF LocalTo
<1>21. (bitmap_in_use(n) => n.locked) /\ (n.queue # {} => n.tx.closed)
  BY <1>1, <1>5, <1>6, <1>2, <1>10, <1>18 DEF BlkOK, bitmap_in_use, m
<1>22. BlkOK(t, b, b)
  <2>1. n.tx.reqs \cap n.queue = {}
    BY <1>1, <1>5, <1>6 DEF BlkOK, m
  <2>2. n.map \subseteq n.shadow /\ (n.waiting # {} => n.rd) /\ n.tx.err # "EBUSY"
    BY <1>1, <1>5, <1>6, <1>12 DEF BlkOK, m
  <2>3. n.wr => n.tx.closed /\ txios(t, b) = {} /\ HasIO(t, b, "bitmap_write")
    BY <1>1, <1>5, <1>6, <1>9, <1>16, <1>17 DEF BlkOK, m
  <2> QED BY <1>3, <1>4, <1>5, <1>6, <1>11, <1>12, <1>18, <1>21, <2>1, <2>2, <2>3 DEF BlkOK, n
<1>23. TxOK(t, b)
  <2>1. CASE s.prealloc
    BY <2>1, <1>1, <1>6, <1>15, TxLess DEF n, m
  <2>2. CASE ~s.prealloc
    BY <2>2, <1>1, <1>6, <1>16 DEF TxOK, n, m
  <2> QED BY <2>1, <2>2
<1>24. MemOK(t, b)
  <2>1. n.tx.reqs \subseteq m.tx.reqs
    BY <1>6
  <2> QED BY <1>1, <1>3, <1>5, <2>1 DEF MemOK, n, m
<1>25. ASSUME NEW q \in Reqs, blk_of(s.req[q].sec) = b PROVE ReqOK(t, q, NoReq)
  <2>1. ReqOK(s, q, NoReq) /\ q # NoReq /\ q # bat_req
    BY NotMeta DEF Driver
  <2>2. \A i \in s.aio : i.op \in Data => i \in t.aio
    BY <1>3 DEF Data
  <2>3. q \in n.tx.reqs <=> q \in m.tx.reqs
    BY <1>6, <2>1
  <2> QED BY <2>1, <2>2, <2>3, <1>3, <1>5, <1>25 DEF ReqOK, n, m
<1>26. ASSUME NEW i \in t.aio, i.blk = b PROVE IoOK(t, i)
  <2>1. i \in s.aio /\ IoOK(s, i) /\ i.op # "zero_bm" /\ i.op # "bat"
    BY <1>3, <1>7, <1>8, <1>26 DEF Driver
  <2>2. i.op = "data_write" => i.req # bat_req
    BY <1>13, <2>1
  <2>3. \A q : q # bat_req => (q \in n.tx.reqs <=> q \in m.tx.reqs)
    BY <1>6
  <2>4. DD_BLK_UNUSED \notin Slots
    BY DEF DD_BLK_UNUSED, Slots
  <2>5. t.bat[b] = s.bat[b] \/ t.bat[b] = t.pbw_offset
    BY <1>4
  <2> QED BY <2>1, <2>2, <2>3, <2>4, <2>5, <1>3, <1>4, <1>5, <1>11, <1>12, <1>18, <1>26
      DEF IoOK, n, m
<1>27. CountOK(t)
  <2>1. IsFiniteSet(t.aio) /\ Redundant(t) = Redundant(s)
    BY <1>9
  <2> QED BY <1>1, <1>3, <2>1, CountSame DEF outstanding
<1>28. Unique(t) /\ b \in Blocks /\ \A r \in {NoReq} : r \in Reqs => blk_of(s.req[r].sec) = b
  BY <1>1, <1>9, NotMeta
<1>29. Driver(t, NoReq, b)
  BY <1>19, <1>20, <1>22, <1>23, <1>24, <1>25, <1>26, <1>27, <1>28, LocalDriver
<1>30. ~s.prealloc /\ s.bat_tx => n.tx.closed /\ txios(t, b) = {} /\ ~n.wr
  BY <1>1, <1>2, <1>5, <1>6, <1>16 DEF BlkOK, m
<1>31. ASSUME ~s.prealloc, ~s.bat_tx
       PROVE  (txios(t, b) # {} \/ n.wr) /\ bitmap_in_use(n)
  <2>1. txios(s, b) # {} \/ m.wr
    BY <1>1, <1>10, <1>11, <1>31 DEF BlkOK, m
  <2>2. CASE m.wr
    BY <2>2, <1>5 DEF bitmap_in_use
  <2>3. CASE txios(s, b) # {}
    <3>1. PICK i \in s.aio : TxIO(s, b, i)
      BY <2>3 DEF txios
    <3>2. i.op = "data_write" /\ i.req \in m.tx.reqs
      BY <3>1, <1>8, <1>31 DEF TxIO, m
    <3> QED BY <2>3, <3>2, <1>6, <1>16, <1>31 DEF bitmap_in_use
  <2> QED BY <2>1, <2>2, <2>3
<1> QED BY <1>5, <1>6, <1>10, <1>11, <1>17, <1>18, <1>21, <1>29, <1>30, <1>31 DEF n

(* Several requests are given back at once.                                 *)
LEMMA CountSet ==
  ASSUME NEW s \in VhdState, NEW t, NEW R, CountOK(s), IsFiniteSet(t.aio),
         Redundant(t) = Redundant(s), Cardinality(t.cached) <= CacheSize,
         R \subseteq outstanding(s),
         outstanding(t) = outstanding(s) \ R, t.vfree = s.vfree + Cardinality(R)
  PROVE  CountOK(t)
<1>1. IsFiniteSet(outstanding(s)) /\ IsFiniteSet(R) /\ Cardinality(R) \in Nat
  BY OutFinite, FS_Subset, FS_CardinalityType
<1>2. outstanding(s) \cap R = R
  OBVIOUS
<1>3. Cardinality(outstanding(t)) = Cardinality(outstanding(s)) - Cardinality(R)
  <2>1. Cardinality(outstanding(s) \ R)
          = Cardinality(outstanding(s)) - Cardinality(outstanding(s) \cap R)
    BY ONLY <1>1, FS_Difference
  <2> QED BY ONLY <1>2, <2>1, outstanding(t) = outstanding(s) \ R
<1>4. Cardinality(outstanding(s)) \in Nat /\ Cardinality(Redundant(s)) \in Nat
      /\ s.vfree \in Int /\ VReqs \in Nat
  BY OutFinite, RedundantFinite, ConstantsAssumption DEF CountOK, VhdState
<1> QED BY <1>1, <1>3, <1>4 DEF CountOK

(* One I/O for each request.                                                *)
LEMMA OneEach ==
  ASSUME NEW S, NEW N, IsFiniteSet(S),
         \A i \in N : i.req \in S,
         \A r \in S : \E i \in N : i.req = r,
         \A i, j \in N : i.req = j.req => i = j
  PROVE  IsFiniteSet(N) /\ Cardinality(N) = Cardinality(S)
<1> DEFINE f == [r \in S |-> CHOOSE i \in N : i.req = r]
<1>1. \A r \in S : f[r] \in N /\ f[r].req = r
  OBVIOUS
<1>2. f \in [S -> N]
  BY <1>1
<1>3. \A a, b \in S : f[a] = f[b] => a = b
  BY <1>1
<1>4. \A i \in N : \E r \in S : f[r] = i
  BY <1>1
<1> HIDE DEF f
<1>5. f \in Bijection(S, N)
  BY <1>2, <1>3, <1>4, Fun_IsBij
<1>6. ExistsBijection(S, N)
  BY <1>5, Fun_ExistsBij
<1> QED BY <1>6, FS_Bijection

-----------------------------------------------------------------------------
(* A bitmap has been read: the requests that waited for it go on.           *)

forwarded(q) == [q EXCEPT !.st = "done", !.val = Parent]
restarted(q) == [q EXCEPT !.st = "io"]

ToForward(s, b) == {r \in s.bm[b].waiting : /\ sec_of(s.req[r].sec) \notin s.bm[b].map
                                            /\ s.req[r].op = "read"}
ToUpdate(s, b)  == {r \in s.bm[b].waiting : /\ sec_of(s.req[r].sec) \notin s.bm[b].map
                                            /\ s.req[r].op = "write"}
NewIOs(s, b)    == {requeued_io(s, b, r) : r \in s.bm[b].waiting \ ToForward(s, b)}

Requeues(s, t, b, io) ==
  /\ OnlyBlk(s, t, b)
  /\ ~t.bm[b].rd /\ ~t.bm[b].wr /\ t.bm[b].waiting = {} /\ t.bm[b].queue = {}
  /\ t.bm[b].map = s.bm[b].map /\ t.bm[b].shadow = s.bm[b].map
  /\ t.bm[b].tx = IF ToUpdate(s, b) = {} THEN init_tx ELSE joined(init_tx, ToUpdate(s, b))
  /\ t.bm[b].locked <=> ToUpdate(s, b) # {}
  /\ t.aio = (s.aio \ {io}) \cup NewIOs(s, b)
  /\ t.vfree = s.vfree + Cardinality(ToForward(s, b))
  /\ \A r \in Reqs :
       /\ r \in ToForward(s, b) => t.req[r] = forwarded(s.req[r])
       /\ r \in s.bm[b].waiting \ ToForward(s, b) => t.req[r] = restarted(s.req[r])
       /\ r \notin s.bm[b].waiting => t.req[r] = s.req[r]

LEMMA NewIOFacts ==
  ASSUME NEW s, NEW b
  PROVE  /\ \A i \in NewIOs(s, b) :
              /\ i.blk = b /\ i.slot = s.bat[b] /\ ~i.landed
              /\ i.req \in s.bm[b].waiting \ ToForward(s, b)
              /\ i.op = IF s.req[i.req].op = "read" THEN "data_read" ELSE "data_write"
         /\ \A r \in s.bm[b].waiting \ ToForward(s, b) : \E i \in NewIOs(s, b) : i.req = r
         /\ \A i, j \in NewIOs(s, b) : i.req = j.req => i = j
<1> DEFINE W == s.bm[b].waiting \ ToForward(s, b)
<1>1. \A r : /\ requeued_io(s, b, r).req = r /\ requeued_io(s, b, r).blk = b
             /\ requeued_io(s, b, r).slot = s.bat[b] /\ ~requeued_io(s, b, r).landed
             /\ requeued_io(s, b, r).op = IF s.req[r].op = "read" THEN "data_read" ELSE "data_write"
  BY DEF requeued_io
<1>2. NewIOs(s, b) = {requeued_io(s, b, r) : r \in W}
  BY DEF NewIOs
<1> HIDE DEF W
<1>3. \A i \in NewIOs(s, b) : i.req \in W /\ i = requeued_io(s, b, i.req)
  BY <1>1, <1>2
<1>4. \A r \in W : requeued_io(s, b, r) \in NewIOs(s, b)
  BY <1>2
<1> QED BY <1>1, <1>3, <1>4 DEF W

LEMMA JoinedFields ==
  ASSUME NEW T \in Tx, NEW R, NEW U, U = joined(T, R)
  PROVE  /\ U.err = T.err /\ U.closed = T.closed /\ U.started = T.started + Cardinality(R)
         /\ U.finished = T.finished /\ U.live /\ U.upd = T.upd
         /\ U.reqs = T.reqs \cup R
  BY DEF Tx, joined

LEMMA RequeueDriver ==
  ASSUME NEW s, NEW t \in VhdState, NEW io \in s.aio, NEW b, b = io.blk,
         Driver(s, NoReq, NoBlock), io.op = "bitmap_read", waiters_requeuable(s, b),
         Requeues(s, t, b, io)
  PROVE  Driver(t, NoReq, NoBlock)
<1> DEFINE m   == s.bm[b]
           n   == t.bm[b]
           W   == s.bm[b].waiting
           fwd == ToForward(s, b)
           upd == ToUpdate(s, b)
           N   == NewIOs(s, b)
<1>1. s \in VhdState /\ BlkOK(s, b, NoBlock) /\ MemOK(s, b) /\ TxOK(s, b) /\ CountOK(s)
      /\ Unique(s) /\ b \in Blocks /\ IoOK(s, io) /\ m \in Bitmap /\ b # NoBlock
  BY IoField, BmField, BlkNo DEF Driver
<1>2. m.rd /\ m.tx = init_tx /\ m.queue = {} /\ ~m.wr /\ b \notin s.batmap
      /\ s.bat[b] # DD_BLK_UNUSED /\ io.req = bm_req
  BY <1>1 DEF IoOK, BlkOK
<1>3. /\ W \subseteq Reqs /\ fwd \subseteq W /\ upd \subseteq W /\ fwd \cap upd = {}
      /\ \A r \in fwd : s.req[r].op = "read"
      /\ \A r \in upd : s.req[r].op = "write" /\ sec_of(s.req[r].sec) \notin m.map
      /\ \A r \in W : s.req[r].st = "waiting" /\ blk_of(s.req[r].sec) = b
                      /\ s.req[r].op \in {"read", "write"}
      /\ \A r \in W : r \notin fwd /\ r \notin upd => sec_of(s.req[r].sec) \in m.map
  <2>1. W \subseteq Reqs
    BY <1>1 DEF Bitmap
  <2>2. \A r \in W : s.req[r].st = "waiting" /\ blk_of(s.req[r].sec) = b
                      /\ s.req[r].op \in {"read", "write"}
    BY <2>1, <1>1, ReqField DEF MemOK, waiters_requeuable, Request
  <2> QED BY <2>1, <2>2 DEF ToForward, ToUpdate
<1>4. OnlyBlk(s, t, b) /\ t.aio = (s.aio \ {io}) \cup N /\ t.vfree = s.vfree + Cardinality(fwd)
  BY DEF Requeues
<1>5. /\ ~n.rd /\ ~n.wr /\ n.waiting = {} /\ n.queue = {} /\ n.map = m.map /\ n.shadow = m.map
      /\ (n.locked <=> upd # {})
  BY DEF Requeues
<1>6. /\ upd = {} => n.tx = init_tx
      /\ upd # {} => /\ n.tx.err = "ok" /\ ~n.tx.closed /\ n.tx.started = Cardinality(upd)
                     /\ n.tx.finished = 0 /\ n.tx.live /\ ~n.tx.upd /\ n.tx.reqs = upd
  <2>1. n.tx = IF upd = {} THEN init_tx ELSE joined(init_tx, upd)
    BY DEF Requeues
  <2>2. Cardinality(upd) \in Nat
    BY <1>3, FiniteReqs
  <2> HIDE DEF upd, n
  <2>3. CASE upd = {}
    BY <2>1, <2>3
  <2>4. CASE upd # {}
    <3>1. n.tx = joined(init_tx, upd) /\ init_tx \in Tx
      BY <2>1, <2>4, TxTypes
    <3>2. /\ n.tx.err = init_tx.err /\ n.tx.closed = init_tx.closed
          /\ n.tx.started = init_tx.started + Cardinality(upd)
          /\ n.tx.finished = init_tx.finished /\ n.tx.live /\ n.tx.upd = init_tx.upd
          /\ n.tx.reqs = init_tx.reqs \cup upd
      BY ONLY <3>1, JoinedFields
    <3> QED BY <2>2, <2>4, <3>2, InitBm
  <2> QED BY <2>3, <2>4
<1>7. /\ \A r \in Reqs : r \in fwd => /\ t.req[r].st = "done" /\ t.req[r].err = s.req[r].err
                                      /\ t.req[r].op = s.req[r].op /\ t.req[r].sec = s.req[r].sec
      /\ \A r \in Reqs : r \in W \ fwd => /\ t.req[r].st = "io" /\ t.req[r].err = s.req[r].err
                                          /\ t.req[r].op = s.req[r].op /\ t.req[r].sec = s.req[r].sec
      /\ \A r \in Reqs : r \notin W => t.req[r] = s.req[r]
  <2>1. \A r \in Reqs : s.req[r] \in Request
    BY <1>1, ReqField
  <2>4. \A r \in Reqs :
       /\ r \in fwd => t.req[r] = forwarded(s.req[r])
       /\ r \in W \ fwd => t.req[r] = restarted(s.req[r])
       /\ r \notin W => t.req[r] = s.req[r]
    BY DEF Requeues
  <2> HIDE DEF fwd, W
  <2>5. ASSUME NEW r \in Reqs, r \in fwd
        PROVE  t.req[r].st = "done" /\ t.req[r].err = s.req[r].err
               /\ t.req[r].op = s.req[r].op /\ t.req[r].sec = s.req[r].sec
    <3>1. t.req[r] = forwarded(s.req[r]) /\ s.req[r] \in Request
      BY <2>1, <2>4, <2>5
    <3> QED BY ONLY <3>1 DEF Request, forwarded, restarted
  <2>6. ASSUME NEW r \in Reqs, r \in W \ fwd
        PROVE  t.req[r].st = "io" /\ t.req[r].err = s.req[r].err
               /\ t.req[r].op = s.req[r].op /\ t.req[r].sec = s.req[r].sec
    <3>1. t.req[r] = restarted(s.req[r]) /\ s.req[r] \in Request
      BY <2>1, <2>4, <2>6
    <3> QED BY ONLY <3>1 DEF Request, forwarded, restarted
  <2> QED BY <2>4, <2>5, <2>6
<1>8. /\ \A i \in N : /\ i.blk = b /\ i.slot = s.bat[b] /\ i.req \in W \ fwd
                      /\ i.op = IF s.req[i.req].op = "read" THEN "data_read" ELSE "data_write"
      /\ \A r \in W \ fwd : \E i \in N : i.req = r
      /\ \A i, j \in N : i.req = j.req => i = j
  BY NewIOFacts
<1>9. \A i \in s.aio : i.req \in W => FALSE
  <2>1. ASSUME NEW i \in s.aio, i.req \in W PROVE FALSE
    <3>1. IoOK(s, i) /\ i.req \in Reqs /\ s.req[i.req].st = "waiting" /\ blk_of(s.req[i.req].sec) = b
      BY <2>1, <1>3 DEF Driver
    <3>2. i.req # bm_req /\ i.req # zero_req /\ i.req # bat_req /\ i.op \in AioOps
      BY <1>1, <3>1, NotMeta, IoField
    <3>3. i.op = "redundant_bm"
      BY <3>1, <3>2 DEF IoOK, AioOps
    <3> QED BY <3>1, <3>3, <1>2 DEF IoOK
  <2> QED BY <2>1
<1> HIDE DEF m, n, W, fwd, upd, N
<1>10. \A i \in s.aio : i.blk = b => i.op \notin {"zero_bm", "bat"}
  <2>1. ASSUME NEW i \in s.aio, i.blk = b, i.op \in {"zero_bm", "bat"} PROVE FALSE
    BY <2>1, <1>2, InitBm DEF Driver, IoOK, m
  <2> QED BY <2>1
<1>11. \A x, op : op \notin Data /\ (op # "bitmap_read" \/ x # b) => (HasIO(t, x, op) <=> HasIO(s, x, op))
  BY <1>4, <1>8 DEF HasIO, Data
<1>12. txios(t, b) = {i \in N : i.req \in upd} /\ (txios(t, b) # {} <=> upd # {})
  <2>1. t.bm[b].tx.reqs = upd
    BY <1>6, InitBm DEF n
  <2>2. \A i \in s.aio : ~TxIO(t, b, i)
    BY <1>3, <1>9, <1>10, <2>1 DEF TxIO
  <2>3. \A i \in N : TxIO(t, b, i) <=> i.req \in upd
    BY <1>3, <1>8, <2>1 DEF TxIO
  <2>4. txios(t, b) = {i \in N : i.req \in upd}
    BY <1>4, <2>2, <2>3 DEF txios
  <2>5. \A r \in upd : \E i \in N : i.req = r
    BY <1>3, <1>8
  <2> QED BY <2>4, <2>5
<1>13. IsFiniteSet(N) /\ IsFiniteSet(upd) /\ Cardinality(txios(t, b)) = Cardinality(upd)
       /\ Cardinality(upd) \in Nat
  <2>1. IsFiniteSet(W \ fwd) /\ IsFiniteSet(upd) /\ Cardinality(upd) \in Nat
    <3>1. W \ fwd \in SUBSET Reqs /\ upd \in SUBSET Reqs
      BY <1>3
    <3> QED BY <3>1, FiniteReqs
  <2>2. IsFiniteSet(N)
    BY <2>1, <1>8, OneEach
  <2>3. /\ \A i \in txios(t, b) : i.req \in upd
        /\ \A r \in upd : \E i \in txios(t, b) : i.req = r
        /\ \A i, j \in txios(t, b) : i.req = j.req => i = j
    BY <1>3, <1>8, <1>12
  <2>4. Cardinality(txios(t, b)) = Cardinality(upd)
    BY <2>1, <2>3, OneEach
  <2> QED BY <2>1, <2>2, <2>4
<1>14. /\ t.bat = s.bat /\ t.prealloc = s.prealloc /\ t.batmap = s.batmap
       /\ t.cached = s.cached /\ t.bat_tx = s.bat_tx /\ (Mine(t, b) <=> Mine(s, b))
  BY <1>4 DEF OnlyBlk, SameBat, Mine
<1>15. BlkOK(t, b, NoBlock)
  <2>1. b \in s.cached
    BY <1>1, <1>2, InitBm DEF BlkOK, m
  <2>2. CASE upd = {}
    BY <2>1, <2>2, <1>2, <1>5, <1>6, <1>14, InitBm DEF BlkOK, bitmap_in_use, n
  <2>3. CASE upd # {}
    BY <2>1, <2>3, <1>2, <1>5, <1>6, <1>12, <1>14, InitBm DEF BlkOK, bitmap_in_use, n
  <2> QED BY <2>2, <2>3
<1>16. TxOK(t, b)
  <2>1. CASE upd = {}
    BY <2>1, <1>6, <1>13, InitBm, FS_EmptySet DEF TxOK, n
  <2>2. CASE upd # {}
    BY <2>2, <1>6, <1>13 DEF TxOK, n
  <2> QED BY <2>1, <2>2
<1>17. MemOK(t, b)
  <2>1. n.tx.reqs = upd
    BY <1>6, InitBm
  <2>2. \A r \in upd : r \in Reqs /\ t.req[r].st = "io" /\ t.req[r].op = "write" /\ blk_of(t.req[r].sec) = b
    BY <1>3, <1>7
  <2> QED BY <2>1, <2>2, <1>5 DEF MemOK, n
<1>18. ASSUME NEW q \in Reqs, blk_of(s.req[q].sec) = b PROVE ReqOK(t, q, NoReq)
  <2>1. ReqOK(s, q, NoReq) /\ q # NoReq
    BY NotMeta DEF Driver
  <2>2. CASE q \in W /\ q \in fwd
    BY <2>1, <2>2, <1>7 DEF ReqOK
  <2>3. CASE q \in W \ fwd
    <3>1. \E i \in t.aio : i.req = q /\ i.op \in Data
      BY <2>3, <1>4, <1>8 DEF Data
    <3>2. t.req[q].st = "io" /\ t.req[q].err = s.req[q].err /\ s.req[q].st = "waiting"
      BY <2>3, <1>3, <1>7
    <3> QED BY <2>1, <3>1, <3>2 DEF ReqOK
  <2>4. CASE q \notin W
    <3>1. t.req[q] = s.req[q] /\ s.req[q].st # "waiting" /\ s.req[q].st # "finished"
      BY <2>1, <2>4, <1>2, <1>7, <1>18, InitBm DEF ReqOK, m, W
    <3>2. \A i \in s.aio : i.op \in Data => i \in t.aio
      BY <1>4 DEF Data
    <3> QED BY <2>1, <3>1, <3>2 DEF ReqOK
  <2> QED BY <2>2, <2>3, <2>4
<1>19. ASSUME NEW i \in t.aio, i.blk = b PROVE IoOK(t, i)
  <2>1. CASE i \in N
    <3>1. i.req \in W /\ i.req \in Reqs /\ i.req \notin fwd /\ i.slot = s.bat[b]
          /\ i.op = IF s.req[i.req].op = "read" THEN "data_read" ELSE "data_write"
      BY <2>1, <1>3, <1>8
    <3>2. t.req[i.req].st = "io" /\ t.req[i.req].op = s.req[i.req].op
          /\ t.req[i.req].sec = s.req[i.req].sec /\ blk_of(s.req[i.req].sec) = b
          /\ s.req[i.req].op \in {"read", "write"}
      BY <3>1, <1>3, <1>7
    <3>3. s.bat[b] \in Slots /\ t.bat[b] = s.bat[b]
      BY <1>1, <1>2, <1>14, BatField DEF Entries
    <3> QED BY <3>1, <3>2, <3>3, <1>2, <1>19 DEF IoOK
  <2>2. CASE i \in s.aio /\ i # io
    <3>1. IoOK(s, i) /\ i.req \notin W /\ i.op \notin {"zero_bm", "bat"}
      BY <2>2, <1>9, <1>10, <1>19 DEF Driver
    <3>2. i.op # "bitmap_read" /\ i.op # "bitmap_write"
      BY <2>2, <3>1, <1>1, <1>2, <1>19 DEF IoOK, Unique, m
    <3>3. i.req \in Reqs => t.req[i.req] = s.req[i.req]
      BY <3>1, <1>7
    <3>4. i.op = "redundant_bm" => accepted(s.req[i.req])
      BY <3>1 DEF IoOK
    <3>5. SameBat(s, t) /\ t.prealloc = s.prealloc /\ t.batmap = s.batmap
      BY <1>4 DEF OnlyBlk
    <3>6. s.bm[i.blk] = m /\ m.tx.reqs \cup m.queue = {}
      BY <1>2, <1>19, InitBm DEF m
    <3> QED BY <1>1, <2>2, <3>1, <3>2, <3>3, <3>4, <3>5, <3>6, IoKeep
  <2> QED BY <2>1, <2>2, <1>4
<1>20. Unique(t)
  <2>1. \A i \in s.aio, j \in N : i.req # j.req
    BY <1>8, <1>9
  <2> QED BY <2>1, <1>1, <1>4, <1>8 DEF Unique
<1>21. CountOK(t)
  <2>1. IsFiniteSet(t.aio)
    <3>1. IsFiniteSet(s.aio \ {io})
      BY <1>1, FS_RemoveElement DEF CountOK
    <3>2. IsFiniteSet((s.aio \ {io}) \cup N)
      BY ONLY <3>1, <1>13, FS_Union
    <3> QED BY <3>2, <1>4
  <2>2. Redundant(t) = Redundant(s)
    BY <1>4, <1>8 DEF Redundant
  <2>3. fwd \subseteq outstanding(s)
    BY <1>3 DEF outstanding
  <2>4. outstanding(t) = outstanding(s) \ fwd
    <3>1. ASSUME NEW q \in Reqs PROVE q \in outstanding(t) <=> q \in outstanding(s) /\ q \notin fwd
      <4>1. CASE q \in fwd
        BY <4>1, <1>7 DEF outstanding
      <4>2. CASE q \in W \ fwd
        BY <4>2, <1>3, <1>7 DEF outstanding
      <4>3. CASE q \notin W
        BY <4>3, <1>3, <1>7 DEF outstanding
      <4> QED BY <4>1, <4>2, <4>3
    <3> QED BY <3>1 DEF outstanding
  <2>5. Cardinality(t.cached) <= CacheSize
    BY <1>1, <1>14 DEF CountOK
  <2> QED BY <1>1, <1>4, <2>1, <2>2, <2>3, <2>4, <2>5, CountSet
<1>22. /\ HasIO(t, b, "zero_bm") <=> HasIO(s, b, "zero_bm")
       /\ HasIO(t, b, "bat") <=> HasIO(s, b, "bat")
       /\ \A i \in Tiocb : i.blk # b => (i \in t.aio <=> i \in s.aio)
       /\ \A q \in {NoReq} : q \in Reqs => blk_of(s.req[q].sec) = b
  BY <1>4, <1>8, <1>11, NotMeta DEF Data
<1>23. ~Mine(s, b)
  <2>1. BatOK(s, NoBlock)
    BY DEF Driver
  <2> QED BY <2>1, <1>1, <1>2 DEF Mine, BatOK, Allocating, Failing, Done
<1>24. \A q \in Reqs : /\ t.req[q].sec = s.req[q].sec
                       /\ blk_of(s.req[q].sec) # b => t.req[q] = s.req[q]
  BY <1>3, <1>7
<1>25. NoBlock \in {b, NoBlock}
  OBVIOUS
<1> QED BY <1>1, <1>4, <1>15, <1>16, <1>17, <1>18, <1>19, <1>20, <1>21, <1>22, <1>23, <1>24, <1>25,
           BlkDriver

(* A bitmap could not be read: those who waited for it hear of it.          *)
ReadFails(s, t, b, io) ==
  /\ SameBat(s, t) /\ t.up = s.up /\ t.prealloc = s.prealloc /\ t.batmap = s.batmap
  /\ t.cached = s.cached \ {b}
  /\ t.bm[b] = init_vhd_bitmap /\ \A x \in Blocks : x # b => t.bm[x] = s.bm[x]
  /\ t.aio = s.aio \ {io}
  /\ t.vfree = s.vfree + Cardinality(s.bm[b].waiting)
  /\ \A r \in Reqs :
       /\ r \in s.bm[b].waiting => /\ t.req[r].st = "done" /\ t.req[r].err = "EIO"
                                   /\ t.req[r].sec = s.req[r].sec /\ t.req[r].op = s.req[r].op
       /\ r \notin s.bm[b].waiting => t.req[r] = s.req[r]

LEMMA ReadFailDriver ==
  ASSUME NEW s, NEW t \in VhdState, NEW io \in s.aio, NEW b, b = io.blk,
         Driver(s, NoReq, NoBlock), io.op = "bitmap_read", ReadFails(s, t, b, io)
  PROVE  Driver(t, NoReq, NoBlock)
<1> DEFINE m   == s.bm[b]
           W   == s.bm[b].waiting
<1>1. s \in VhdState /\ BlkOK(s, b, NoBlock) /\ MemOK(s, b) /\ TxOK(s, b) /\ CountOK(s)
      /\ Unique(s) /\ b \in Blocks /\ IoOK(s, io) /\ m \in Bitmap /\ b # NoBlock
      /\ BatOK(s, NoBlock)
  BY IoField, BmField, BlkNo DEF Driver
<1>2. m.rd /\ m.tx = init_tx /\ m.queue = {} /\ ~m.wr /\ b \notin s.batmap
      /\ s.bat[b] # DD_BLK_UNUSED /\ io.req = bm_req
  BY <1>1 DEF IoOK, BlkOK
<1>3. W \subseteq Reqs /\ \A r \in W : s.req[r].st = "waiting" /\ blk_of(s.req[r].sec) = b
  BY <1>1 DEF Bitmap, MemOK
<1>4. /\ SameBat(s, t) /\ t.prealloc = s.prealloc /\ t.batmap = s.batmap
      /\ t.cached = s.cached \ {b} /\ t.aio = s.aio \ {io}
      /\ t.vfree = s.vfree + Cardinality(W)
      /\ t.bm[b] = init_vhd_bitmap /\ \A x \in Blocks : x # b => t.bm[x] = s.bm[x]
  BY DEF ReadFails
<1>5. /\ \A r \in Reqs : r \in W => /\ t.req[r].st = "done" /\ t.req[r].err = "EIO"
                                    /\ t.req[r].sec = s.req[r].sec /\ t.req[r].op = s.req[r].op
      /\ \A r \in Reqs : r \notin W => t.req[r] = s.req[r]
  BY DEF ReadFails
<1> HIDE DEF W, m
<1>6. \A q \in Reqs : /\ t.req[q].sec = s.req[q].sec
                      /\ blk_of(s.req[q].sec) # b => t.req[q] = s.req[q]
  BY <1>3, <1>5
<1>7. /\ \A x, op : op # io.op \/ x # io.blk => (HasIO(t, x, op) <=> HasIO(s, x, op))
      /\ \A i \in Tiocb : i.blk # io.blk => (i \in t.aio <=> i \in s.aio)
      /\ Unique(t) /\ IsFiniteSet(t.aio)
      /\ io.op # "redundant_bm" => Redundant(t) = Redundant(s)
  BY <1>1, <1>4, LessIO
<1>8. LocalTo(s, t, b)
  <2>1. \A x \in Blocks : x # b => (Mine(t, x) <=> Mine(s, x))
    BY <1>4 DEF Mine, SameBat
  <2> QED BY <2>1, <1>4, <1>6, <1>7 DEF LocalTo, SameBat
<1>9. ~Mine(s, b) /\ ~Mine(t, b)
  BY <1>1, <1>2, <1>4 DEF Mine, BatOK, Allocating, Failing, Done, SameBat
<1>10. BatOK(t, NoBlock)
  <2>1. s.locked =>
           LET p == s.pbw_blk
           IN  /\ HasIO(t, p, "zero_bm") <=> HasIO(s, p, "zero_bm")
               /\ HasIO(t, p, "bat") <=> HasIO(s, p, "bat")
               /\ t.bm[p].tx.live <=> s.bm[p].tx.live
               /\ s.bm[p].tx.err # "ok" => t.bm[p].tx.err # "ok"
               /\ s.bm[p].tx.closed => t.bm[p].tx.closed
    <3>1. s.locked => s.pbw_blk # b /\ s.pbw_blk \in Blocks
      BY <1>1, <1>9 DEF Mine, VhdState
    <3> QED BY <3>1, <1>4, <1>7
  <2> QED BY <2>1, <1>1, <1>4, BatFrame
<1>11. txios(t, b) = {}
  <2>1. ASSUME NEW i \in s.aio, TxIO(t, b, i) PROVE FALSE
    <3>1. IoOK(s, i) /\ s.bm[b].tx = init_tx /\ t.bm[b].tx = init_tx
      BY <1>2, <1>4, InitBm DEF Driver, m
    <3> QED BY <2>1, <3>1, InitBm DEF TxIO, IoOK
  <2> QED BY <2>1, <1>4 DEF txios
<1>12. BlkOK(t, b, NoBlock)
  BY <1>2, <1>4, <1>1, InitBm DEF BlkOK, bitmap_in_use, SameBat, Mine
<1>13. TxOK(t, b)
  BY <1>4, <1>11, InitBm, FS_EmptySet DEF TxOK
<1>14. MemOK(t, b)
  BY <1>4, InitBm DEF MemOK
<1>15. ASSUME NEW q \in Reqs, blk_of(s.req[q].sec) = b PROVE ReqOK(t, q, NoReq)
  <2>1. ReqOK(s, q, NoReq) /\ q # NoReq
    BY NotMeta DEF Driver
  <2>2. CASE q \in W
    BY <2>1, <2>2, <1>5 DEF ReqOK
  <2>4. CASE q \notin W
    <3>1. t.req[q] = s.req[q] /\ s.req[q].st # "waiting" /\ s.req[q].st # "finished"
      BY <2>1, <2>4, <1>2, <1>5, <1>15, InitBm DEF ReqOK, m, W
    <3>2. \A i \in s.aio : i.op \in Data => i \in t.aio
      BY <1>4 DEF Data
    <3> QED BY <2>1, <3>1, <3>2 DEF ReqOK
  <2> QED BY <2>2, <2>4
<1>16. ASSUME NEW i \in t.aio, i.blk = b PROVE IoOK(t, i)
  <2>1. i \in s.aio /\ i # io /\ IoOK(s, i)
    BY <1>4 DEF Driver
  <2>2. i.op \notin {"bitmap_read", "bitmap_write", "zero_bm", "bat", "redundant_bm"}
    BY <2>1, <1>1, <1>2, <1>16, InitBm DEF IoOK, Unique, m
  <2>3. i.op \in Data /\ i.req \in Reqs /\ s.req[i.req].st = "io"
    <3>1. i.op \in AioOps
      BY <1>1, <2>1, IoField
    <3>2. i.op \in Data
      BY <3>1, <2>2 DEF AioOps, Data
    <3> QED BY <1>1, <2>1, <3>2, IoField DEF Data, IoOK
  <2>4. t.req[i.req] = s.req[i.req]
    BY <2>3, <1>3, <1>5
  <2>5. i.req \notin s.bm[b].tx.reqs \cup s.bm[b].queue
    BY <1>2, InitBm DEF m
  <2> QED BY <2>1, <2>2, <2>3, <2>4, <2>5, <1>1, <1>4, <1>16, IoKeep
<1>17. CountOK(t)
  <2>1. W \subseteq outstanding(s) /\ outstanding(t) = outstanding(s) \ W
    BY <1>3, <1>5 DEF outstanding
  <2>2. Cardinality(t.cached) <= CacheSize
    <3>1. Cardinality(t.cached) <= Cardinality(s.cached)
      BY <1>1, <1>4, CachedFinite, FS_Subset
    <3>2. Cardinality(s.cached) <= CacheSize /\ Cardinality(s.cached) \in Nat /\ CacheSize \in Nat
          /\ Cardinality(t.cached) \in Nat
      BY <1>1, CachedFinite, ConstantsAssumption DEF CountOK
    <3> QED BY <3>1, <3>2
  <2> QED BY <1>1, <1>4, <1>7, <2>1, <2>2, CountSet
<1>18. /\ \A q \in {NoReq} : q \in Reqs => blk_of(s.req[q].sec) = b
       /\ NoBlock \in {b, NoBlock}
  BY NotMeta
<1> QED BY <1>1, <1>7, <1>8, <1>10, <1>12, <1>13, <1>14, <1>15, <1>16, <1>17, <1>18, LocalDriver

-----------------------------------------------------------------------------
(* The end of a transaction.                                                *)

(* What a block must satisfy when its handler returns.                      *)
Settles(s, b) ==
  LET m == s.bm[b]
  IN  /\ m.queue # {} => m.tx.closed
      /\ m.locked => bitmap_in_use(m)
      /\ m.tx.live => txios(s, b) # {} \/ m.wr \/ (m.tx.upd /\ s.bat_tx)

LEMMA Weaken ==
  ASSUME NEW s, NEW b \in Blocks, NEW h, Driver(s, h, NoBlock)
  PROVE  Driver(s, h, b) /\ Settles(s, b) /\ BatOK(s, NoBlock)
<1>1. b # NoBlock /\ s \in VhdState /\ s.pbw_blk # NoBlock
  BY BlkNo, BatField DEF Driver
<1>2. BatOK(s, b)
  BY <1>1 DEF Driver, BatOK, Failing, Done
<1>3. \A x \in Blocks : BlkOK(s, x, b)
  <2>1. ASSUME NEW x \in Blocks PROVE BlkOK(s, x, b)
    <3>1. BlkOK(s, x, NoBlock) /\ x # NoBlock
      BY BlkNo DEF Driver
    <3> QED BY <3>1 DEF BlkOK
  <2> QED BY <2>1
<1>4. BlkOK(s, b, NoBlock)
  BY DEF Driver
<1>5. Settles(s, b)
  BY <1>1, <1>4 DEF Settles, BlkOK
<1> QED BY <1>2, <1>3, <1>5 DEF Driver

LEMMA Settle ==
  ASSUME NEW s, NEW b \in Blocks, NEW h, Driver(s, h, b), Settles(s, b), BatOK(s, NoBlock)
  PROVE  Driver(s, h, NoBlock)
<1>1. ASSUME NEW x \in Blocks PROVE BlkOK(s, x, NoBlock)
  <2>1. BlkOK(s, x, b)
    BY DEF Driver
  <2>2. CASE x = b
    BY <2>1, <2>2 DEF BlkOK, Settles
  <2>3. CASE x # b
    BY <2>1, <2>3 DEF BlkOK
  <2> QED BY <2>2, <2>3
<1> QED BY <1>1 DEF Driver

(* Only the transaction of block b is different, and of that not much.      *)
LEMMA WithTx ==
  ASSUME NEW s \in VhdState, NEW b \in Blocks, NEW T \in Tx, NEW t, t = with_tx(s, b, T)
  PROVE  /\ t \in VhdState /\ OnlyBlk(s, t, b) /\ t.req = s.req /\ t.vfree = s.vfree /\ t.aio = s.aio
         /\ t.bm[b].tx = T /\ t.bm[b].locked = s.bm[b].locked /\ t.bm[b].rd = s.bm[b].rd
         /\ t.bm[b].wr = s.bm[b].wr /\ t.bm[b].map = s.bm[b].map /\ t.bm[b].shadow = s.bm[b].shadow
         /\ t.bm[b].queue = s.bm[b].queue /\ t.bm[b].waiting = s.bm[b].waiting
<1>1. t \in VhdState
  BY UpdTx
<1>2. t = with_bm(s, b, [s.bm[b] EXCEPT !.tx = T])
  BY DEF with_tx
<1>3. OnlyBlk(s, t, b) /\ t.bm[b] = [s.bm[b] EXCEPT !.tx = T] /\ t.req = s.req
      /\ t.vfree = s.vfree /\ t.aio = s.aio
  BY <1>2, WithBm
<1>4. s.bm[b] \in Bitmap
  BY BmField
<1> QED BY <1>1, <1>3, <1>4 DEF Bitmap

(* A transaction is closed, or an error is noted in it.                     *)
Marks(s, t, b) ==
  /\ OnlyBlk(s, t, b) /\ t.req = s.req /\ t.vfree = s.vfree /\ t.aio = s.aio
  /\ t.bm[b].locked = s.bm[b].locked /\ t.bm[b].rd = s.bm[b].rd
  /\ t.bm[b].wr = s.bm[b].wr /\ t.bm[b].map = s.bm[b].map /\ t.bm[b].shadow = s.bm[b].shadow
  /\ t.bm[b].queue = s.bm[b].queue /\ t.bm[b].waiting = s.bm[b].waiting
  /\ t.bm[b].tx.started = s.bm[b].tx.started /\ t.bm[b].tx.finished = s.bm[b].tx.finished
  /\ t.bm[b].tx.live = s.bm[b].tx.live /\ t.bm[b].tx.upd = s.bm[b].tx.upd
  /\ t.bm[b].tx.reqs = s.bm[b].tx.reqs
  /\ s.bm[b].tx.closed => t.bm[b].tx.closed
  /\ s.bm[b].tx.err # "ok" => t.bm[b].tx.err # "ok"
  /\ t.bm[b].tx.err # "EBUSY"

LEMMA MarkDriver ==
  ASSUME NEW s, NEW t \in VhdState, NEW b \in Blocks, NEW k, k \in {b, NoBlock},
         Driver(s, NoReq, k), s.bm[b].tx.live,
         Marks(s, t, b)
  PROVE  /\ Driver(t, NoReq, k) /\ txios(t, b) = txios(s, b)
         /\ \A x, op : HasIO(t, x, op) <=> HasIO(s, x, op)
<1> DEFINE m == s.bm[b]
           n == t.bm[b]
<1>1. s \in VhdState /\ BlkOK(s, b, k) /\ MemOK(s, b) /\ TxOK(s, b) /\ CountOK(s)
      /\ m \in Bitmap
  BY BmField DEF Driver
<1>2. OnlyBlk(s, t, b) /\ t.req = s.req /\ t.vfree = s.vfree /\ t.aio = s.aio
  BY DEF Marks
<1>3. /\ n.locked = m.locked /\ n.rd = m.rd /\ n.wr = m.wr /\ n.map = m.map /\ n.shadow = m.shadow
      /\ n.queue = m.queue /\ n.waiting = m.waiting
      /\ n.tx.started = m.tx.started /\ n.tx.finished = m.tx.finished /\ n.tx.live = m.tx.live
      /\ n.tx.upd = m.tx.upd /\ n.tx.reqs = m.tx.reqs /\ (m.tx.closed => n.tx.closed)
      /\ (m.tx.err # "ok" => n.tx.err # "ok") /\ n.tx.err # "EBUSY" /\ m.tx.live
  BY DEF Marks
<1> HIDE DEF m, n
<1>4. \A x, op : HasIO(t, x, op) <=> HasIO(s, x, op)
  BY <1>2 DEF HasIO
<1>5. txios(t, b) = txios(s, b)
  BY <1>2, <1>3 DEF txios, TxIO, OnlyBlk, n, m
<1>6. BlkOK(t, b, k)
  <2>1. /\ t.bat = s.bat /\ t.prealloc = s.prealloc /\ t.batmap = s.batmap
        /\ t.cached = s.cached /\ t.bat_tx = s.bat_tx /\ (Mine(t, b) <=> Mine(s, b))
    BY <1>2 DEF OnlyBlk, SameBat, Mine
  <2>2. b \in s.cached /\ ~m.rd
    BY <1>1, <1>3, InitBm DEF BlkOK, m
  <2>3. bitmap_in_use(n) <=> bitmap_in_use(m)
    BY <1>3 DEF bitmap_in_use
  <2> QED BY <1>1, <1>3, <1>4, <1>5, <2>1, <2>2, <2>3 DEF BlkOK, n, m
<1>7. TxOK(t, b)
  BY <1>1, <1>3, <1>5 DEF TxOK, n, m
<1>8. MemOK(t, b)
  BY <1>1, <1>2, <1>3 DEF MemOK, n, m
<1>9. SameBat(s, t) /\ t.prealloc = s.prealloc /\ t.batmap = s.batmap /\ t.cached = s.cached
      /\ \A x \in Blocks : x # b => t.bm[x] = s.bm[x]
  BY <1>2 DEF OnlyBlk
<1>10. Cardinality(t.cached) <= CacheSize
  BY <1>1, <1>9 DEF CountOK
<1>11. Driver(t, NoReq, k)
  <2>1. /\ t.bm[b].tx.live <=> s.bm[b].tx.live
        /\ s.bm[b].tx.err # "ok" => t.bm[b].tx.err # "ok"
        /\ s.bm[b].tx.closed => t.bm[b].tx.closed
        /\ s.bm[b].waiting \subseteq t.bm[b].waiting
        /\ t.bm[b].tx.reqs \cup t.bm[b].queue = s.bm[b].tx.reqs \cup s.bm[b].queue
        /\ s.bm[b].tx.reqs \subseteq t.bm[b].tx.reqs
        /\ s.bm[b].tx.upd => t.bm[b].tx.upd
        /\ s.bm[b].rd => t.bm[b].rd
        /\ s.bm[b].wr => t.bm[b].wr
    BY <1>3 DEF n, m
  <2> QED BY <1>2, <2>1, <1>6, <1>7, <1>8, <1>9, <1>10, CacheDriver
<1> QED BY <1>4, <1>5, <1>11

LEMMA CloseMarks ==
  ASSUME NEW s \in VhdState, NEW b \in Blocks, s.bm[b].tx.err # "EBUSY"
  PROVE  /\ Marks(s, close_tx(s, b), b) /\ close_tx(s, b).bm[b].tx.closed
         /\ close_tx(s, b).bm[b].tx.err = s.bm[b].tx.err
         /\ close_tx(s, b) \in VhdState
<1> DEFINE T == s.bm[b].tx
           U == [T EXCEPT !.closed = TRUE]
           t == close_tx(s, b)
<1>1. T \in Tx /\ U \in Tx /\ t = with_tx(s, b, U)
  BY BmField, TxTypes DEF close_tx
<1>2. U.err = T.err /\ U.closed /\ U.started = T.started /\ U.finished = T.finished
      /\ U.live = T.live /\ U.upd = T.upd /\ U.reqs = T.reqs
  BY <1>1 DEF Tx
<1> HIDE DEF U, T, t
<1>3. /\ t \in VhdState /\ OnlyBlk(s, t, b) /\ t.req = s.req /\ t.vfree = s.vfree /\ t.aio = s.aio
      /\ t.bm[b].tx = U /\ t.bm[b].locked = s.bm[b].locked /\ t.bm[b].rd = s.bm[b].rd
      /\ t.bm[b].wr = s.bm[b].wr /\ t.bm[b].map = s.bm[b].map /\ t.bm[b].shadow = s.bm[b].shadow
      /\ t.bm[b].queue = s.bm[b].queue /\ t.bm[b].waiting = s.bm[b].waiting
  BY <1>1, WithTx
<1>4. Marks(s, t, b) /\ t.bm[b].tx.closed /\ t.bm[b].tx.err = T.err
  BY <1>2, <1>3 DEF Marks, T
<1> QED BY <1>3, <1>4 DEF t, T

LEMMA FailMarks ==
  ASSUME NEW s \in VhdState, NEW b \in Blocks, NEW e \in {"ok", "EIO"}, s.bm[b].tx.err # "EBUSY"
  PROVE  LET t == with_tx(s, b, failed(s.bm[b].tx, e))
         IN  /\ t \in VhdState /\ Marks(s, t, b)
             /\ t.bm[b].tx.err = (IF s.bm[b].tx.err # "ok" THEN s.bm[b].tx.err ELSE e)
<1> DEFINE T == s.bm[b].tx
           U == failed(T, e)
           t == with_tx(s, b, U)
<1>1. T \in Tx /\ U \in Tx
  BY BmField, FailedType DEF Errors
<1>2. U.err = (IF T.err # "ok" THEN T.err ELSE e) /\ U.closed = T.closed /\ U.started = T.started
      /\ U.finished = T.finished /\ U.live = T.live /\ U.upd = T.upd /\ U.reqs = T.reqs
  BY <1>1 DEF Tx, failed
<1> HIDE DEF U, T
<1>3. /\ t \in VhdState /\ OnlyBlk(s, t, b) /\ t.req = s.req /\ t.vfree = s.vfree /\ t.aio = s.aio
      /\ t.bm[b].tx = U /\ t.bm[b].locked = s.bm[b].locked /\ t.bm[b].rd = s.bm[b].rd
      /\ t.bm[b].wr = s.bm[b].wr /\ t.bm[b].map = s.bm[b].map /\ t.bm[b].shadow = s.bm[b].shadow
      /\ t.bm[b].queue = s.bm[b].queue /\ t.bm[b].waiting = s.bm[b].waiting
  BY <1>1, WithTx
<1> HIDE DEF t
<1>4. Marks(s, t, b) /\ t.bm[b].tx.err = (IF T.err # "ok" THEN T.err ELSE e)
  BY <1>2, <1>3 DEF Marks, T
<1> QED BY <1>3, <1>4 DEF t, U, T

(* The bitmap of a block is unlocked when nothing needs it.                 *)
LEMMA UnlockDriver ==
  ASSUME NEW s, NEW b \in Blocks, NEW t, Driver(s, NoReq, b), t = unlock_if_unused(s, b)
  PROVE  /\ Driver(t, NoReq, b) /\ OnlyBlk(s, t, b) /\ t.req = s.req /\ t.aio = s.aio /\ t.vfree = s.vfree
         /\ t.bm[b].tx = s.bm[b].tx /\ t.bm[b].queue = s.bm[b].queue /\ t.bm[b].wr = s.bm[b].wr
         /\ t.bm[b].rd = s.bm[b].rd /\ t.bm[b].map = s.bm[b].map /\ t.bm[b].shadow = s.bm[b].shadow
         /\ t.bm[b].waiting = s.bm[b].waiting
         /\ txios(t, b) = txios(s, b)
         /\ (t.bm[b].locked => bitmap_in_use(t.bm[b]))
<1> DEFINE m == s.bm[b]
           n == t.bm[b]
<1>1. s \in VhdState /\ BlkOK(s, b, b) /\ MemOK(s, b) /\ TxOK(s, b) /\ CountOK(s)
      /\ m \in Bitmap /\ t \in VhdState
  BY BmField, LockType DEF Driver
<1>2. /\ OnlyBlk(s, t, b) /\ t.req = s.req /\ t.vfree = s.vfree /\ t.aio = s.aio
      /\ n = [m EXCEPT !.locked = @ /\ bitmap_in_use(m)]
  BY <1>1, WithBm DEF unlock_if_unused
<1> HIDE DEF n, m
<1>3. /\ n.rd = m.rd /\ n.wr = m.wr /\ n.map = m.map /\ n.shadow = m.shadow
      /\ n.queue = m.queue /\ n.waiting = m.waiting /\ n.tx = m.tx
      /\ n.locked = (m.locked /\ bitmap_in_use(m))
  BY <1>1, <1>2 DEF Bitmap
<1>4. \A x, op : HasIO(t, x, op) <=> HasIO(s, x, op)
  BY <1>2 DEF HasIO
<1>5. txios(t, b) = txios(s, b)
  BY <1>2, <1>3 DEF txios, TxIO, OnlyBlk, n, m
<1>6. bitmap_in_use(n) <=> bitmap_in_use(m)
  BY <1>3 DEF bitmap_in_use
<1>7. BlkOK(t, b, b)
  <2>1. /\ t.bat = s.bat /\ t.prealloc = s.prealloc /\ t.batmap = s.batmap
        /\ t.cached = s.cached /\ t.bat_tx = s.bat_tx /\ (Mine(t, b) <=> Mine(s, b))
    BY <1>2 DEF OnlyBlk, SameBat, Mine
  <2>2. b \notin s.cached => n = init_vhd_bitmap
    <3>1. ASSUME b \notin s.cached PROVE n = init_vhd_bitmap
      <4>1. m = init_vhd_bitmap
        BY <1>1, <3>1 DEF BlkOK, m
      <4>2. ~m.locked
        BY <4>1, InitBm
      <4>3. n = [m EXCEPT !.locked = FALSE]
        BY <1>1, <1>2, <4>2 DEF Bitmap
      <4> QED BY <4>1, <4>3 DEF init_vhd_bitmap
    <3> QED BY <3>1
  <2>3. bitmap_in_use(m) => m.locked
    BY <1>1 DEF BlkOK, m
  <2> QED BY <1>1, <1>3, <1>4, <1>5, <1>6, <2>1, <2>2, <2>3 DEF BlkOK, n, m
<1>8. TxOK(t, b)
  BY <1>1, <1>3, <1>5 DEF TxOK, n, m
<1>9. MemOK(t, b)
  BY <1>1, <1>2, <1>3 DEF MemOK, n, m
<1>10. SameBat(s, t) /\ t.prealloc = s.prealloc /\ t.batmap = s.batmap /\ t.cached = s.cached
      /\ \A x \in Blocks : x # b => t.bm[x] = s.bm[x]
  BY <1>2 DEF OnlyBlk
<1>11. Cardinality(t.cached) <= CacheSize
  BY <1>1, <1>10 DEF CountOK
<1>12. Driver(t, NoReq, b)
  BY <1>1, <1>2, <1>3, <1>7, <1>8, <1>9, <1>10, <1>11, CacheDriver, ZenonT(40) DEF n, m
<1>13. /\ n.tx = m.tx /\ n.queue = m.queue /\ n.wr = m.wr
       /\ n.rd = m.rd /\ n.map = m.map /\ n.shadow = m.shadow /\ n.waiting = m.waiting
       /\ n.locked => bitmap_in_use(n)
  BY <1>3, <1>6
<1> QED BY <1>2, <1>5, <1>12, <1>13 DEF n, m

(* The bitmap of a closed transaction is written.                           *)
WritesBitmap(s, t, b) ==
  /\ OnlyBlk(s, t, b) /\ t.req = s.req /\ t.vfree = s.vfree
  /\ t.bm[b].locked /\ t.bm[b].wr /\ t.bm[b].rd = s.bm[b].rd
  /\ t.bm[b].map = s.bm[b].map /\ t.bm[b].shadow = s.bm[b].shadow /\ t.bm[b].tx = s.bm[b].tx
  /\ t.bm[b].queue = s.bm[b].queue /\ t.bm[b].waiting = s.bm[b].waiting
  /\ t.aio = s.aio \cup {[op |-> "bitmap_write", blk |-> b, req |-> bm_req,
                          slot |-> IF s.bat[b] = DD_BLK_UNUSED THEN s.pbw_offset ELSE s.bat[b],
                          landed |-> FALSE]}

LEMMA WritesBitmapEffect ==
  ASSUME NEW s \in VhdState, NEW b \in Blocks
  PROVE  WritesBitmap(s, schedule_bitmap_write(s, b), b) /\ schedule_bitmap_write(s, b) \in VhdState
<1> DEFINE n == [s.bm[b] EXCEPT !.locked = TRUE, !.wr = TRUE]
           u == with_bm(s, b, n)
           v == touch_bitmap(u, b)
           slot == IF s.bat[b] = DD_BLK_UNUSED THEN s.pbw_offset ELSE s.bat[b]
           t == schedule_bitmap_write(s, b)
<1>1. t = queue_tiocb(v, "bitmap_write", b, bm_req, slot) /\ t \in VhdState
  BY BitmapWriteType DEF schedule_bitmap_write
<1>2. s.bm[b] \in Bitmap /\ n \in Bitmap
  BY BmField DEF Bitmap
<1>3. /\ n.locked /\ n.wr /\ n.rd = s.bm[b].rd /\ n.map = s.bm[b].map /\ n.shadow = s.bm[b].shadow
      /\ n.tx = s.bm[b].tx /\ n.queue = s.bm[b].queue /\ n.waiting = s.bm[b].waiting
  BY <1>2 DEF Bitmap
<1> HIDE DEF n, t
<1>4. /\ OnlyBlk(s, u, b) /\ u.bm[b] = n /\ u.req = s.req /\ u.vfree = s.vfree
      /\ u.aio = s.aio /\ u \in VhdState
  BY <1>2, WithBm, UpdBm
<1> HIDE DEF u
<1>5. /\ OnlyBlk(s, v, b) /\ v.bm[b] = n /\ v.req = s.req /\ v.vfree = s.vfree
      /\ v.aio = s.aio /\ v \in VhdState
  BY <1>4, TouchType DEF touch_bitmap, OnlyBlk, SameBat, VhdState
<1> HIDE DEF v
<1>6. /\ SameBat(v, t) /\ t.up = v.up /\ t.prealloc = v.prealloc
      /\ t.batmap = v.batmap /\ t.cached = v.cached /\ t.bm = v.bm
      /\ t.req = v.req /\ t.vfree = v.vfree
      /\ t.aio = v.aio \cup {[op |-> "bitmap_write", blk |-> b, req |-> bm_req, slot |-> slot,
                              landed |-> FALSE]}
  BY <1>1, <1>5, QueueEffect
<1>7. OnlyBlk(s, t, b)
  BY <1>5, <1>6 DEF OnlyBlk, SameBat
<1>8. WritesBitmap(s, t, b)
  BY <1>3, <1>5, <1>6, <1>7 DEF WritesBitmap
<1> QED BY <1>1, <1>8 DEF t

LEMMA WritesBitmapDriver ==
  ASSUME NEW s, NEW t \in VhdState, NEW b \in Blocks, Driver(s, NoReq, b),
         s.bm[b].tx.live, s.bm[b].tx.closed, txios(s, b) = {}, ~s.bm[b].wr,
         ~(s.bm[b].tx.upd /\ s.bat_tx), s.bm[b].map # s.bm[b].shadow,
         WritesBitmap(s, t, b)
  PROVE  /\ Driver(t, NoReq, b) /\ Settles(t, b)
         /\ NoAlloc(s, b) => NoAlloc(t, b)
         /\ BatOK(s, NoBlock) => BatOK(t, NoBlock)
<1> DEFINE m == s.bm[b]
           n == t.bm[b]
           io == [op |-> "bitmap_write", blk |-> b, req |-> bm_req,
                  slot |-> IF s.bat[b] = DD_BLK_UNUSED THEN s.pbw_offset ELSE s.bat[b],
                  landed |-> FALSE]
<1>1. s \in VhdState /\ BlkOK(s, b, b) /\ MemOK(s, b) /\ TxOK(s, b) /\ CountOK(s) /\ Unique(s)
      /\ m \in Bitmap /\ BatOK(s, b) /\ b # NoBlock
  BY BmField, BlkNo DEF Driver
<1>2. OnlyBlk(s, t, b) /\ t.req = s.req /\ t.vfree = s.vfree /\ t.aio = s.aio \cup {io}
  BY DEF WritesBitmap
<1>3. /\ n.locked /\ n.wr /\ n.rd = m.rd /\ n.map = m.map /\ n.shadow = m.shadow /\ n.tx = m.tx
      /\ n.queue = m.queue /\ n.waiting = m.waiting
  BY DEF WritesBitmap
<1>4. /\ io.op = "bitmap_write" /\ io.blk = b /\ io.req = bm_req
      /\ s.bat[b] = DD_BLK_UNUSED => io.slot = s.pbw_offset
      /\ s.bat[b] # DD_BLK_UNUSED => io.slot = s.bat[b]
  OBVIOUS
<1>5. m.tx.live /\ m.tx.closed /\ ~m.wr /\ ~(m.tx.upd /\ s.bat_tx) /\ m.map # m.shadow
  OBVIOUS
<1> HIDE DEF m, n, io
<1>6. ~m.rd /\ b \in s.cached /\ b \notin s.batmap
  <2>1. ~m.rd /\ b \in s.cached
    BY <1>1, <1>5, InitBm DEF BlkOK, m
  <2>2. m.shadow \subseteq Secs /\ m.map \subseteq m.shadow
    BY <1>1, <2>1 DEF Bitmap, BlkOK, m
  <2> QED BY <1>1, <1>5, <2>1, <2>2 DEF BlkOK, m
<1>7. \A i \in s.aio : ~(i.op = "bitmap_write" /\ i.blk = b)
  BY <1>5 DEF Driver, IoOK, m
<1>8. \A x, op : op # "bitmap_write" => (HasIO(t, x, op) <=> HasIO(s, x, op))
  BY <1>2, <1>4 DEF HasIO
<1>9. HasIO(t, b, "bitmap_write")
  BY <1>2, <1>4 DEF HasIO
<1>10. txios(t, b) = txios(s, b)
  <2>1. \A i : TxIO(t, b, i) <=> TxIO(s, b, i)
    BY <1>2, <1>3 DEF TxIO, OnlyBlk, n, m
  <2>2. ~TxIO(s, b, io)
    BY <1>4 DEF TxIO
  <2> QED BY <1>2, <2>1, <2>2 DEF txios
<1>11. /\ t.bat = s.bat /\ t.prealloc = s.prealloc /\ t.batmap = s.batmap
       /\ t.cached = s.cached /\ t.bat_tx = s.bat_tx /\ (Mine(t, b) <=> Mine(s, b))
       /\ t.pbw_offset = s.pbw_offset
  BY <1>2 DEF OnlyBlk, SameBat, Mine
<1>12. BlkOK(t, b, b)
  BY <1>1, <1>3, <1>5, <1>6, <1>8, <1>9, <1>10, <1>11 DEF BlkOK, n, m
<1>13. TxOK(t, b)
  BY <1>1, <1>3, <1>10 DEF TxOK, n, m
<1>14. MemOK(t, b)
  BY <1>1, <1>2, <1>3 DEF MemOK, n, m
<1>15. ASSUME NEW q \in Reqs, blk_of(s.req[q].sec) = b PROVE ReqOK(t, q, NoReq)
  <2>1. ReqOK(s, q, NoReq) /\ q # NoReq
    BY NotMeta DEF Driver
  <2> QED BY <2>1, <1>2, <1>3, <1>15 DEF ReqOK, n, m
<1>16. ASSUME NEW i \in t.aio, i.blk = b PROVE IoOK(t, i)
  <2>1. CASE i = io
    <3>1. io.slot \in Slots /\ (io.slot = s.bat[b] \/ (Mine(s, b) /\ io.slot = s.pbw_offset))
      <4>1. CASE s.bat[b] # DD_BLK_UNUSED
        BY <4>1, <1>1, <1>4, BatField DEF Entries
      <4>2. CASE s.bat[b] = DD_BLK_UNUSED
        <5>1. Mine(s, b)
          BY <4>2, <1>1, <1>5 DEF BlkOK, m
        <5> QED BY <4>2, <5>1, <1>1, <1>4 DEF Mine, BatOK
      <4> QED BY <4>1, <4>2
    <3> QED BY <2>1, <3>1, <1>3, <1>4, <1>11 DEF IoOK, n
  <2>2. CASE i \in s.aio
    <3>1. IoOK(s, i) /\ (i.op = "redundant_bm" => accepted(s.req[i.req]))
      BY <2>2 DEF Driver, IoOK
    <3>2. SameBat(s, t)
      BY <1>2 DEF OnlyBlk
    <3>3. s.bm[i.blk] = m /\ t.bm[i.blk] = n
      BY <1>16 DEF m, n
    <3> QED BY <1>1, <1>2, <1>3, <1>11, <2>2, <3>1, <3>2, <3>3, IoKeep
  <2> QED BY <1>2, <2>1, <2>2
<1>17. Unique(t)
  BY <1>1, <1>2, <1>4, <1>7 DEF Unique
<1>18. CountOK(t)
  <2>1. Redundant(t) = Redundant(s)
    BY <1>2, <1>4 DEF Redundant
  <2>2. IsFiniteSet(t.aio)
    BY <1>1, <1>2, MoreIO
  <2> QED BY <1>1, <1>2, <1>11, <2>1, <2>2, CountSame DEF outstanding
<1>19. \A q \in {NoReq} : q \in Reqs => blk_of(s.req[q].sec) = b
  BY NotMeta
<1>20. /\ HasIO(t, b, "zero_bm") <=> HasIO(s, b, "zero_bm")
       /\ HasIO(t, b, "bat") <=> HasIO(s, b, "bat")
       /\ \A i \in Tiocb : i.blk # b => (i \in t.aio <=> i \in s.aio)
       /\ t.bm[b].tx = s.bm[b].tx
       /\ \A q \in Reqs : /\ t.req[q].sec = s.req[q].sec
                          /\ blk_of(s.req[q].sec) # b => t.req[q] = s.req[q]
  BY <1>2, <1>3, <1>4, <1>8 DEF n, m
<1>21. Driver(t, NoReq, b)
  BY <1>1, <1>2, <1>12, <1>13, <1>14, <1>15, <1>16, <1>17, <1>18, <1>19, <1>20, BlkDriver
<1>22. Settles(t, b)
  BY <1>3, <1>5 DEF Settles, bitmap_in_use, n
<1>23. NoAlloc(s, b) => NoAlloc(t, b)
  BY <1>8 DEF NoAlloc
<1>24. BatOK(s, NoBlock) => BatOK(t, NoBlock)
  <2>1. \A x \in Blocks : t.bm[x].tx = s.bm[x].tx
    BY <1>2, <1>20 DEF OnlyBlk
  <2>2. s.pbw_blk \in Blocks /\ SameBat(s, t)
    BY <1>1, <1>2 DEF VhdState, OnlyBlk
  <2> QED BY <1>8, <2>1, <2>2, BatFrame
<1> QED BY <1>21, <1>22, <1>23, <1>24

(* A closed transaction that allocates its block waits for the BAT.         *)
LEMMA BatTxDriver ==
  ASSUME NEW s, NEW b \in Blocks, Driver(s, NoReq, b), s.bm[b].tx.upd, s.bm[b].tx.closed,
         txios(s, b) = {}, ~s.bm[b].wr
  PROVE  Driver([s EXCEPT !.bat_tx = TRUE], NoReq, NoBlock)
<1> DEFINE t == [s EXCEPT !.bat_tx = TRUE]
<1>1. s \in VhdState /\ BlkOK(s, b, b) /\ MemOK(s, b) /\ TxOK(s, b) /\ CountOK(s) /\ Unique(s)
      /\ BatOK(s, b) /\ b # NoBlock
  BY BlkNo DEF Driver
<1>2. t \in VhdState
  BY <1>1, UpdFields
<1>3. /\ t.bat = s.bat /\ t.next_db = s.next_db /\ t.locked = s.locked
      /\ t.started = s.started /\ t.pbw_blk = s.pbw_blk /\ t.pbw_offset = s.pbw_offset
      /\ t.bat_err = s.bat_err /\ t.bat_tx /\ t.bat_buf = s.bat_buf
      /\ t.prealloc = s.prealloc /\ t.batmap = s.batmap /\ t.cached = s.cached /\ t.bm = s.bm
      /\ t.req = s.req /\ t.vfree = s.vfree /\ t.aio = s.aio
  BY <1>1 DEF VhdState
<1> HIDE DEF t
<1>4. Mine(s, b) /\ (HasIO(s, b, "zero_bm") \/ HasIO(s, b, "bat")) /\ s.bm[b].tx.live
  BY <1>1 DEF BlkOK
<1>5. \A x, op : HasIO(t, x, op) <=> HasIO(s, x, op)
  BY <1>3 DEF HasIO
<1>6. \A x : txios(t, x) = txios(s, x) /\ (Mine(t, x) <=> Mine(s, x))
  BY <1>3 DEF txios, TxIO, Mine
<1>7. BatOK(t, NoBlock)
  <2>1. Allocating(s)
    BY <1>1, <1>4 DEF Mine, BatOK, Failing, Done
  <2>2. Allocating(t)
    BY <1>3, <1>5, <2>1 DEF Allocating
  <2> QED BY <1>1, <1>3, <1>4, <2>2 DEF BatOK, Mine
<1>8. LocalTo(s, t, b)
  BY <1>3, <1>4, <1>6 DEF LocalTo, Mine
<1>9. BlkOK(t, b, NoBlock)
  <2>1. bitmap_in_use(s.bm[b])
    BY DEF bitmap_in_use
  <2> QED BY <1>1, <1>3, <1>4, <1>5, <1>6, <2>1 DEF BlkOK
<1>10. TxOK(t, b) /\ MemOK(t, b)
  <2>1. TxOK(t, b)
    BY <1>1, <1>3, <1>6 DEF TxOK
  <2>2. MemOK(t, b)
    BY <1>1, <1>3 DEF MemOK
  <2> QED BY <2>1, <2>2
<1>11. \A q \in Reqs : ReqOK(t, q, NoReq)
  BY <1>3 DEF Driver, ReqOK
<1>12. ASSUME NEW i \in t.aio PROVE IoOK(t, i)
  <2>1. IoOK(s, i) /\ bat_sector(t) = bat_sector(s)
    BY <1>3 DEF Driver, bat_sector
  <2> QED BY <1>3, <1>6, <2>1 DEF IoOK
<1>13. Unique(t) /\ CountOK(t)
  BY <1>1, <1>3 DEF Unique, CountOK, Redundant, outstanding
<1>14. /\ \A q \in {NoReq} : q \in Reqs => blk_of(s.req[q].sec) = b
       /\ NoBlock \in {b, NoBlock} /\ b \in {b, NoBlock}
  BY NotMeta
<1>15. Driver(t, NoReq, NoBlock)
  BY <1>2, <1>7, <1>8, <1>9, <1>10, <1>11, <1>12, <1>13, <1>14, LocalDriver
<1> QED BY <1>15 DEF t

(* The shadow is committed or undone, and the requests are signalled.       *)
Ends(s, t, b) ==
  LET m == s.bm[b]
      R == m.tx.reqs \cap Reqs
  IN  /\ SameBat(s, t) /\ t.up = s.up /\ t.prealloc = s.prealloc /\ t.cached = s.cached
      /\ t.aio = s.aio /\ \A x \in Blocks : x # b => t.bm[x] = s.bm[x]
      /\ t.batmap = IF m.tx.err = "ok" /\ m.shadow = Secs THEN s.batmap \cup {b} ELSE s.batmap
      /\ t.bm[b].locked = m.locked /\ t.bm[b].rd = m.rd /\ t.bm[b].wr = m.wr
      /\ t.bm[b].queue = m.queue /\ t.bm[b].waiting = m.waiting /\ t.bm[b].tx = init_tx
      /\ t.bm[b].map = IF m.tx.err = "ok" THEN m.shadow ELSE m.map
      /\ t.bm[b].shadow = t.bm[b].map
      /\ t.vfree = s.vfree + Cardinality(R)
      /\ \A r \in Reqs :
           /\ r \in R => /\ t.req[r].st = "done" /\ t.req[r].sec = s.req[r].sec
                         /\ t.req[r].op = s.req[r].op /\ t.req[r].val = s.req[r].val
                         /\ t.req[r].err = IF m.tx.err # "ok" THEN m.tx.err ELSE s.req[r].err
           /\ r \notin R => t.req[r] = s.req[r]

(* Ready to end: nothing is in flight for the transaction.                  *)
Ready(s, b) ==
  /\ s.bm[b].tx.live /\ s.bm[b].tx.closed /\ txios(s, b) = {} /\ ~s.bm[b].wr

LEMMA ReadyFacts ==
  ASSUME NEW s, NEW b \in Blocks, Driver(s, NoReq, b), Ready(s, b), ~s.bm[b].tx.upd
  PROVE  /\ NoAlloc(s, b) /\ ~s.bm[b].rd /\ b \in s.cached
         /\ \A r \in Reqs : r \in s.bm[b].tx.reqs =>
              s.req[r].st = "finished" /\ blk_of(s.req[r].sec) = b /\ s.req[r].op = "write"
         /\ \A i \in s.aio : i.req \in s.bm[b].tx.reqs /\ i.req \in Reqs => i.op \notin Data
         /\ s.bm[b].tx.err = "ok" => s.bat[b] # DD_BLK_UNUSED
         /\ Mine(s, b) => Failing(s, b) \/ Done(s, b)
<1> DEFINE m == s.bm[b]
<1>1. s \in VhdState /\ BlkOK(s, b, b) /\ MemOK(s, b) /\ BatOK(s, b) /\ b # NoBlock
      /\ m.tx.live /\ m.tx.closed /\ txios(s, b) = {} /\ ~m.wr /\ ~m.tx.upd
  BY BlkNo DEF Driver, Ready
<1>2. NoAlloc(s, b)
  <2>1. ASSUME NEW i \in s.aio, i.blk = b, i.op \in {"zero_bm", "bat"} PROVE FALSE
    <3>1. IoOK(s, i) /\ ~TxIO(s, b, i)
      BY <1>1 DEF Driver, txios
    <3> QED BY <1>1, <2>1, <3>1 DEF IoOK, TxIO
  <2> QED BY <2>1 DEF NoAlloc, HasIO
<1>3. ~m.rd /\ b \in s.cached
  BY <1>1, InitBm DEF BlkOK
<1>4. \A r \in Reqs : r \in m.tx.reqs =>
        s.req[r].st \in {"io", "finished"} /\ blk_of(s.req[r].sec) = b /\ s.req[r].op = "write"
  BY <1>1 DEF MemOK
<1>5. ASSUME NEW i \in s.aio, i.req \in m.tx.reqs, i.req \in Reqs, i.op \in Data PROVE FALSE
  <2>1. IoOK(s, i)
    BY DEF Driver
  <2>2. TxIO(s, b, i)
    BY <1>4, <1>5, <2>1 DEF IoOK, Data, TxIO
  <2> QED BY <1>1, <2>2 DEF txios
<1>6. ASSUME NEW r \in Reqs, r \in m.tx.reqs PROVE s.req[r].st = "finished"
  <2>1. ReqOK(s, r, NoReq) /\ r # NoReq
    BY NotMeta DEF Driver
  <2> QED BY <1>4, <1>5, <1>6, <2>1 DEF ReqOK
<1>7. Mine(s, b) => Failing(s, b) \/ Done(s, b)
  BY <1>1, <1>2 DEF Mine, BatOK, Allocating, NoAlloc
<1>8. s.bm[b].tx.err = "ok" => s.bat[b] # DD_BLK_UNUSED
  <2>1. Mine(s, b) => s.pbw_offset \in Slots /\ s.pbw_blk = b
    BY <1>1 DEF Mine, BatOK
  <2>2. DD_BLK_UNUSED \notin Slots
    BY DEF DD_BLK_UNUSED, Slots
  <2> QED BY <1>1, <1>7, <2>1, <2>2 DEF BlkOK, Failing, Done
<1> QED BY <1>2, <1>3, <1>4, <1>5, <1>6, <1>7, <1>8

LEMMA EndDriver ==
  ASSUME NEW s, NEW t \in VhdState, NEW b \in Blocks, Driver(s, NoReq, b),
         Ready(s, b), ~s.bm[b].tx.upd, Ends(s, t, b)
  PROVE  /\ Driver(t, NoReq, b) /\ NoAlloc(t, b) /\ t.bm[b].tx = init_tx /\ ~t.bm[b].wr
<1> DEFINE m == s.bm[b]
           n == t.bm[b]
           R == s.bm[b].tx.reqs \cap Reqs
<1>1. s \in VhdState /\ BlkOK(s, b, b) /\ MemOK(s, b) /\ TxOK(s, b) /\ CountOK(s) /\ Unique(s)
      /\ m \in Bitmap /\ BatOK(s, b) /\ b # NoBlock
  BY BmField, BlkNo DEF Driver
<1>2. /\ NoAlloc(s, b) /\ ~m.rd /\ b \in s.cached
      /\ \A r \in R : s.req[r].st = "finished" /\ blk_of(s.req[r].sec) = b /\ s.req[r].op = "write"
      /\ \A i \in s.aio : i.req \in R => i.op \notin Data
      /\ m.tx.err = "ok" => s.bat[b] # DD_BLK_UNUSED
      /\ Mine(s, b) => Failing(s, b) \/ Done(s, b)
  BY ReadyFacts
<1>3. m.tx.live /\ m.tx.closed /\ txios(s, b) = {} /\ ~m.wr /\ ~m.tx.upd
  BY DEF Ready
<1>4. /\ SameBat(s, t) /\ t.prealloc = s.prealloc /\ t.cached = s.cached
      /\ t.aio = s.aio /\ \A x \in Blocks : x # b => t.bm[x] = s.bm[x]
  BY DEF Ends
<1>5. t.batmap = IF m.tx.err = "ok" /\ m.shadow = Secs THEN s.batmap \cup {b} ELSE s.batmap
  BY DEF Ends
<1>6. /\ n.locked = m.locked /\ n.rd = m.rd /\ n.wr = m.wr
      /\ n.queue = m.queue /\ n.waiting = m.waiting /\ n.tx = init_tx
      /\ n.map = (IF m.tx.err = "ok" THEN m.shadow ELSE m.map)
      /\ n.shadow = n.map
  BY DEF Ends
<1>7. /\ t.vfree = s.vfree + Cardinality(R)
      /\ \A r \in R : /\ t.req[r].st = "done" /\ t.req[r].sec = s.req[r].sec
                      /\ t.req[r].op = s.req[r].op
                      /\ t.req[r].err = IF m.tx.err # "ok" THEN m.tx.err ELSE s.req[r].err
      /\ \A r \in Reqs : r \notin R => t.req[r] = s.req[r]
  BY DEF Ends
<1>8. R \subseteq Reqs /\ R \subseteq m.tx.reqs /\ \A r \in Reqs : r \in m.tx.reqs => r \in R
  OBVIOUS
<1> HIDE DEF m, n, R
<1>9. \A x, op : HasIO(t, x, op) <=> HasIO(s, x, op)
  BY <1>4 DEF HasIO
<1>10. NoAlloc(t, b)
  BY <1>2, <1>9 DEF NoAlloc
<1>11. txios(t, b) = {}
  <2>1. ASSUME NEW i \in t.aio, TxIO(t, b, i) PROVE FALSE
    <3>1. i.op \notin {"zero_bm", "bat"}
      BY <2>1, <1>10 DEF TxIO, NoAlloc, HasIO
    <3> QED BY <2>1, <3>1, <1>6, InitBm DEF TxIO, n
  <2> QED BY <2>1 DEF txios
<1>12. \A q \in Reqs : /\ t.req[q].sec = s.req[q].sec
                       /\ blk_of(s.req[q].sec) # b => t.req[q] = s.req[q]
  BY <1>2, <1>7
<1>13. LocalTo(s, t, b)
  <2>1. \A x \in Blocks : x # b => (Mine(t, x) <=> Mine(s, x)) /\ (x \in t.batmap <=> x \in s.batmap)
    BY <1>4, <1>5 DEF Mine, SameBat
  <2> QED BY <2>1, <1>4, <1>12 DEF LocalTo, SameBat
<1>14. BatOK(t, b)
  <2>1. CASE Mine(s, b) /\ Failing(s, b)
    <3>1. Failing(t, b)
      BY <2>1, <1>4, <1>6, <1>9, InitBm DEF Failing, SameBat, Mine, n
    <3> QED BY <2>1, <3>1, <1>1, <1>4 DEF BatOK, SameBat, Mine
  <2>2. CASE Mine(s, b) /\ Done(s, b)
    <3>1. Done(t, b)
      BY <2>2, <1>4, <1>9 DEF Done, SameBat, Mine
    <3> QED BY <2>2, <3>1, <1>1, <1>4 DEF BatOK, SameBat, Mine
  <2>3. CASE ~Mine(s, b)
    <3>1. s.locked => s.pbw_blk # b /\ s.pbw_blk \in Blocks
      BY <2>3, <1>1 DEF Mine, VhdState
    <3>2. s.locked => t.bm[s.pbw_blk] = s.bm[s.pbw_blk]
      BY <3>1, <1>4
    <3> QED BY <3>2, <1>1, <1>4, <1>9, BatFrame
  <2> QED BY <2>1, <2>2, <2>3, <1>2
<1>15. m.map \subseteq m.shadow /\ m.shadow \subseteq Secs /\ m.waiting = {} /\ m.tx.err # "EBUSY"
       /\ (bitmap_in_use(m) => m.locked)
  BY <1>1, <1>2 DEF BlkOK, Bitmap, m
<1>16. BlkOK(t, b, b)
  <2>1. t.bat = s.bat /\ (Mine(t, b) <=> Mine(s, b))
    BY <1>4 DEF SameBat, Mine
  <2>2. b \in t.batmap => s.bat[b] # DD_BLK_UNUSED /\ n.map = Secs
    <3>1. CASE b \in s.batmap
      <4>1. m.map = Secs /\ s.bat[b] # DD_BLK_UNUSED
        BY <1>1, <1>2, <3>1 DEF BlkOK, m
      <4> QED BY <4>1, <1>6, <1>15
    <3>2. CASE b \notin s.batmap
      BY <3>2, <1>2, <1>5, <1>6
    <3> QED BY <3>1, <3>2
  <2>3. s.bat[b] = DD_BLK_UNUSED => n.map = {}
    BY <1>1, <1>2, <1>6 DEF BlkOK, m
  <2>4. bitmap_in_use(n) => n.locked
    BY <1>2, <1>6, <1>15, InitBm DEF bitmap_in_use
  <2>5. n.queue # {} /\ s.bat[b] = DD_BLK_UNUSED => Mine(s, b)
    BY <1>1, <1>6 DEF BlkOK, m
  <2> QED BY <1>2, <1>3, <1>4, <1>6, <1>15, <2>1, <2>2, <2>3, <2>4, <2>5, InitBm DEF BlkOK, n
<1>17. TxOK(t, b)
  BY <1>6, <1>11, InitBm, FS_EmptySet DEF TxOK, n
<1>18. MemOK(t, b)
  <2>1. \A r \in Reqs : r \in m.queue => r \notin R
    BY <1>1, <1>8 DEF BlkOK, m
  <2>2. \A r \in Reqs : r \in m.queue =>
          s.req[r].st \in {"io", "finished"} /\ s.req[r].op = "write" /\ blk_of(s.req[r].sec) = b
    BY <1>1 DEF MemOK, m
  <2> QED BY <2>1, <2>2, <1>6, <1>7, <1>15, InitBm DEF MemOK, n
<1>19. ASSUME NEW q \in Reqs, blk_of(s.req[q].sec) = b PROVE ReqOK(t, q, NoReq)
  <2>1. ReqOK(s, q, NoReq) /\ q # NoReq
    BY NotMeta DEF Driver
  <2>2. CASE q \in R
    BY <2>1, <2>2, <1>7 DEF ReqOK
  <2>3. CASE q \notin R
    <3>1. t.req[q] = s.req[q] /\ t.aio = s.aio /\ n.waiting = m.waiting /\ n.queue = m.queue
      BY <2>3, <1>4, <1>6, <1>7
    <3>2. q \notin m.tx.reqs
      BY <2>3, <1>8
    <3> QED BY <2>1, <3>1, <3>2, <1>19 DEF ReqOK, n, m
  <2> QED BY <2>2, <2>3
<1>20. ASSUME NEW i \in t.aio, i.blk = b PROVE IoOK(t, i)
  <2>1. i \in s.aio /\ IoOK(s, i) /\ i.op \notin {"zero_bm", "bat"} /\ i.op # "bitmap_write" /\ i.op # "bitmap_read"
    <3>1. i \in s.aio /\ IoOK(s, i)
      BY <1>4 DEF Driver
    <3> QED BY <3>1, <1>2, <1>3, <1>20 DEF NoAlloc, HasIO, IoOK, m
  <2>2. /\ t.bat = s.bat /\ (Mine(t, b) <=> Mine(s, b)) /\ t.pbw_offset = s.pbw_offset
        /\ s.batmap \subseteq t.batmap
    BY <1>4, <1>5 DEF SameBat, Mine
  <2>3. CASE i.op \in Data
    <3>1. i.req \in Reqs /\ i.req \notin R
      BY <1>1, <2>1, <2>3, <1>2, IoField DEF Data
    <3>2. t.req[i.req] = s.req[i.req] /\ i.req \notin m.tx.reqs
      BY <3>1, <1>7, <1>8
    <3> QED BY <2>1, <2>2, <2>3, <3>2, <1>6, <1>20 DEF IoOK, Data, n, m
  <2>4. CASE i.op = "redundant_bm"
    <3>1. i.req \in Reqs /\ accepted(s.req[i.req]) /\ ReqOK(s, i.req, NoReq)
      BY <1>1, <2>1, <2>4, IoField DEF IoOK, Driver
    <3>2. /\ t.req[i.req].op = s.req[i.req].op /\ t.req[i.req].sec = s.req[i.req].sec
          /\ accepted(t.req[i.req])
      <4>1. CASE i.req \in R
        <5>1. s.req[i.req].err # "EBUSY"
          BY <4>1, <3>1, <1>2 DEF ReqOK
        <5> QED BY <4>1, <5>1, <1>7, <1>15 DEF accepted
      <4>2. CASE i.req \notin R
        BY <4>2, <3>1, <1>7
      <4> QED BY <4>1, <4>2
    <3> QED BY <2>1, <2>2, <2>4, <3>2, <1>20 DEF IoOK
  <2>5. i.op \in AioOps
    BY <1>1, <2>1, IoField
  <2> QED BY <2>1, <2>3, <2>4, <2>5 DEF AioOps, Data
<1>21. CountOK(t)
  <2>1. R \subseteq outstanding(s) /\ outstanding(t) = outstanding(s) \ R
    BY <1>2, <1>7, <1>8 DEF outstanding
  <2>2. IsFiniteSet(t.aio) /\ Redundant(t) = Redundant(s) /\ Cardinality(t.cached) <= CacheSize
    BY <1>1, <1>4 DEF CountOK, Redundant
  <2> QED BY <1>1, <1>7, <2>1, <2>2, CountSet
<1>22. /\ Unique(t) /\ \A q \in {NoReq} : q \in Reqs => blk_of(s.req[q].sec) = b
       /\ b \in {b, NoBlock}
  BY <1>1, <1>4, NotMeta DEF Unique
<1>23. Driver(t, NoReq, b)
  BY <1>13, <1>14, <1>16, <1>17, <1>18, <1>19, <1>20, <1>21, <1>22, LocalDriver
<1> QED BY <1>3, <1>6, <1>10, <1>23 DEF n

(* The writes queued behind a transaction become the next one.              *)
Over(s, b)   == {r \in s.bm[b].queue : s.req[r].st = "finished"}
OverOK(s, b) == {r \in Over(s, b) : s.req[r].err = "ok"}

Promotes(s, t, b) ==
  LET m == s.bm[b]
      n == t.bm[b]
  IN  /\ OnlyBlk(s, t, b) /\ t.req = s.req /\ t.vfree = s.vfree /\ t.aio = s.aio
      /\ n.locked = m.locked /\ n.rd = m.rd /\ n.wr = m.wr /\ n.map = m.map
      /\ n.waiting = m.waiting /\ n.queue = {}
      /\ n.shadow = m.shadow \cup {sec_of(s.req[r].sec) : r \in OverOK(s, b)}
      /\ n.tx.err = (IF s.bat[b] = DD_BLK_UNUSED THEN "EIO" ELSE m.tx.err)
      /\ n.tx.closed = m.tx.closed /\ n.tx.live /\ n.tx.upd = m.tx.upd
      /\ n.tx.reqs = m.tx.reqs \cup m.queue
      /\ n.tx.started = m.tx.started + Cardinality(m.queue)
      /\ n.tx.finished = m.tx.finished + Cardinality(Over(s, b))

LEMMA PromoteEffect ==
  ASSUME NEW s \in VhdState, NEW b \in Blocks
  PROVE  Promotes(s, promote_queue(s, b), b) /\ promote_queue(s, b) \in VhdState
<1> DEFINE m == s.bm[b]
           j == joined(m.tx, m.queue)
           T == [j EXCEPT !.err = IF s.bat[b] = DD_BLK_UNUSED THEN "EIO" ELSE @,
                          !.finished = @ + Cardinality(Over(s, b))]
           n == [m EXCEPT !.tx = T, !.queue = {},
                          !.shadow = @ \cup {sec_of(s.req[r].sec) : r \in OverOK(s, b)}]
           t == promote_queue(s, b)
<1>1. t = with_bm(s, b, n) /\ t \in VhdState
  BY PromoteType DEF promote_queue, Over, OverOK
<1>2. m \in Bitmap /\ m.tx \in Tx
  BY BmField DEF Bitmap
<1>3. j \in Tx
  <2>1. m.queue \subseteq Reqs
    BY <1>2 DEF Bitmap
  <2> QED BY <1>2, <2>1, JoinedType, FiniteReqs
<1>4. /\ j.err = m.tx.err /\ j.closed = m.tx.closed /\ j.started = m.tx.started + Cardinality(m.queue)
      /\ j.finished = m.tx.finished /\ j.live /\ j.upd = m.tx.upd /\ j.reqs = m.tx.reqs \cup m.queue
  BY <1>2, JoinedFields
<1> HIDE DEF j
<1>5. /\ T.err = (IF s.bat[b] = DD_BLK_UNUSED THEN "EIO" ELSE j.err) /\ T.closed = j.closed
      /\ T.started = j.started /\ T.finished = j.finished + Cardinality(Over(s, b))
      /\ T.live = j.live /\ T.upd = j.upd /\ T.reqs = j.reqs
  BY <1>3 DEF Tx
<1> HIDE DEF T
<1>6. /\ n.locked = m.locked /\ n.rd = m.rd /\ n.wr = m.wr /\ n.map = m.map
      /\ n.waiting = m.waiting /\ n.queue = {} /\ n.tx = T
      /\ n.shadow = m.shadow \cup {sec_of(s.req[r].sec) : r \in OverOK(s, b)}
  BY <1>2 DEF Bitmap
<1> HIDE DEF n, t
<1>7. OnlyBlk(s, t, b) /\ t.bm[b] = n /\ t.req = s.req /\ t.vfree = s.vfree /\ t.aio = s.aio
  BY <1>1, WithBm
<1>8. Promotes(s, t, b)
  BY <1>4, <1>5, <1>6, <1>7 DEF Promotes, m
<1> QED BY <1>1, <1>8 DEF t

LEMMA PromoteDriver ==
  ASSUME NEW s, NEW t \in VhdState, NEW b \in Blocks, Driver(s, NoReq, b),
         s.bm[b].tx = init_tx, ~s.bm[b].wr, NoAlloc(s, b), s.bm[b].queue # {},
         Promotes(s, t, b)
  PROVE  /\ Driver(t, NoReq, b) /\ NoAlloc(t, b)
<1> DEFINE m == s.bm[b]
           n == t.bm[b]
           F == Over(s, b)
<1>1. s \in VhdState /\ BlkOK(s, b, b) /\ MemOK(s, b) /\ TxOK(s, b) /\ CountOK(s) /\ Unique(s)
      /\ m \in Bitmap /\ BatOK(s, b) /\ b # NoBlock
  BY BmField, BlkNo DEF Driver
<1>2. OnlyBlk(s, t, b) /\ t.req = s.req /\ t.vfree = s.vfree /\ t.aio = s.aio
  BY DEF Promotes
<1>3. /\ n.locked = m.locked /\ n.rd = m.rd /\ n.wr = m.wr /\ n.map = m.map
      /\ n.waiting = m.waiting /\ n.queue = {}
      /\ n.shadow = m.shadow \cup {sec_of(s.req[r].sec) : r \in OverOK(s, b)}
  BY DEF Promotes
<1>4. /\ n.tx.err = (IF s.bat[b] = DD_BLK_UNUSED THEN "EIO" ELSE "ok")
      /\ ~n.tx.closed /\ n.tx.live /\ ~n.tx.upd
      /\ n.tx.reqs = m.queue
      /\ n.tx.started = Cardinality(m.queue)
      /\ n.tx.finished = Cardinality(F)
  <2>1. /\ n.tx.err = (IF s.bat[b] = DD_BLK_UNUSED THEN "EIO" ELSE m.tx.err)
        /\ n.tx.closed = m.tx.closed /\ n.tx.live /\ n.tx.upd = m.tx.upd
        /\ n.tx.reqs = m.tx.reqs \cup m.queue
        /\ n.tx.started = m.tx.started + Cardinality(m.queue)
        /\ n.tx.finished = m.tx.finished + Cardinality(F)
    BY DEF Promotes
  <2>2. m.queue \subseteq Reqs /\ IsFiniteSet(m.queue) /\ IsFiniteSet(F)
    <3>1. m.queue \subseteq Reqs /\ F \subseteq Reqs
      BY <1>1 DEF Bitmap, Over
    <3> QED BY <3>1, ConstantsAssumption, FS_Subset
  <2>3. Cardinality(m.queue) \in Nat /\ Cardinality(F) \in Nat
    BY <2>2, FS_CardinalityType
  <2> QED BY <2>1, <2>3, InitBm
<1>5. m.tx = init_tx /\ ~m.wr /\ m.queue # {} /\ NoAlloc(s, b) /\ m.queue \subseteq Reqs
  BY <1>1 DEF Bitmap
<1> HIDE DEF m, n
<1>6. \A x, op : HasIO(t, x, op) <=> HasIO(s, x, op)
  BY <1>2 DEF HasIO
<1>7. NoAlloc(t, b)
  BY <1>5, <1>6 DEF NoAlloc
<1>8. ~m.rd /\ b \in s.cached /\ m.waiting = {} /\ m.locked /\ (s.bat[b] = DD_BLK_UNUSED => Mine(s, b))
      /\ m.shadow = m.map
  <2>1. ~m.rd /\ b \in s.cached
    BY <1>1, <1>5, InitBm DEF BlkOK, m
  <2> QED BY <1>1, <1>5, <2>1, InitBm DEF BlkOK, bitmap_in_use, m
<1>9. \A r \in m.queue : s.req[r].st \in {"io", "finished"} /\ s.req[r].op = "write" /\ blk_of(s.req[r].sec) = b
  BY <1>1, <1>5 DEF MemOK, m
<1>10. \A i \in t.aio : i \in txios(t, b) <=> i.blk = b /\ i.op = "data_write" /\ i.req \in m.queue
  BY <1>4, <1>7 DEF txios, TxIO, NoAlloc, HasIO, n
<1>11. Cardinality(txios(t, b)) = Cardinality(m.queue \ F) /\ IsFiniteSet(m.queue \ F)
  <2>1. IsFiniteSet(m.queue \ F)
    BY <1>5, ConstantsAssumption, FS_Subset
  <2>2. ASSUME NEW i \in txios(t, b) PROVE i.req \in m.queue \ F
    <3>1. i \in s.aio /\ i.op = "data_write" /\ i.req \in m.queue
      BY <1>2, <1>10 DEF txios
    <3>2. s.req[i.req].st = "io"
      BY <3>1 DEF Driver, IoOK
    <3> QED BY <3>1, <3>2 DEF Over
  <2>3. ASSUME NEW r \in m.queue \ F PROVE \E i \in txios(t, b) : i.req = r
    <3>1. r \in Reqs /\ r # NoReq /\ s.req[r].st = "io" /\ s.req[r].op = "write" /\ blk_of(s.req[r].sec) = b
      BY <1>5, <1>9, NotMeta DEF Over, m
    <3>2. PICK i \in s.aio : i.req = r /\ i.op \in Data
      BY <3>1 DEF Driver, ReqOK
    <3>3. IoOK(s, i)
      BY DEF Driver
    <3>4. i.op = "data_write" /\ i.blk = b
      BY <3>1, <3>2, <3>3 DEF IoOK, Data
    <3> QED BY <1>2, <1>10, <3>2, <3>4
  <2>4. ASSUME NEW i \in txios(t, b), NEW j \in txios(t, b), i.req = j.req PROVE i = j
    <3>1. i \in s.aio /\ j \in s.aio /\ i.op = j.op /\ i.blk = j.blk
      BY <1>2, <1>10 DEF txios
    <3> QED BY <1>1, <2>4, <3>1 DEF Unique
  <2> HIDE DEF F
  <2> QED BY <2>1, <2>2, <2>3, <2>4, OneEach
<1>12. TxOK(t, b)
  <2>1. IsFiniteSet(m.queue) /\ F \subseteq m.queue
    BY <1>5, ConstantsAssumption, FS_Subset DEF Over, m
  <2>2. Cardinality(m.queue \ F) = Cardinality(m.queue) - Cardinality(F)
    <3>1. IsFiniteSet(F) /\ m.queue \cap F = F
      BY <2>1, FS_Subset
    <3>2. Cardinality(m.queue \ F) = Cardinality(m.queue) - Cardinality(m.queue \cap F)
      BY <2>1, FS_Difference
    <3> QED BY <3>1, <3>2
  <2> QED BY <1>4, <1>11, <2>2 DEF TxOK, n
<1>13. BatOK(t, b)
  <2>1. CASE Mine(s, b)
    <3>1. Failing(s, b) \/ Done(s, b)
      BY <2>1, <1>1, <1>5 DEF BatOK, Mine, Allocating, NoAlloc
    <3>2. Failing(s, b) => Failing(t, b)
      BY <2>1, <1>2, <1>4, <1>6 DEF Failing, OnlyBlk, SameBat, Mine, n
    <3>3. Done(s, b) => Done(t, b)
      BY <2>1, <1>2, <1>6 DEF Done, OnlyBlk, SameBat, Mine
    <3> QED BY <2>1, <3>1, <3>2, <3>3, <1>1, <1>2 DEF BatOK, OnlyBlk, SameBat, Mine
  <2>2. CASE ~Mine(s, b)
    <3>1. s.locked => s.pbw_blk # b /\ s.pbw_blk \in Blocks
      BY <2>2, <1>1 DEF Mine, VhdState
    <3>2. s.locked => t.bm[s.pbw_blk] = s.bm[s.pbw_blk]
      BY <3>1, <1>2 DEF OnlyBlk
    <3>3. SameBat(s, t)
      BY <1>2 DEF OnlyBlk
    <3> QED BY <3>2, <3>3, <1>1, <1>6, BatFrame
  <2> QED BY <2>1, <2>2
<1>14. BlkOK(t, b, b)
  <2>1. t.bat = s.bat /\ (Mine(t, b) <=> Mine(s, b)) /\ t.batmap = s.batmap /\ t.cached = s.cached
    BY <1>2 DEF OnlyBlk, SameBat, Mine
  <2>2. bitmap_in_use(n) => n.locked
    BY <1>3, <1>8
  <2>3. s.bat[b] = DD_BLK_UNUSED => m.map = {}
    BY <1>1 DEF BlkOK, m
  <2>4. b \in s.batmap => s.bat[b] # DD_BLK_UNUSED /\ m.map = Secs
    BY <1>1, <1>8 DEF BlkOK, m
  <2> QED BY <1>3, <1>4, <1>5, <1>8, <2>1, <2>2, <2>3, <2>4 DEF BlkOK, n
<1>15. MemOK(t, b)
  <2>1. \A r \in m.queue : s.req[r].st = "finished" /\ s.req[r].err = "ok"
          => sec_of(s.req[r].sec) \in n.shadow
    BY <1>3 DEF OverOK, Over, m
  <2> QED BY <1>2, <1>3, <1>4, <1>8, <1>9, <2>1 DEF MemOK, n
<1>16. ASSUME NEW q \in Reqs, blk_of(s.req[q].sec) = b PROVE ReqOK(t, q, NoReq)
  <2>1. ReqOK(s, q, NoReq) /\ q # NoReq
    BY NotMeta DEF Driver
  <2>2. n.tx.reqs \cup n.queue = m.tx.reqs \cup m.queue
    BY <1>3, <1>4, <1>5, InitBm
  <2> QED BY <2>1, <2>2, <1>2, <1>3, <1>16 DEF ReqOK, n, m
<1>17. ASSUME NEW i \in t.aio, i.blk = b PROVE IoOK(t, i)
  <2>1. i \in s.aio /\ IoOK(s, i) /\ i.op \notin {"zero_bm", "bat"}
    BY <1>2, <1>5, <1>17 DEF Driver, NoAlloc, HasIO
  <2>2. SameBat(s, t) /\ t.prealloc = s.prealloc /\ t.batmap = s.batmap
    BY <1>2 DEF OnlyBlk
  <2>3. s.bm[i.blk] = m /\ t.bm[i.blk] = n
    BY <1>17 DEF m, n
  <2>4. n.tx.reqs \cup n.queue = m.tx.reqs \cup m.queue
    BY <1>3, <1>4, <1>5, InitBm
  <2>5. i.op = "redundant_bm" => accepted(s.req[i.req])
    BY <2>1 DEF IoOK
  <2> QED BY <1>1, <1>2, <1>3, <2>1, <2>2, <2>3, <2>4, <2>5, IoKeep
<1>18. Unique(t) /\ CountOK(t) /\ \A q \in {NoReq} : q \in Reqs => blk_of(s.req[q].sec) = b
  <2>1. Redundant(t) = Redundant(s) /\ t.cached = s.cached
    BY <1>2 DEF Redundant, OnlyBlk
  <2>2. IsFiniteSet(t.aio)
    BY <1>1, <1>2 DEF CountOK
  <2>3. CountOK(t)
    BY <1>1, <1>2, <2>1, <2>2, CountSame DEF outstanding
  <2> QED BY <1>1, <1>2, <2>3, NotMeta DEF Unique
<1>19. LocalTo(s, t, b)
  BY <1>1, <1>2, OnlyBlkLocal
<1>20. Driver(t, NoReq, b)
  BY <1>12, <1>13, <1>14, <1>15, <1>16, <1>17, <1>18, <1>19, LocalDriver
<1> QED BY <1>7, <1>20

(* The lock on the BAT is given back.                                       *)
LEMMA InitBatEffect ==
  ASSUME NEW s \in VhdState, NEW t, t = init_bat(s)
  PROVE  /\ t \in VhdState
         /\ ~t.locked /\ ~t.started /\ t.bat_err = "ok" /\ ~t.bat_tx
         /\ t.up = s.up /\ t.prealloc = s.prealloc /\ t.bat = s.bat /\ t.batmap = s.batmap
         /\ t.next_db = s.next_db /\ t.cached = s.cached /\ t.bm = s.bm /\ t.req = s.req
         /\ t.vfree = s.vfree /\ t.aio = s.aio
<1>1. t \in VhdState
  BY InitBatType
<1> QED BY <1>1 DEF init_bat, VhdState

LEMMA UnlockBatDriver ==
  ASSUME NEW s, NEW t, NEW b \in Blocks, Driver(s, NoReq, b), Settles(s, b), NoAlloc(s, b),
         Mine(s, b), s.bat_err = "ok" \/ ~s.bm[b].tx.live, t = init_bat(s)
  PROVE  Driver(t, NoReq, NoBlock)
<1> DEFINE m == s.bm[b]
<1>1. s \in VhdState /\ BlkOK(s, b, b) /\ MemOK(s, b) /\ TxOK(s, b) /\ CountOK(s) /\ Unique(s)
      /\ m \in Bitmap /\ BatOK(s, b) /\ b # NoBlock
  BY BmField, BlkNo DEF Driver
<1>2. /\ t \in VhdState
      /\ ~t.locked /\ ~t.started /\ t.bat_err = "ok" /\ ~t.bat_tx
      /\ t.up = s.up /\ t.prealloc = s.prealloc /\ t.bat = s.bat /\ t.batmap = s.batmap
      /\ t.next_db = s.next_db /\ t.cached = s.cached /\ t.bm = s.bm /\ t.req = s.req
      /\ t.vfree = s.vfree /\ t.aio = s.aio
  BY <1>1, InitBatEffect
<1>3. (Failing(s, b) /\ ~m.tx.live) \/ Done(s, b)
  BY <1>1 DEF BatOK, Mine, Allocating, NoAlloc, Failing
<1>4. ~m.tx.upd
  BY <1>1 DEF BlkOK, NoAlloc
<1>5. s.bat[b] = DD_BLK_UNUSED => ~m.tx.live /\ m.tx = init_tx /\ m.queue = {} /\ ~m.wr
  <2>1. ASSUME s.bat[b] = DD_BLK_UNUSED PROVE ~m.tx.live
    <3>1. s.pbw_offset \in Slots
      BY <1>1 DEF BatOK, Mine
    <3>2. s.pbw_offset # DD_BLK_UNUSED
      BY <3>1 DEF Slots, DD_BLK_UNUSED
    <3> QED BY <1>3, <2>1, <3>2 DEF Done, Mine
  <2>2. ASSUME ~m.tx.live PROVE m.tx = init_tx /\ m.queue = {} /\ ~m.wr
    BY <1>1, <2>2, InitBm DEF BlkOK, Settles
  <2> QED BY <2>1, <2>2
<1>6. Done(s, b) => s.bat[b] = s.pbw_offset
  BY DEF Done, Mine
<1>7. Settles(s, b) /\ NoAlloc(s, b)
  OBVIOUS
<1>8. Mine(s, b) /\ ~Mine(t, b)
  BY <1>2 DEF Mine
<1>9. ~m.tx.live => s.bat[b] = DD_BLK_UNUSED \/ Done(s, b)
  BY <1>3 DEF Failing, Mine
<1> HIDE DEF m
<1>10. \A x, op : HasIO(t, x, op) <=> HasIO(s, x, op)
  BY <1>2 DEF HasIO
<1>11. txios(t, b) = txios(s, b)
  BY <1>2 DEF txios, TxIO
<1>12. BlkOK(t, b, NoBlock)
  BY <1>1, <1>2, <1>4, <1>5, <1>7, <1>10, <1>11 DEF BlkOK, Settles, m
<1>13. BatOK(t, NoBlock)
  BY <1>1, <1>2 DEF BatOK
<1>14. TxOK(t, b) /\ MemOK(t, b) /\ Unique(t)
  BY <1>1, <1>2, <1>11 DEF TxOK, MemOK, Unique
<1>15. CountOK(t)
  <2>1. Redundant(t) = Redundant(s) /\ outstanding(t) = outstanding(s)
    BY <1>2 DEF Redundant, outstanding
  <2> QED BY <1>1, <1>2, <2>1, CountSame DEF CountOK
<1>16. ASSUME NEW q \in Reqs, blk_of(s.req[q].sec) = b PROVE ReqOK(t, q, NoReq)
  <2>1. ReqOK(s, q, NoReq)
    BY DEF Driver
  <2> QED BY <2>1, <1>2 DEF ReqOK
<1>17. ASSUME NEW i \in t.aio, i.blk = b PROVE IoOK(t, i)
  <2>1. i \in s.aio /\ IoOK(s, i) /\ i.op \notin {"zero_bm", "bat"}
    BY <1>2, <1>7, <1>17 DEF Driver, NoAlloc, HasIO
  <2>2. i.op \in {"data_write", "bitmap_write"} => i.slot = s.bat[b]
    <3>1. CASE Done(s, b)
      BY <3>1, <1>6, <2>1, <1>17 DEF IoOK
    <3>2. CASE ~Done(s, b)
      <4>1. ~m.wr /\ m.queue = {} /\ m.tx = init_tx
        BY <3>2, <1>3, <1>5, <1>9
      <4> QED BY <4>1, <2>1, <1>17, InitBm DEF IoOK, m
    <3> QED BY <3>1, <3>2
  <2> QED BY <2>1, <2>2, <1>2, <1>17 DEF IoOK
<1>18. LocalTo(s, t, b)
  BY <1>2, <1>8 DEF LocalTo, Mine
<1>19. \A q \in {NoReq} : q \in Reqs => blk_of(s.req[q].sec) = b
  BY NotMeta
<1> QED BY <1>2, <1>12, <1>13, <1>14, <1>15, <1>16, <1>17, <1>18, <1>19, LocalDriver

LEMMA BatTransactionDriver ==
  ASSUME NEW s, NEW b \in Blocks, Driver(s, NoReq, b), Settles(s, b), NoAlloc(s, b)
  PROVE  /\ Driver(finish_bat_transaction(s, b), NoReq, NoBlock)
         /\ finish_bat_transaction(s, b).aio = s.aio
<1>1. s \in VhdState /\ BlkOK(s, b, b) /\ BatOK(s, b) /\ b # NoBlock /\ s.pbw_blk \in Blocks
      /\ s.bm[b].tx.err # "EBUSY"
  BY BlkNo DEF Driver, VhdState, BlkOK
<1>2. CASE ~Mine(s, b)
  <2>1. finish_bat_transaction(s, b) = s
    BY <1>2 DEF finish_bat_transaction, Mine
  <2>2. BatOK(s, NoBlock)
    BY <1>1, <1>2, BlkNo DEF BatOK, Mine, Failing, Done
  <2> QED BY <2>1, <2>2, Settle
<1>3. CASE Mine(s, b) /\ s.bat_err # "ok" /\ s.bm[b].tx.live
  <2> DEFINE t == close_tx(s, b)
  <2>1. finish_bat_transaction(s, b) = t
    BY <1>3 DEF finish_bat_transaction, Mine
  <2>2. Marks(s, t, b) /\ t.bm[b].tx.closed /\ t \in VhdState
    BY <1>1, CloseMarks
  <2> HIDE DEF t
  <2>3. Driver(t, NoReq, b) /\ txios(t, b) = txios(s, b) /\ \A x, op : HasIO(t, x, op) <=> HasIO(s, x, op)
    BY <1>1, <1>3, <2>2, MarkDriver
  <2>4. Settles(t, b)
    BY <2>2, <2>3 DEF Settles, Marks, OnlyBlk, SameBat, bitmap_in_use
  <2>5. BatOK(t, NoBlock)
    <3>1. Failing(s, b)
      BY <1>1, <1>3 DEF BatOK, Mine, Allocating, Done
    <3>2. Failing(t, NoBlock)
      BY <1>3, <2>2, <2>3, <3>1 DEF Failing, Marks, OnlyBlk, SameBat, Mine
    <3> QED BY <1>3, <2>3, <3>2 DEF BatOK, Driver, Marks, OnlyBlk, SameBat, Mine
  <2>6. t.aio = s.aio
    BY <2>2 DEF Marks
  <2> QED BY <2>1, <2>3, <2>4, <2>5, <2>6, Settle
<1>4. CASE Mine(s, b) /\ ~(s.bat_err # "ok" /\ s.bm[b].tx.live)
  <2>1. finish_bat_transaction(s, b) = init_bat(s)
    BY <1>4 DEF finish_bat_transaction, Mine
  <2> QED BY <1>1, <1>4, <2>1, UnlockBatDriver, InitBatEffect
<1> QED BY <1>2, <1>3, <1>4

(* The last two calls of finish_bitmap_transaction.                         *)
LEMMA ReleaseDriver ==
  ASSUME NEW s, NEW b \in Blocks, Driver(s, NoReq, b), NoAlloc(s, b),
         s.bm[b].queue # {} => s.bm[b].tx.closed,
         s.bm[b].tx.live => txios(s, b) # {} \/ s.bm[b].wr
  PROVE  Driver(release(s, b), NoReq, NoBlock) /\ NoAlloc(release(s, b), b)
<1> DEFINE t == unlock_if_unused(s, b)
           u == finish_bat_transaction(t, b)
<1>1. /\ Driver(t, NoReq, b) /\ t.aio = s.aio
      /\ t.bm[b].tx = s.bm[b].tx /\ t.bm[b].queue = s.bm[b].queue /\ t.bm[b].wr = s.bm[b].wr
      /\ txios(t, b) = txios(s, b)
      /\ (t.bm[b].locked => bitmap_in_use(t.bm[b]))
  <2>1. t = unlock_if_unused(s, b)
    OBVIOUS
  <2> HIDE DEF t
  <2> QED BY <2>1, UnlockDriver
<1> HIDE DEF t
<1>2. Settles(t, b)
  BY <1>1 DEF Settles
<1>3. NoAlloc(t, b)
  BY <1>1 DEF NoAlloc, HasIO
<1>4. Driver(u, NoReq, NoBlock) /\ u.aio = t.aio
  BY <1>1, <1>2, <1>3, BatTransactionDriver
<1> HIDE DEF u
<1>5. NoAlloc(u, b)
  BY <1>3, <1>4 DEF NoAlloc, HasIO
<1>6. release(s, b) = u
  BY DEF release, u, t
<1> QED BY <1>4, <1>5, <1>6

(* What commit_or_undo and signal_completion do.                            *)
LEMMA CommitEffect ==
  ASSUME NEW s \in VhdState, NEW b \in Blocks, NEW c, c = commit_or_undo(s, b)
  PROVE  /\ c \in VhdState
         /\ SameBat(s, c) /\ c.up = s.up /\ c.prealloc = s.prealloc /\ c.cached = s.cached
         /\ c.aio = s.aio /\ c.req = s.req /\ c.vfree = s.vfree
         /\ \A x \in Blocks : x # b => c.bm[x] = s.bm[x]
         /\ c.batmap = IF s.bm[b].tx.err = "ok" /\ s.bm[b].shadow = Secs THEN s.batmap \cup {b} ELSE s.batmap
         /\ c.bm[b].locked = s.bm[b].locked /\ c.bm[b].rd = s.bm[b].rd /\ c.bm[b].wr = s.bm[b].wr
         /\ c.bm[b].queue = s.bm[b].queue /\ c.bm[b].waiting = s.bm[b].waiting
         /\ c.bm[b].tx = s.bm[b].tx
         /\ c.bm[b].map = IF s.bm[b].tx.err = "ok" THEN s.bm[b].shadow ELSE s.bm[b].map
         /\ c.bm[b].shadow = c.bm[b].map
<1> DEFINE m == s.bm[b]
<1>1. c \in VhdState /\ m \in Bitmap
  BY CommitType, BmField
<1>2. CASE m.tx.err # "ok"
  <2> DEFINE n == [m EXCEPT !.shadow = m.map]
  <2>1. c = with_bm(s, b, n)
    BY <1>2 DEF commit_or_undo
  <2>2. /\ n.locked = m.locked /\ n.rd = m.rd /\ n.wr = m.wr /\ n.map = m.map
        /\ n.waiting = m.waiting /\ n.queue = m.queue /\ n.tx = m.tx /\ n.shadow = m.map
    BY <1>1 DEF Bitmap
  <2> HIDE DEF n
  <2>3. OnlyBlk(s, c, b) /\ c.bm[b] = n /\ c.req = s.req /\ c.vfree = s.vfree /\ c.aio = s.aio
    BY <2>1, WithBm
  <2> QED BY <1>1, <1>2, <2>2, <2>3 DEF OnlyBlk
<1>3. CASE m.tx.err = "ok"
  <2> DEFINE n == [m EXCEPT !.map = m.shadow]
             u == with_bm(s, b, n)
             B == IF m.shadow = Secs THEN s.batmap \cup {b} ELSE s.batmap
  <2>1. n \in Bitmap
    BY <1>1 DEF Bitmap
  <2>2. /\ n.locked = m.locked /\ n.rd = m.rd /\ n.wr = m.wr /\ n.map = m.shadow
        /\ n.waiting = m.waiting /\ n.queue = m.queue /\ n.tx = m.tx /\ n.shadow = m.shadow
    BY <1>1 DEF Bitmap
  <2>3. c = [u EXCEPT !.batmap = IF m.shadow = Secs THEN @ \cup {b} ELSE @]
    BY <1>3 DEF commit_or_undo, bitmap_full
  <2> HIDE DEF n
  <2>4. OnlyBlk(s, u, b) /\ u.bm[b] = n /\ u.req = s.req /\ u.vfree = s.vfree /\ u.aio = s.aio
        /\ u \in VhdState
    BY <2>1, WithBm, UpdBm
  <2> HIDE DEF u
  <2>5. SameBat(u, c) /\ c.up = u.up /\ c.prealloc = u.prealloc /\ c.cached = u.cached
        /\ c.aio = u.aio /\ c.req = u.req /\ c.vfree = u.vfree /\ c.bm = u.bm
        /\ c.batmap = IF m.shadow = Secs THEN u.batmap \cup {b} ELSE u.batmap
    BY <2>3, <2>4 DEF VhdState, SameBat
  <2> QED BY <1>1, <1>3, <2>2, <2>4, <2>5 DEF OnlyBlk, SameBat
<1> QED BY <1>2, <1>3

LEMMA SignalEffect ==
  ASSUME NEW s \in VhdState, NEW R, NEW e \in Errors, NEW t, R \subseteq Reqs,
         t = signal_completion(s, R, e)
  PROVE  /\ t \in VhdState
         /\ SameBat(s, t) /\ t.up = s.up /\ t.prealloc = s.prealloc /\ t.cached = s.cached
         /\ t.aio = s.aio /\ t.bm = s.bm /\ t.batmap = s.batmap
         /\ t.vfree = s.vfree + Cardinality(R)
         /\ \A r \in Reqs :
              /\ r \in R => /\ t.req[r].st = "done" /\ t.req[r].sec = s.req[r].sec
                            /\ t.req[r].op = s.req[r].op /\ t.req[r].val = s.req[r].val
                            /\ t.req[r].err = IF e # "ok" THEN e ELSE s.req[r].err
              /\ r \notin R => t.req[r] = s.req[r]
<1>1. t \in VhdState
  BY SignalType
<1>2. /\ SameBat(s, t) /\ t.up = s.up /\ t.prealloc = s.prealloc /\ t.cached = s.cached
      /\ t.aio = s.aio /\ t.bm = s.bm /\ t.batmap = s.batmap
      /\ t.vfree = s.vfree + Cardinality(R)
      /\ t.req = [r \in Reqs |->
              IF r \in R
              THEN [s.req[r] EXCEPT !.st = "done", !.err = IF e # "ok" THEN e ELSE @]
              ELSE s.req[r]]
  BY DEF signal_completion, VhdState, SameBat
<1>3. ASSUME NEW r \in Reqs, r \in R
      PROVE  /\ t.req[r].st = "done" /\ t.req[r].sec = s.req[r].sec
             /\ t.req[r].op = s.req[r].op /\ t.req[r].val = s.req[r].val
             /\ t.req[r].err = IF e # "ok" THEN e ELSE s.req[r].err
  <2>1. t.req[r] = [s.req[r] EXCEPT !.st = "done", !.err = IF e # "ok" THEN e ELSE @]
        /\ s.req[r] \in Request
    BY <1>2, <1>3, ReqField
  <2> QED BY ONLY <2>1 DEF Request
<1>4. \A r \in Reqs : r \notin R => t.req[r] = s.req[r]
  BY <1>2
<1> QED BY <1>1, <1>2, <1>3, <1>4

LEMMA EndEffect ==
  ASSUME NEW s \in VhdState, NEW b \in Blocks
  PROVE  Ends(s, end_transaction(s, b), b) /\ end_transaction(s, b) \in VhdState
<1> DEFINE R == s.bm[b].tx.reqs \cap Reqs
           e == s.bm[b].tx.err
           c == commit_or_undo(s, b)
           u == signal_completion(c, R, e)
           t == with_tx(u, b, init_tx)
<1>1. t = end_transaction(s, b)
  BY DEF end_transaction
<1>2. e \in Errors /\ init_tx \in Tx
  BY BmField, TxTypes DEF Bitmap, Tx
<1>3. /\ c \in VhdState
      /\ SameBat(s, c) /\ c.up = s.up /\ c.prealloc = s.prealloc /\ c.cached = s.cached
      /\ c.aio = s.aio /\ c.req = s.req /\ c.vfree = s.vfree
      /\ \A x \in Blocks : x # b => c.bm[x] = s.bm[x]
      /\ c.batmap = IF e = "ok" /\ s.bm[b].shadow = Secs THEN s.batmap \cup {b} ELSE s.batmap
      /\ c.bm[b].locked = s.bm[b].locked /\ c.bm[b].rd = s.bm[b].rd /\ c.bm[b].wr = s.bm[b].wr
      /\ c.bm[b].queue = s.bm[b].queue /\ c.bm[b].waiting = s.bm[b].waiting
      /\ c.bm[b].map = IF e = "ok" THEN s.bm[b].shadow ELSE s.bm[b].map
      /\ c.bm[b].shadow = c.bm[b].map
  BY CommitEffect
<1> HIDE DEF c, e
<1>4. /\ u \in VhdState
      /\ SameBat(c, u) /\ u.up = c.up /\ u.prealloc = c.prealloc /\ u.cached = c.cached
      /\ u.aio = c.aio /\ u.bm = c.bm /\ u.batmap = c.batmap
      /\ u.vfree = c.vfree + Cardinality(R)
      /\ \A r \in Reqs :
           /\ r \in R => /\ u.req[r].st = "done" /\ u.req[r].sec = c.req[r].sec
                         /\ u.req[r].op = c.req[r].op /\ u.req[r].val = c.req[r].val
                         /\ u.req[r].err = IF e # "ok" THEN e ELSE c.req[r].err
           /\ r \notin R => u.req[r] = c.req[r]
  <2>1. R \subseteq Reqs
    OBVIOUS
  <2>2. u = signal_completion(c, R, e)
    OBVIOUS
  <2> HIDE DEF R, u
  <2> QED BY <1>2, <1>3, <2>1, <2>2, SignalEffect
<1> HIDE DEF u
<1>5. /\ t \in VhdState /\ OnlyBlk(u, t, b) /\ t.req = u.req /\ t.vfree = u.vfree /\ t.aio = u.aio
      /\ t.bm[b].tx = init_tx /\ t.bm[b].locked = u.bm[b].locked /\ t.bm[b].rd = u.bm[b].rd
      /\ t.bm[b].wr = u.bm[b].wr /\ t.bm[b].map = u.bm[b].map /\ t.bm[b].shadow = u.bm[b].shadow
      /\ t.bm[b].queue = u.bm[b].queue /\ t.bm[b].waiting = u.bm[b].waiting
  BY <1>2, <1>4, WithTx
<1> HIDE DEF t, R
<1>6. SameBat(s, t) /\ t.up = s.up /\ t.prealloc = s.prealloc /\ t.cached = s.cached
      /\ t.aio = s.aio /\ (\A x \in Blocks : x # b => t.bm[x] = s.bm[x])
      /\ t.batmap = c.batmap
  BY <1>3, <1>4, <1>5 DEF OnlyBlk, SameBat
<1>7. Ends(s, t, b)
  <2>1. /\ t.bm[b].locked = s.bm[b].locked /\ t.bm[b].rd = s.bm[b].rd /\ t.bm[b].wr = s.bm[b].wr
        /\ t.bm[b].queue = s.bm[b].queue /\ t.bm[b].waiting = s.bm[b].waiting
        /\ t.bm[b].tx = init_tx /\ t.bm[b].shadow = t.bm[b].map
        /\ t.bm[b].map = IF e = "ok" THEN s.bm[b].shadow ELSE s.bm[b].map
    BY ONLY <1>3, <1>4, <1>5
  <2>2. /\ t.vfree = s.vfree + Cardinality(R)
        /\ t.batmap = IF e = "ok" /\ s.bm[b].shadow = Secs THEN s.batmap \cup {b} ELSE s.batmap
    BY ONLY <1>3, <1>4, <1>5, <1>6
  <2>3. \A r \in Reqs :
           /\ r \in R => /\ t.req[r].st = "done" /\ t.req[r].sec = s.req[r].sec
                         /\ t.req[r].op = s.req[r].op /\ t.req[r].val = s.req[r].val
                         /\ t.req[r].err = IF e # "ok" THEN e ELSE s.req[r].err
           /\ r \notin R => t.req[r] = s.req[r]
    BY ONLY <1>3, <1>4, <1>5
  <2> QED BY ONLY <1>6, <2>1, <2>2, <2>3, Zenon DEF Ends, R, e
<1> QED BY <1>1, <1>5, <1>7

LEMMA CompletedTx ==
  ASSUME NEW s, NEW b \in Blocks, NEW k, Driver(s, NoReq, k)
  PROVE  transaction_completed(s.bm[b].tx) <=> txios(s, b) = {}
<1>1. s \in VhdState /\ TxOK(s, b) /\ IsFiniteSet(s.aio)
  BY DEF Driver, CountOK
<1>2. IsFiniteSet(txios(s, b))
  BY <1>1, FS_Subset DEF txios
<1>3. s.bm[b].tx.started \in Nat /\ s.bm[b].tx.finished \in Nat
  BY <1>1, BmField DEF Bitmap, Tx
<1>4. Cardinality(txios(s, b)) = 0 <=> txios(s, b) = {}
  BY <1>2, FS_EmptySet
<1> QED BY <1>1, <1>2, <1>3, <1>4, FS_CardinalityType DEF TxOK, transaction_completed

(* When a handler has nothing more to do for a block.                       *)
LEMMA Rests ==
  ASSUME NEW s, NEW b \in Blocks, Driver(s, NoReq, NoBlock), NoAlloc(s, b)
  PROVE  /\ Driver(s, NoReq, b)
         /\ s.bm[b].queue # {} => s.bm[b].tx.closed
         /\ s.bm[b].tx.live => txios(s, b) # {} \/ s.bm[b].wr
<1>1. Driver(s, NoReq, b) /\ Settles(s, b)
  BY Weaken
<1>2. ~s.bm[b].tx.upd
  BY DEF Driver, BlkOK, NoAlloc
<1> QED BY <1>1, <1>2 DEF Settles

LEMMA StartNewDriver ==
  ASSUME NEW s, NEW b \in Blocks, NEW u, Driver(s, NoReq, b),
         s.bm[b].tx = init_tx, ~s.bm[b].wr, NoAlloc(s, b),
         u = start_new_bitmap_transaction(s, b)
  PROVE  /\ Driver(u, NoReq, b) /\ NoAlloc(u, b)
         /\ u.bm[b].queue # {} => u.bm[b].tx.closed
         /\ u.bm[b].tx.live => txios(u, b) # {} \/ u.bm[b].wr
<1> DEFINE p == promote_queue(s, b)
           c == close_tx(p, b)
<1>1. s \in VhdState
  BY DEF Driver
<1>2. CASE s.bm[b].queue = {}
  <2>1. u = s
    BY <1>2 DEF start_new_bitmap_transaction
  <2> QED BY <2>1, <1>2, InitBm
<1>3. CASE s.bm[b].queue # {}
  <2>1. Promotes(s, p, b) /\ p \in VhdState
    BY <1>1, PromoteEffect
  <2>2. u = IF ~transaction_completed(p.bm[b].tx) THEN p
            ELSE IF bitmap_write_needed(c, b) THEN schedule_bitmap_write(c, b)
            ELSE release(end_transaction(c, b), b)
    BY <1>3 DEF start_new_bitmap_transaction
  <2>3. p.bm[b].tx.err # "EBUSY" => Marks(p, c, b) /\ c.bm[b].tx.closed /\ c \in VhdState
    BY <2>1, CloseMarks
  <2> HIDE DEF p, c
  <2>4. Driver(p, NoReq, b) /\ NoAlloc(p, b)
    BY <1>3, <2>1, PromoteDriver
  <2>5. /\ p.bm[b].queue = {} /\ p.bm[b].tx.live /\ ~p.bm[b].tx.upd /\ ~p.bm[b].wr
        /\ p.bm[b].tx.err # "EBUSY"
    <3>1. p.bm[b].tx.err # "EBUSY"
      BY <2>4 DEF Driver, BlkOK
    <3> QED BY <2>1, <3>1, InitBm DEF Promotes
  <2>6. CASE ~transaction_completed(p.bm[b].tx)
    BY <2>2, <2>4, <2>5, <2>6, CompletedTx
  <2>7. CASE transaction_completed(p.bm[b].tx)
    <3>1. txios(p, b) = {}
      BY <2>4, <2>7, CompletedTx
    <3>2. Driver(c, NoReq, b) /\ txios(c, b) = {} /\ NoAlloc(c, b)
      BY <2>3, <2>4, <2>5, <3>1, MarkDriver DEF NoAlloc
    <3>3. /\ c.bm[b].queue = {} /\ c.bm[b].tx.live /\ ~c.bm[b].tx.upd /\ ~c.bm[b].wr
          /\ c.bm[b].tx.closed /\ c \in VhdState
      BY <2>3, <2>5 DEF Marks
    <3>4. CASE bitmap_write_needed(c, b)
      <4>1. u = schedule_bitmap_write(c, b)
        BY <2>2, <2>7, <3>4
      <4>2. WritesBitmap(c, u, b) /\ u \in VhdState
        BY <4>1, <3>3, WritesBitmapEffect
      <4>3. c.bm[b].map # c.bm[b].shadow
        BY <3>4 DEF bitmap_write_needed
      <4>4. Driver(u, NoReq, b) /\ Settles(u, b) /\ NoAlloc(u, b)
        BY <3>2, <3>3, <4>2, <4>3, WritesBitmapDriver
      <4>5. u.bm[b].wr
        BY <4>2 DEF WritesBitmap
      <4> QED BY <4>4, <4>5 DEF Settles
    <3>5. CASE ~bitmap_write_needed(c, b)
      <4> DEFINE e == end_transaction(c, b)
      <4>1. u = release(e, b)
        BY <2>2, <2>7, <3>5
      <4>2. Ends(c, e, b) /\ e \in VhdState
        BY <3>3, EndEffect
      <4> HIDE DEF e
      <4>3. Driver(e, NoReq, b) /\ NoAlloc(e, b) /\ e.bm[b].tx = init_tx /\ ~e.bm[b].wr
        BY <3>2, <3>3, <4>2, EndDriver DEF Ready
      <4>4. Driver(u, NoReq, NoBlock) /\ NoAlloc(u, b)
        <5>1. e.bm[b].queue = {}
          BY <3>3, <4>2 DEF Ends
        <5> QED BY <4>1, <4>3, <5>1, InitBm, ReleaseDriver
      <4> QED BY <4>4, Rests
    <3> QED BY <3>4, <3>5
  <2> QED BY <2>6, <2>7
<1> QED BY <1>2, <1>3

(* finish_bitmap_transaction.                                               *)
LEMMA FinishBitmapTxDriver ==
  ASSUME NEW s, NEW b \in Blocks, NEW e \in {"ok", "EIO"}, NEW u, Driver(s, NoReq, b), Ready(s, b),
         u = finish_bitmap_transaction(s, b, e)
  PROVE  Driver(u, NoReq, NoBlock) /\ (NoAlloc(s, b) => NoAlloc(u, b))
<1> DEFINE t == with_tx(s, b, failed(s.bm[b].tx, e))
           f == end_transaction(t, b)
           g == start_new_bitmap_transaction(f, b)
<1>1. s \in VhdState /\ s.bm[b].tx.err # "EBUSY"
  BY DEF Driver, BlkOK
<1>2. t \in VhdState /\ Marks(s, t, b)
  BY <1>1, FailMarks
<1>3. u = IF ~t.prealloc /\ t.bm[b].tx.upd THEN [t EXCEPT !.bat_tx = TRUE] ELSE release(g, b)
  BY DEF finish_bitmap_transaction
<1>4. Ends(t, f, b) /\ f \in VhdState
  BY <1>2, EndEffect
<1>5. g = start_new_bitmap_transaction(f, b)
  OBVIOUS
<1> HIDE DEF t, f, g
<1>6. Driver(t, NoReq, b) /\ txios(t, b) = {} /\ (NoAlloc(s, b) => NoAlloc(t, b))
  BY <1>2, MarkDriver DEF NoAlloc, Ready
<1>7. Ready(t, b)
  BY <1>2, <1>6 DEF Ready, Marks
<1>8. CASE ~t.prealloc /\ t.bm[b].tx.upd
  <2>1. u = [t EXCEPT !.bat_tx = TRUE]
    BY <1>3, <1>8
  <2>2. Driver(u, NoReq, NoBlock)
    BY <1>6, <1>7, <1>8, <2>1, BatTxDriver DEF Ready
  <2>3. u.aio = t.aio
    BY <1>2, <2>1 DEF VhdState
  <2> QED BY <1>6, <2>2, <2>3 DEF NoAlloc, HasIO
<1>9. CASE ~(~t.prealloc /\ t.bm[b].tx.upd)
  <2>1. u = release(g, b)
    BY <1>3, <1>9
  <2>2. ~t.bm[b].tx.upd
    BY <1>6, <1>9 DEF Driver, BlkOK
  <2>3. Driver(f, NoReq, b) /\ NoAlloc(f, b) /\ f.bm[b].tx = init_tx /\ ~f.bm[b].wr
    BY <1>4, <1>6, <1>7, <2>2, EndDriver
  <2>4. /\ Driver(g, NoReq, b) /\ NoAlloc(g, b)
        /\ g.bm[b].queue # {} => g.bm[b].tx.closed
        /\ g.bm[b].tx.live => txios(g, b) # {} \/ g.bm[b].wr
    BY <1>5, <2>3, StartNewDriver
  <2> QED BY <2>1, <2>4, ReleaseDriver
<1> QED BY <1>8, <1>9

(* finish_data_transaction, once a transaction has nothing in flight.       *)
LEMMA FinishIfCompletedDriver ==
  ASSUME NEW s, NEW b \in Blocks, NEW u, Driver(s, NoReq, b), s.bm[b].tx.live, ~s.bm[b].wr,
         ~(s.bm[b].tx.upd /\ s.bat_tx), s.bm[b].queue # {} => s.bm[b].tx.closed,
         u = finish_if_completed(s, b)
  PROVE  /\ Driver(u, NoReq, b) /\ Settles(u, b)
         /\ NoAlloc(s, b) => NoAlloc(u, b)
         /\ BatOK(s, NoBlock) => BatOK(u, NoBlock)
<1>1. s \in VhdState /\ s.bm[b].tx.err # "EBUSY" /\ BlkOK(s, b, b)
  BY DEF Driver, BlkOK
<1>2. CASE ~transaction_completed(s.bm[b].tx)
  <2>1. u = s
    BY <1>2 DEF finish_if_completed
  <2>2. PICK i \in txios(s, b) : TRUE
    BY <1>2, CompletedTx
  <2>3. i \in s.aio /\ TxIO(s, b, i) /\ IoOK(s, i)
    BY <2>2 DEF txios, Driver
  <2>4. s.bm[b].tx.upd \/ s.bm[b].tx.reqs # {}
    BY <2>3 DEF TxIO, IoOK
  <2>5. Settles(s, b)
    BY <2>2, <2>4 DEF Settles, bitmap_in_use
  <2> QED BY <2>1, <2>5
<1>3. CASE transaction_completed(s.bm[b].tx)
  <2> DEFINE c == close_tx(s, b)
  <2>1. u = IF bitmap_write_needed(c, b) THEN schedule_bitmap_write(c, b)
            ELSE finish_bitmap_transaction(c, b, "ok")
    BY <1>3 DEF finish_if_completed, finish_data_transaction
  <2>2. Marks(s, c, b) /\ c.bm[b].tx.closed /\ c \in VhdState
    BY <1>1, CloseMarks
  <2> HIDE DEF c
  <2>3. txios(s, b) = {}
    BY <1>3, CompletedTx
  <2>4. Driver(c, NoReq, b) /\ txios(c, b) = {} /\ (NoAlloc(s, b) => NoAlloc(c, b))
        /\ \A x, op : HasIO(c, x, op) <=> HasIO(s, x, op)
    BY <2>2, <2>3, MarkDriver DEF NoAlloc
  <2>5. c.bm[b].tx.live /\ ~c.bm[b].wr /\ c.bm[b].tx.closed /\ ~(c.bm[b].tx.upd /\ c.bat_tx)
    BY <2>2 DEF Marks, OnlyBlk, SameBat
  <2>6. CASE bitmap_write_needed(c, b)
    <3>1. u = schedule_bitmap_write(c, b)
      BY <2>1, <2>6
    <3>2. WritesBitmap(c, u, b) /\ u \in VhdState
      BY <3>1, <2>2, WritesBitmapEffect
    <3>3. c.bm[b].map # c.bm[b].shadow
      BY <2>6 DEF bitmap_write_needed
    <3>4. /\ Driver(u, NoReq, b) /\ Settles(u, b)
          /\ NoAlloc(c, b) => NoAlloc(u, b)
          /\ BatOK(c, NoBlock) => BatOK(u, NoBlock)
      BY <2>4, <2>5, <3>2, <3>3, WritesBitmapDriver
    <3>5. BatOK(s, NoBlock) => BatOK(c, NoBlock)
      <4>1. SameBat(s, c)
        BY <2>2 DEF Marks, OnlyBlk
      <4>2. \A x \in Blocks : /\ c.bm[x].tx.live = s.bm[x].tx.live
                              /\ s.bm[x].tx.err # "ok" => c.bm[x].tx.err # "ok"
                              /\ s.bm[x].tx.closed => c.bm[x].tx.closed
        BY <2>2 DEF Marks, OnlyBlk
      <4>3. s.pbw_blk \in Blocks
        BY <1>1 DEF VhdState
      <4> QED BY <2>4, <4>1, <4>2, <4>3, BatFrame
    <3> QED BY <2>4, <3>4, <3>5
  <2>7. CASE ~bitmap_write_needed(c, b)
    <3>1. u = finish_bitmap_transaction(c, b, "ok")
      BY <2>1, <2>7
    <3>2. Driver(u, NoReq, NoBlock) /\ (NoAlloc(c, b) => NoAlloc(u, b))
      BY <2>4, <2>5, <3>1, FinishBitmapTxDriver DEF Ready
    <3> QED BY <2>4, <3>2, Weaken
  <2> QED BY <2>6, <2>7
<1> QED BY <1>2, <1>3

-----------------------------------------------------------------------------
(* The handlers of finished I/O.                                            *)

Taken(s, a, io) ==
  /\ a \in VhdState /\ SameBat(s, a) /\ a.up = s.up /\ a.prealloc = s.prealloc
  /\ a.batmap = s.batmap /\ a.cached = s.cached /\ a.bm = s.bm /\ a.req = s.req
  /\ a.vfree = s.vfree /\ a.aio = s.aio \ {io}

LEMMA TakeIO ==
  ASSUME NEW s \in VhdState, NEW io
  PROVE  Taken(s, [s EXCEPT !.aio = @ \ {io}], io)
<1>1. s.aio \ {io} \in SUBSET Tiocb
  BY DEF VhdState
<1>2. [s EXCEPT !.aio = @ \ {io}] \in VhdState
  BY <1>1, AddAio
<1> QED BY <1>2 DEF VhdState, SameBat, Taken

signal_one(s, r, e) == signal_completion(s, {r}, e)

LEMMA SignalOne ==
  ASSUME NEW s \in VhdState, NEW r \in Reqs, NEW e \in Errors, NEW t,
         t = signal_one(s, r, e)
  PROVE  /\ t \in VhdState
         /\ SameBat(s, t) /\ t.up = s.up /\ t.prealloc = s.prealloc /\ t.cached = s.cached
         /\ t.aio = s.aio /\ t.bm = s.bm /\ t.batmap = s.batmap
         /\ t.vfree = s.vfree + 1
         /\ t.req[r].st = "done" /\ t.req[r].sec = s.req[r].sec
         /\ t.req[r].op = s.req[r].op /\ t.req[r].val = s.req[r].val
         /\ t.req[r].err = (IF e # "ok" THEN e ELSE s.req[r].err)
         /\ \A q \in Reqs : q # r => t.req[q] = s.req[q]
<1> DEFINE R == {r}
<1>1. R \subseteq Reqs /\ Cardinality(R) = 1 /\ r \in R /\ (\A q : q # r => q \notin R)
      /\ t = signal_completion(s, R, e)
  BY FS_Singleton DEF signal_one
<1> HIDE DEF R
<1>2. /\ t \in VhdState
         /\ SameBat(s, t) /\ t.up = s.up /\ t.prealloc = s.prealloc /\ t.cached = s.cached
         /\ t.aio = s.aio /\ t.bm = s.bm /\ t.batmap = s.batmap
         /\ t.vfree = s.vfree + Cardinality(R)
  BY <1>1, SignalEffect
<1>3. ASSUME NEW q \in Reqs
      PROVE  /\ q \in R => /\ t.req[q].st = "done" /\ t.req[q].sec = s.req[q].sec
                           /\ t.req[q].op = s.req[q].op /\ t.req[q].val = s.req[q].val
                           /\ t.req[q].err = IF e # "ok" THEN e ELSE s.req[q].err
             /\ q \notin R => t.req[q] = s.req[q]
  BY <1>1, SignalEffect
<1> QED BY <1>1, <1>2, <1>3

(* The request of a data write, once it is over.                            *)
finish_req(s, r, e) == with_req(s, r, [s.req[r] EXCEPT !.st = "finished", !.err = e])

LEMMA FinishReq ==
  ASSUME NEW s \in VhdState, NEW r \in Reqs, NEW e \in Errors, NEW t,
         t = finish_req(s, r, e)
  PROVE  /\ t \in VhdState /\ OnlyReq(s, t, r) /\ t.vfree = s.vfree
         /\ t.req[r].st = "finished" /\ t.req[r].err = e /\ t.req[r].sec = s.req[r].sec
         /\ t.req[r].op = s.req[r].op /\ t.req[r].val = s.req[r].val
<1> DEFINE q == [s.req[r] EXCEPT !.st = "finished", !.err = e]
<1>1. s.req[r] \in Request
  BY ReqField
<1>2. q \in Request
  BY <1>1 DEF Request
<1>3. q.st = "finished" /\ q.err = e /\ q.sec = s.req[r].sec /\ q.op = s.req[r].op /\ q.val = s.req[r].val
  BY <1>1 DEF Request
<1> HIDE DEF q
<1>4. t = with_req(s, r, q)
  BY DEF q, finish_req
<1> QED BY <1>2, <1>3, <1>4, WithReq, UpdReq

(* A write is finished: its state, and the transaction's account of it.     *)
Finishes(s, t, io, e) ==
  LET r == io.req
  IN  /\ t \in VhdState /\ SameBat(s, t) /\ t.up = s.up /\ t.prealloc = s.prealloc
      /\ t.batmap = s.batmap /\ t.cached = s.cached /\ t.bm = s.bm /\ t.aio = s.aio \ {io}
      /\ t.vfree = s.vfree /\ t.req[r].st = "finished" /\ t.req[r].err = e
      /\ t.req[r].sec = s.req[r].sec /\ t.req[r].op = s.req[r].op
      /\ t.req[r].val = s.req[r].val
      /\ \A q \in Reqs : q # r => t.req[q] = s.req[q]

tally(t, b, x, e) ==
  with_bm(t, b, [t.bm[b] EXCEPT !.tx = finished(@, {}),
                                !.shadow = IF e = "ok" THEN @ \cup {x} ELSE @])

LEMMA TallyEffect ==
  ASSUME NEW t \in VhdState, NEW b \in Blocks, NEW x \in Secs, NEW e, NEW u, u = tally(t, b, x, e)
  PROVE  /\ OnlyBlk(t, u, b) /\ u.req = t.req /\ u.vfree = t.vfree /\ u.aio = t.aio
         /\ u \in VhdState
         /\ u.bm[b].locked = t.bm[b].locked /\ u.bm[b].rd = t.bm[b].rd /\ u.bm[b].wr = t.bm[b].wr
         /\ u.bm[b].map = t.bm[b].map /\ u.bm[b].waiting = t.bm[b].waiting
         /\ u.bm[b].queue = t.bm[b].queue
         /\ u.bm[b].tx = counted(t.bm[b].tx)
         /\ u.bm[b].shadow = IF e = "ok" THEN t.bm[b].shadow \cup {x} ELSE t.bm[b].shadow
<1> DEFINE m == t.bm[b]
           n == [m EXCEPT !.tx = finished(@, {}),
                          !.shadow = IF e = "ok" THEN @ \cup {x} ELSE @]
<1>1. m \in Bitmap /\ m.tx \in Tx
  BY BmField
<1>2. u = with_bm(t, b, n)
  BY DEF tally
<1>3. finished(m.tx, {}) \in Tx /\ finished(m.tx, {}) = counted(m.tx)
  <2>1. m.tx.reqs \ {} = m.tx.reqs
    OBVIOUS
  <2>2. finished(m.tx, {}) = counted(m.tx)
    BY <1>1, <2>1 DEF finished, counted, Tx
  <2> QED BY <1>1, <2>2, FinishedType
<1> HIDE DEF m
<1>4. n \in Bitmap
  BY <1>1, <1>3 DEF Bitmap
<1>5. /\ n.locked = m.locked /\ n.rd = m.rd /\ n.wr = m.wr /\ n.map = m.map
      /\ n.waiting = m.waiting /\ n.queue = m.queue
      /\ n.tx = finished(m.tx, {})
      /\ n.shadow = IF e = "ok" THEN m.shadow \cup {x} ELSE m.shadow
  BY <1>1 DEF Bitmap
<1> HIDE DEF n
<1>6. /\ OnlyBlk(t, u, b) /\ u.bm[b] = n /\ u.req = t.req /\ u.vfree = t.vfree /\ u.aio = t.aio
      /\ u \in VhdState
  BY <1>2, <1>4, WithBm, UpdBm
<1> QED BY <1>3, <1>5, <1>6 DEF m

LEMMA UnlockEffect ==
  ASSUME NEW s \in VhdState, NEW b \in Blocks, NEW t, t = unlock_if_unused(s, b)
  PROVE  /\ t \in VhdState /\ OnlyBlk(s, t, b) /\ t.req = s.req /\ t.aio = s.aio /\ t.vfree = s.vfree
         /\ t.bm[b].tx = s.bm[b].tx /\ t.bm[b].queue = s.bm[b].queue /\ t.bm[b].wr = s.bm[b].wr
         /\ t.bm[b].rd = s.bm[b].rd /\ t.bm[b].map = s.bm[b].map /\ t.bm[b].shadow = s.bm[b].shadow
         /\ t.bm[b].waiting = s.bm[b].waiting
         /\ t.bm[b].locked <=> s.bm[b].locked /\ bitmap_in_use(s.bm[b])
<1> DEFINE m == s.bm[b]
           n == [m EXCEPT !.locked = @ /\ bitmap_in_use(m)]
<1>1. t \in VhdState /\ m \in Bitmap /\ t = with_bm(s, b, n)
  BY LockType, BmField DEF unlock_if_unused
<1>2. OnlyBlk(s, t, b) /\ t.bm[b] = n /\ t.req = s.req /\ t.vfree = s.vfree /\ t.aio = s.aio
  BY <1>1, WithBm
<1>3. /\ n.rd = m.rd /\ n.wr = m.wr /\ n.map = m.map /\ n.shadow = m.shadow
      /\ n.queue = m.queue /\ n.waiting = m.waiting /\ n.tx = m.tx
      /\ n.locked = (m.locked /\ bitmap_in_use(m))
  BY <1>1 DEF Bitmap
<1> QED BY <1>1, <1>2, <1>3

(* The requests that waited for a bitmap go on.                             *)
read_over(s, b) == with_bm(s, b, [s.bm[b] EXCEPT !.waiting = {}, !.rd = FALSE, !.shadow = s.bm[b].map])

LEMMA ReadOverEffect ==
  ASSUME NEW s \in VhdState, NEW b \in Blocks, NEW t, t = read_over(s, b)
  PROVE  /\ t \in VhdState /\ OnlyBlk(s, t, b) /\ t.req = s.req /\ t.aio = s.aio /\ t.vfree = s.vfree
         /\ t.bm[b].tx = s.bm[b].tx /\ t.bm[b].queue = s.bm[b].queue /\ t.bm[b].wr = s.bm[b].wr
         /\ ~t.bm[b].rd /\ t.bm[b].map = s.bm[b].map /\ t.bm[b].shadow = s.bm[b].map
         /\ t.bm[b].waiting = {} /\ t.bm[b].locked = s.bm[b].locked
<1> DEFINE m == s.bm[b]
           n == [m EXCEPT !.waiting = {}, !.rd = FALSE, !.shadow = m.map]
<1>1. m \in Bitmap /\ t = with_bm(s, b, n)
  BY BmField DEF read_over
<1>2. n \in Bitmap
  BY <1>1 DEF Bitmap
<1>3. /\ ~n.rd /\ n.wr = m.wr /\ n.map = m.map /\ n.shadow = m.map
      /\ n.queue = m.queue /\ n.waiting = {} /\ n.tx = m.tx /\ n.locked = m.locked
  BY <1>1 DEF Bitmap
<1> HIDE DEF n
<1>4. OnlyBlk(s, t, b) /\ t.bm[b] = n /\ t.req = s.req /\ t.vfree = s.vfree /\ t.aio = s.aio
      /\ t \in VhdState
  BY <1>1, <1>2, WithBm, UpdBm
<1> QED BY <1>3, <1>4

Fwd(s, b, R) == {r \in R : sec_of(s.req[r].sec) \notin s.bm[b].map /\ s.req[r].op = "read"}
Upd(s, b, R) == {r \in R : sec_of(s.req[r].sec) \notin s.bm[b].map /\ s.req[r].op = "write"}
Renewed(s, b, R) == {requeued_io(s, b, r) : r \in R \ Fwd(s, b, R)}

LEMMA RequeueEffect ==
  ASSUME NEW s \in VhdState, NEW b \in Blocks, NEW R, NEW q, R \subseteq Reqs, q = requeue(s, b, R),
         NEW F, NEW U, NEW J, F = Fwd(s, b, R), U = Upd(s, b, R), J = joined(s.bm[b].tx, U)
  PROVE  /\ OnlyBlk(s, q, b)
         /\ q.bm[b].tx = (IF U = {} THEN s.bm[b].tx ELSE J)
         /\ q.bm[b].queue = s.bm[b].queue /\ q.bm[b].wr = s.bm[b].wr
         /\ q.bm[b].rd = s.bm[b].rd /\ q.bm[b].map = s.bm[b].map /\ q.bm[b].shadow = s.bm[b].shadow
         /\ q.bm[b].waiting = s.bm[b].waiting /\ q.bm[b].locked = s.bm[b].locked
         /\ q.vfree = s.vfree + Cardinality(F)
         /\ q.aio = s.aio \cup Renewed(s, b, R)
         /\ \A r \in Reqs :
              /\ r \in F => q.req[r] = forwarded(s.req[r])
              /\ r \in R \ F => q.req[r] = restarted(s.req[r])
              /\ r \notin R => q.req[r] = s.req[r]
<1> DEFINE t == IF U = {} THEN s ELSE with_tx(s, b, J)
           rq == [r \in Reqs |->
            IF r \in F THEN forwarded(s.req[r])
            ELSE IF r \in R THEN restarted(s.req[r]) ELSE s.req[r]]
           A == Renewed(s, b, R)
<1>1. q = [t EXCEPT !.vfree = @ + Cardinality(F), !.mru = IF R = {} THEN @ ELSE b,
                    !.req = rq, !.aio = @ \cup A]
  <2> DEFINE clear == {r \in R : sec_of(s.req[r].sec) \notin s.bm[b].map}
  <2>1. F = {r \in clear : s.req[r].op = "read"} /\ U = {r \in clear : s.req[r].op = "write"}
    BY DEF Fwd, Upd
  <2> QED BY <2>1 DEF requeue, Renewed, Fwd, forwarded, restarted
<1>2. F \subseteq R /\ U \subseteq Reqs
  BY DEF Fwd, Upd
<1>3. s.bm[b].tx \in Tx
  BY BmField
<1>4. J \in Tx
  <2>1. Cardinality(U) \in Nat /\ U \in SUBSET (Reqs \cup MetaReqs)
    BY <1>2, FiniteReqs
  <2> QED BY <1>3, <2>1, JoinedType
<1>5. /\ t \in VhdState /\ OnlyBlk(s, t, b) /\ t.req = s.req /\ t.vfree = s.vfree /\ t.aio = s.aio
      /\ t.bm[b].tx = (IF U = {} THEN s.bm[b].tx ELSE J)
      /\ t.bm[b].locked = s.bm[b].locked /\ t.bm[b].rd = s.bm[b].rd
      /\ t.bm[b].wr = s.bm[b].wr /\ t.bm[b].map = s.bm[b].map /\ t.bm[b].shadow = s.bm[b].shadow
      /\ t.bm[b].queue = s.bm[b].queue /\ t.bm[b].waiting = s.bm[b].waiting
  <2>1. CASE U = {}
    BY <2>1 DEF OnlyBlk, SameBat
  <2>2. CASE U # {}
    <3>1. t = with_tx(s, b, J)
      BY <2>2
    <3> HIDE DEF t
    <3>3. /\ t \in VhdState /\ OnlyBlk(s, t, b) /\ t.req = s.req /\ t.vfree = s.vfree /\ t.aio = s.aio
          /\ t.bm[b].tx = J /\ t.bm[b].locked = s.bm[b].locked /\ t.bm[b].rd = s.bm[b].rd
          /\ t.bm[b].wr = s.bm[b].wr /\ t.bm[b].map = s.bm[b].map /\ t.bm[b].shadow = s.bm[b].shadow
          /\ t.bm[b].queue = s.bm[b].queue /\ t.bm[b].waiting = s.bm[b].waiting
      BY <1>4, <3>1, WithTx
    <3> QED BY <2>2, <3>3
  <2> QED BY <2>1, <2>2
<1> HIDE DEF t, rq, A
<1>6. /\ SameBat(t, q) /\ q.up = t.up /\ q.prealloc = t.prealloc /\ q.batmap = t.batmap
      /\ q.cached = t.cached /\ q.bm = t.bm /\ q.vfree = t.vfree + Cardinality(F)
      /\ q.req = rq /\ q.aio = t.aio \cup A
  <2>1. t \in VhdState
    BY <1>5
  <2> QED BY ONLY <1>1, <2>1 DEF SameBat, VhdState
<1>7. OnlyBlk(s, q, b)
  BY <1>5, <1>6 DEF OnlyBlk, SameBat
<1>8. ASSUME NEW r \in Reqs
      PROVE  /\ r \in F => q.req[r] = forwarded(s.req[r])
             /\ r \in R \ F => q.req[r] = restarted(s.req[r])
             /\ r \notin R => q.req[r] = s.req[r]
  <2>1. q.req[r] = IF r \in F THEN forwarded(s.req[r])
            ELSE IF r \in R THEN restarted(s.req[r]) ELSE s.req[r]
    BY <1>6 DEF rq
  <2> QED BY ONLY <2>1, <1>2
<1> QED BY <1>5, <1>6, <1>7, <1>8 DEF A

LEMMA BitmapReadOver ==
  ASSUME NEW s, NEW io \in s.aio, NEW a, NEW u, NEW b,
         Driver(s, NoReq, NoBlock), io.op = "bitmap_read", b = io.blk, waiters_requeuable(s, b),
         Taken(s, a, io), u = finish_bitmap_read(a, b, "ok")
  PROVE  Driver(u, NoReq, NoBlock) /\ Requeues(s, u, b, io) /\ u \in VhdState
<1> DEFINE t == read_over(a, b)
           R == s.bm[b].waiting
           q == requeue(t, b, R)
           F == ToForward(s, b)
           U == ToUpdate(s, b)
<1>1. s \in VhdState /\ b \in Blocks /\ IoOK(s, io) /\ s.bm[b] \in Bitmap /\ BlkOK(s, b, NoBlock)
  BY IoField, BmField DEF Driver
<1>2. /\ a \in VhdState /\ SameBat(s, a) /\ a.up = s.up /\ a.prealloc = s.prealloc
      /\ a.batmap = s.batmap /\ a.cached = s.cached /\ a.bm = s.bm /\ a.req = s.req
      /\ a.vfree = s.vfree /\ a.aio = s.aio \ {io}
  BY DEF Taken
<1>3. /\ s.bm[b].rd /\ s.bm[b].tx = init_tx /\ s.bm[b].queue = {} /\ ~s.bm[b].wr /\ s.bm[b].locked
  <2>1. s.bm[b].rd
    BY <1>1 DEF IoOK
  <2> QED BY <1>1, <2>1 DEF BlkOK, bitmap_in_use
<1>4. u = unlock_if_unused(q, b)
  BY <1>2 DEF finish_bitmap_read, read_over
<1>5. /\ t \in VhdState /\ OnlyBlk(a, t, b) /\ t.req = a.req /\ t.aio = a.aio /\ t.vfree = a.vfree
      /\ t.bm[b].tx = a.bm[b].tx /\ t.bm[b].queue = a.bm[b].queue /\ t.bm[b].wr = a.bm[b].wr
      /\ ~t.bm[b].rd /\ t.bm[b].map = a.bm[b].map /\ t.bm[b].shadow = a.bm[b].map
      /\ t.bm[b].waiting = {} /\ t.bm[b].locked = a.bm[b].locked
  BY <1>1, <1>2, ReadOverEffect
<1> HIDE DEF t
<1>6. R \subseteq Reqs
  BY <1>1 DEF Bitmap
<1>7. F = Fwd(t, b, R) /\ U = Upd(t, b, R) /\ Renewed(t, b, R) = NewIOs(s, b)
  <2>1. t.req = s.req /\ t.bm[b].map = s.bm[b].map /\ t.bat = s.bat
    BY <1>2, <1>5 DEF OnlyBlk, SameBat
  <2>2. F = Fwd(t, b, R) /\ U = Upd(t, b, R)
    BY <2>1 DEF ToForward, ToUpdate, Fwd, Upd
  <2>3. \A r : requeued_io(t, b, r) = requeued_io(s, b, r)
    BY <2>1 DEF requeued_io
  <2> HIDE DEF F, R
  <2> QED BY <2>2, <2>3 DEF Renewed, NewIOs, F, R
<1> DEFINE J == joined(t.bm[b].tx, U)
<1>8. q = requeue(t, b, R) /\ J = joined(t.bm[b].tx, U)
  OBVIOUS
<1>20. J = joined(init_tx, U)
  BY <1>2, <1>3, <1>5
<1> HIDE DEF q, R, F, U, J
<1>21. t \in VhdState /\ b \in Blocks
    BY <1>1, <1>5
<1>9. /\ OnlyBlk(t, q, b)
      /\ q.bm[b].tx = (IF U = {} THEN t.bm[b].tx ELSE J)
      /\ q.bm[b].queue = t.bm[b].queue /\ q.bm[b].wr = t.bm[b].wr
      /\ q.bm[b].rd = t.bm[b].rd /\ q.bm[b].map = t.bm[b].map /\ q.bm[b].shadow = t.bm[b].shadow
      /\ q.bm[b].waiting = t.bm[b].waiting /\ q.bm[b].locked = t.bm[b].locked
      /\ q.vfree = t.vfree + Cardinality(F)
      /\ q.aio = t.aio \cup Renewed(t, b, R)
  BY ONLY <1>21, <1>6, <1>7, <1>8, RequeueEffect
<1>22. \A r \in Reqs :
           /\ r \in F => q.req[r] = forwarded(t.req[r])
           /\ r \in R \ F => q.req[r] = restarted(t.req[r])
           /\ r \notin R => q.req[r] = t.req[r]
  BY ONLY <1>21, <1>6, <1>7, <1>8, RequeueEffect
<1>10. q \in VhdState
  BY <1>1, <1>5, <1>6, <1>8, RequeueType
<1>11. /\ u \in VhdState /\ OnlyBlk(q, u, b) /\ u.req = q.req /\ u.aio = q.aio /\ u.vfree = q.vfree
       /\ u.bm[b].tx = q.bm[b].tx /\ u.bm[b].queue = q.bm[b].queue /\ u.bm[b].wr = q.bm[b].wr
       /\ u.bm[b].rd = q.bm[b].rd /\ u.bm[b].map = q.bm[b].map /\ u.bm[b].shadow = q.bm[b].shadow
       /\ u.bm[b].waiting = q.bm[b].waiting
       /\ u.bm[b].locked <=> q.bm[b].locked /\ bitmap_in_use(q.bm[b])
  BY <1>1, <1>4, <1>10, UnlockEffect
<1>23. /\ q.bm[b].tx = (IF U = {} THEN init_tx ELSE J)
       /\ ~q.bm[b].rd /\ ~q.bm[b].wr /\ q.bm[b].waiting = {} /\ q.bm[b].queue = {}
       /\ q.bm[b].map = s.bm[b].map /\ q.bm[b].shadow = s.bm[b].map
       /\ q.vfree = s.vfree + Cardinality(F) /\ q.bm[b].locked
       /\ q.aio = (s.aio \ {io}) \cup NewIOs(s, b)
  BY <1>2, <1>3, <1>5, <1>7, <1>9
<1>12. OnlyBlk(s, u, b)
  <2>1. OnlyBlk(s, a, b) /\ OnlyBlk(a, t, b) /\ OnlyBlk(t, q, b) /\ OnlyBlk(q, u, b)
    BY <1>2, <1>5, <1>9, <1>11 DEF OnlyBlk
  <2> QED BY ONLY <2>1 DEF OnlyBlk, SameBat
<1>13. bitmap_in_use(q.bm[b]) <=> U # {}
  <2>1. q.bm[b].tx.reqs = U /\ ~q.bm[b].tx.upd
    <3>2. init_tx \in Tx
      BY TxTypes
    <3>3. J.reqs = init_tx.reqs \cup U /\ J.upd = init_tx.upd
      BY ONLY <1>20, <3>2, JoinedFields
    <3> QED BY <1>23, <3>3, InitBm
  <2> QED BY <1>23, <2>1 DEF bitmap_in_use
<1>14. u.bm[b].locked <=> U # {}
  BY <1>11, <1>13, <1>23
<1>17. \A r \in Reqs :
           /\ r \in F => u.req[r] = forwarded(s.req[r])
           /\ r \in R \ F => u.req[r] = restarted(s.req[r])
           /\ r \notin R => u.req[r] = s.req[r]
  <2>1. u.req = q.req /\ t.req = s.req
    BY <1>2, <1>5, <1>11
  <2> QED BY ONLY <2>1, <1>22
<1>18. Requeues(s, u, b, io)
  <2>1. /\ ~u.bm[b].rd /\ ~u.bm[b].wr /\ u.bm[b].waiting = {} /\ u.bm[b].queue = {}
        /\ u.bm[b].map = s.bm[b].map /\ u.bm[b].shadow = s.bm[b].map
        /\ u.vfree = s.vfree + Cardinality(F)
    BY <1>11, <1>23
  <2>2. /\ u.aio = (s.aio \ {io}) \cup NewIOs(s, b)
        /\ u.bm[b].tx = IF U = {} THEN init_tx ELSE joined(init_tx, U)
    BY <1>11, <1>20, <1>23
  <2> QED BY ONLY <1>12, <1>14, <1>17, <2>1, <2>2 DEF Requeues, F, U, R
<1>19. Driver(u, NoReq, NoBlock)
  BY <1>11, <1>18, RequeueDriver
<1> QED BY <1>11, <1>18, <1>19

LEMMA FreeEffect ==
  ASSUME NEW s \in VhdState, NEW b \in Blocks, NEW t, t = free_vhd_bitmap(s, b)
  PROVE  /\ t \in VhdState /\ SameBat(s, t) /\ t.up = s.up /\ t.prealloc = s.prealloc
         /\ t.batmap = s.batmap /\ t.cached = s.cached \ {b} /\ t.bm[b] = init_vhd_bitmap
         /\ t.req = s.req /\ t.vfree = s.vfree /\ t.aio = s.aio
         /\ \A x \in Blocks : x # b => t.bm[x] = s.bm[x]
<1>1. t \in VhdState
  BY InstallType
<1> QED BY <1>1 DEF free_vhd_bitmap, VhdState, SameBat

LEMMA BitmapReadFailed ==
  ASSUME NEW s, NEW io \in s.aio, NEW a, NEW u, NEW b,
         Driver(s, NoReq, NoBlock), io.op = "bitmap_read", b = io.blk,
         Taken(s, a, io), u = finish_bitmap_read(a, b, "EIO")
  PROVE  Driver(u, NoReq, NoBlock) /\ ReadFails(s, u, b, io) /\ u \in VhdState
<1> DEFINE R == s.bm[b].waiting
           f == free_vhd_bitmap(a, b)
<1>1. s \in VhdState /\ b \in Blocks /\ s.bm[b] \in Bitmap
  BY IoField, BmField DEF Driver
<1>2. /\ a \in VhdState /\ SameBat(s, a) /\ a.up = s.up /\ a.prealloc = s.prealloc
      /\ a.batmap = s.batmap /\ a.cached = s.cached /\ a.bm = s.bm /\ a.req = s.req
      /\ a.vfree = s.vfree /\ a.aio = s.aio \ {io}
  BY DEF Taken
<1>3. u = signal_completion(f, R, "EIO")
  BY <1>2 DEF finish_bitmap_read
<1>4. R \subseteq Reqs /\ "EIO" \in Errors /\ "EIO" # "ok"
  BY <1>1 DEF Bitmap, Errors
<1>5. f = free_vhd_bitmap(a, b)
  OBVIOUS
<1> HIDE DEF f, R
<1>6. /\ f \in VhdState /\ SameBat(a, f) /\ f.up = a.up /\ f.prealloc = a.prealloc
      /\ f.batmap = a.batmap /\ f.cached = a.cached \ {b} /\ f.bm[b] = init_vhd_bitmap
      /\ f.req = a.req /\ f.vfree = a.vfree /\ f.aio = a.aio
      /\ \A x \in Blocks : x # b => f.bm[x] = a.bm[x]
  BY <1>1, <1>2, <1>5, FreeEffect
<1>7. f \in VhdState
  BY <1>6
<1>8. /\ u \in VhdState
      /\ SameBat(f, u) /\ u.up = f.up /\ u.prealloc = f.prealloc /\ u.cached = f.cached
      /\ u.aio = f.aio /\ u.bm = f.bm /\ u.batmap = f.batmap
      /\ u.vfree = f.vfree + Cardinality(R)
  BY ONLY <1>3, <1>4, <1>7, SignalEffect
<1>9. \A r \in Reqs :
           /\ r \in R => /\ u.req[r].st = "done" /\ u.req[r].sec = f.req[r].sec
                         /\ u.req[r].op = f.req[r].op
                         /\ u.req[r].err = "EIO"
           /\ r \notin R => u.req[r] = f.req[r]
  BY ONLY <1>3, <1>4, <1>7, SignalEffect
<1>10. ReadFails(s, u, b, io)
  <2>1. SameBat(s, u)
    BY <1>2, <1>6, <1>8 DEF SameBat
  <2>2. u.req = u.req /\ f.req = s.req
    BY <1>2, <1>6
  <2>3. \A r \in Reqs :
       /\ r \in R => /\ u.req[r].st = "done" /\ u.req[r].err = "EIO"
                     /\ u.req[r].sec = s.req[r].sec /\ u.req[r].op = s.req[r].op
       /\ r \notin R => u.req[r] = s.req[r]
    BY ONLY <1>9, <2>2
  <2>4. /\ u.up = s.up /\ u.prealloc = s.prealloc /\ u.batmap = s.batmap
        /\ u.cached = s.cached \ {b}
        /\ u.bm[b] = init_vhd_bitmap /\ (\A x \in Blocks : x # b => u.bm[x] = s.bm[x])
        /\ u.aio = s.aio \ {io} /\ u.vfree = s.vfree + Cardinality(R)
    BY <1>2, <1>6, <1>8
  <2> QED BY ONLY <2>1, <2>3, <2>4 DEF ReadFails, R
<1> QED BY <1>8, <1>10, ReadFailDriver

LEMMA BatWriteEffect ==
  ASSUME NEW s \in VhdState, NEW t, t = schedule_bat_write(s)
  PROVE  /\ t \in VhdState /\ t.up = s.up /\ t.prealloc = s.prealloc /\ t.batmap = s.batmap
         /\ t.cached = s.cached /\ t.req = s.req /\ t.vfree = s.vfree /\ t.bat = s.bat
         /\ t.next_db = s.next_db /\ t.bm = s.bm
         /\ t.locked = s.locked /\ t.pbw_blk = s.pbw_blk /\ t.pbw_offset = s.pbw_offset
         /\ t.bat_err = "ok" /\ ~t.bat_tx /\ t.started /\ t.bat_buf = bat_sector(s)
         /\ t.aio = s.aio \cup {[op |-> "bat", blk |-> s.pbw_blk, req |-> bat_req,
                                 slot |-> s.pbw_offset, landed |-> FALSE]}
<1>1. t \in VhdState
  BY BatWriteType
<1> QED BY <1>1 DEF schedule_bat_write, queue_tiocb, VhdState

bat_io(b, x) == [op |-> "bat", blk |-> b, req |-> bat_req, slot |-> x, landed |-> FALSE]

(* What finish_bat_write does first: the outcome of the write, then its     *)
(* part in the transaction.                                                 *)
bat_result(s, b, e) ==
  IF e = "ok"
  THEN [s EXCEPT !.bat_err = e, !.bat[b] = s.pbw_offset, !.next_db = s.pbw_offset + 1]
  ELSE with_tx([s EXCEPT !.bat_err = e], b, [s.bm[b].tx EXCEPT !.err = e])
err_tx(T, e) == [T EXCEPT !.err = e]
no_upd(T)    == [T EXCEPT !.upd = FALSE]

LEMMA BatResultEffect ==
  ASSUME NEW s \in VhdState, NEW b \in Blocks, NEW e \in {"ok", "EIO"}, NEW t,
         s.pbw_offset \in Slots, t = bat_result(s, b, e)
  PROVE  /\ t \in VhdState
         /\ t.up = s.up /\ t.prealloc = s.prealloc /\ t.batmap = s.batmap /\ t.cached = s.cached
         /\ t.req = s.req /\ t.vfree = s.vfree /\ t.aio = s.aio
         /\ \A x \in Blocks : x # b => t.bm[x] = s.bm[x]
         /\ t.locked = s.locked /\ t.pbw_blk = s.pbw_blk /\ t.pbw_offset = s.pbw_offset
         /\ t.started = s.started /\ t.bat_tx = s.bat_tx /\ t.bat_err = e
         /\ \A x \in Blocks : x # b => t.bat[x] = s.bat[x]
         /\ e = "ok" => t.bat[b] = s.pbw_offset /\ t.next_db = s.pbw_offset + 1
         /\ e # "ok" => t.bat = s.bat /\ t.next_db = s.next_db
         /\ t.bm[b].locked = s.bm[b].locked /\ t.bm[b].rd = s.bm[b].rd /\ t.bm[b].wr = s.bm[b].wr
         /\ t.bm[b].map = s.bm[b].map /\ t.bm[b].queue = s.bm[b].queue
         /\ t.bm[b].waiting = s.bm[b].waiting /\ t.bm[b].shadow = s.bm[b].shadow
         /\ t.bm[b].tx = (IF e = "ok" THEN s.bm[b].tx ELSE err_tx(s.bm[b].tx, e))
<1>1. s.bm[b] \in Bitmap /\ s.bm[b].tx \in Tx /\ e \in Errors
  BY BmField DEF Bitmap, Errors
<1>2. CASE e = "ok"
  <2>1. t = [s EXCEPT !.bat_err = e, !.bat[b] = s.pbw_offset, !.next_db = s.pbw_offset + 1]
    BY <1>2 DEF bat_result
  <2>2. s.pbw_offset \in Entries /\ s.pbw_offset + 1 \in Nat
    BY ConstantsAssumption DEF Slots, Entries
  <2>3. t \in VhdState
    BY ONLY <1>1, <2>1, <2>2, s \in VhdState, b \in Blocks DEF VhdState
  <2> QED BY ONLY <1>2, <2>1, <2>3, s \in VhdState, b \in Blocks DEF VhdState
<1>3. CASE e # "ok"
  <2> DEFINE f == [s EXCEPT !.bat_err = e]
             T == err_tx(s.bm[b].tx, e)
  <2>1. t = with_tx(f, b, T)
    BY <1>3 DEF bat_result, err_tx
  <2>2. f \in VhdState
    BY ONLY <1>1, s \in VhdState DEF VhdState
  <2>3. /\ f.up = s.up /\ f.prealloc = s.prealloc /\ f.batmap = s.batmap /\ f.cached = s.cached
        /\ f.req = s.req /\ f.vfree = s.vfree /\ f.aio = s.aio /\ f.bm = s.bm
        /\ f.locked = s.locked /\ f.pbw_blk = s.pbw_blk /\ f.pbw_offset = s.pbw_offset
        /\ f.started = s.started /\ f.bat_tx = s.bat_tx /\ f.bat_err = e
        /\ f.bat = s.bat /\ f.next_db = s.next_db
    BY DEF VhdState
  <2>4. T \in Tx
    BY <1>1 DEF err_tx, Tx
  <2> HIDE DEF f, T
  <2>5. /\ t \in VhdState /\ OnlyBlk(f, t, b) /\ t.req = f.req /\ t.vfree = f.vfree /\ t.aio = f.aio
        /\ t.bm[b].tx = T /\ t.bm[b].locked = f.bm[b].locked /\ t.bm[b].rd = f.bm[b].rd
        /\ t.bm[b].wr = f.bm[b].wr /\ t.bm[b].map = f.bm[b].map /\ t.bm[b].shadow = f.bm[b].shadow
        /\ t.bm[b].queue = f.bm[b].queue /\ t.bm[b].waiting = f.bm[b].waiting
    BY ONLY <2>1, <2>2, <2>4, b \in Blocks, WithTx
  <2> QED BY ONLY <1>3, <2>3, <2>5, b \in Blocks DEF OnlyBlk, SameBat, T
<1> QED BY <1>2, <1>3

LEMMA BatEndEffect ==
  ASSUME NEW s, NEW io \in s.aio, NEW a, NEW b, NEW e \in {"ok", "EIO"}, NEW t, NEW T, NEW u,
         Driver(s, NoReq, NoBlock), io.op = "bat", b = io.blk, Taken(s, a, io),
         t = bat_result(a, b, e),
         T = (IF s.prealloc THEN finished(t.bm[b].tx, {bat_req}) ELSE no_upd(t.bm[b].tx)),
         u = with_tx(t, b, T)
  PROVE  BatEnds(s, u, b, io, e) /\ u \in VhdState
<1>1. s \in VhdState /\ b \in Blocks /\ IoOK(s, io) /\ BatOK(s, NoBlock)
  BY IoField DEF Driver
<1>2. s.locked /\ s.pbw_blk = b /\ s.pbw_offset \in Slots
  BY <1>1 DEF IoOK, Mine, BatOK
<1>3. /\ a \in VhdState /\ SameBat(s, a) /\ a.up = s.up /\ a.prealloc = s.prealloc
      /\ a.batmap = s.batmap /\ a.cached = s.cached /\ a.bm = s.bm /\ a.req = s.req
      /\ a.vfree = s.vfree /\ a.aio = s.aio \ {io}
  BY DEF Taken
<1>4. a.pbw_offset \in Slots
  BY <1>2, <1>3 DEF SameBat
<1>5. /\ t \in VhdState
      /\ t.up = a.up /\ t.prealloc = a.prealloc /\ t.batmap = a.batmap /\ t.cached = a.cached
      /\ t.req = a.req /\ t.vfree = a.vfree /\ t.aio = a.aio
      /\ \A x \in Blocks : x # b => t.bm[x] = a.bm[x]
      /\ t.locked = a.locked /\ t.pbw_blk = a.pbw_blk /\ t.pbw_offset = a.pbw_offset
      /\ t.started = a.started /\ t.bat_tx = a.bat_tx /\ t.bat_err = e
      /\ \A x \in Blocks : x # b => t.bat[x] = a.bat[x]
      /\ e = "ok" => t.bat[b] = a.pbw_offset /\ t.next_db = a.pbw_offset + 1
      /\ e # "ok" => t.bat = a.bat /\ t.next_db = a.next_db
      /\ t.bm[b].locked = a.bm[b].locked /\ t.bm[b].rd = a.bm[b].rd /\ t.bm[b].wr = a.bm[b].wr
      /\ t.bm[b].map = a.bm[b].map /\ t.bm[b].queue = a.bm[b].queue
      /\ t.bm[b].waiting = a.bm[b].waiting /\ t.bm[b].shadow = a.bm[b].shadow
      /\ t.bm[b].tx = (IF e = "ok" THEN a.bm[b].tx ELSE err_tx(a.bm[b].tx, e))
  <2>1. a \in VhdState /\ b \in Blocks
    BY <1>1, <1>3
  <2> QED BY ONLY <2>1, <1>4, e \in {"ok", "EIO"}, t = bat_result(a, b, e), BatResultEffect
<1>6. s.bm[b].tx \in Tx
  BY <1>1, BmField
<1>7. /\ t.bm[b].tx \in Tx /\ t.bm[b].tx.err = (IF e = "ok" THEN s.bm[b].tx.err ELSE e)
      /\ t.bm[b].tx.closed = s.bm[b].tx.closed /\ t.bm[b].tx.started = s.bm[b].tx.started
      /\ t.bm[b].tx.live = s.bm[b].tx.live /\ t.bm[b].tx.finished = s.bm[b].tx.finished
      /\ t.bm[b].tx.upd = s.bm[b].tx.upd /\ t.bm[b].tx.reqs = s.bm[b].tx.reqs
  <2>1. t.bm[b].tx = (IF e = "ok" THEN s.bm[b].tx ELSE err_tx(s.bm[b].tx, e))
    BY <1>3, <1>5
  <2>2. e \in Errors
    BY DEF Errors
  <2> QED BY ONLY <1>6, <2>1, <2>2 DEF Tx, err_tx
<1>8. /\ T \in Tx /\ T.err = t.bm[b].tx.err /\ T.closed = t.bm[b].tx.closed
      /\ T.started = t.bm[b].tx.started /\ T.live = t.bm[b].tx.live
      /\ s.prealloc => /\ T.finished = t.bm[b].tx.finished + 1 /\ T.upd = t.bm[b].tx.upd
                       /\ T.reqs = t.bm[b].tx.reqs \ {bat_req}
      /\ ~s.prealloc => /\ T.finished = t.bm[b].tx.finished /\ ~T.upd
                        /\ T.reqs = t.bm[b].tx.reqs
  <2>1. CASE s.prealloc
    <3>1. T = finished(t.bm[b].tx, {bat_req}) /\ t.bm[b].tx \in Tx
      BY <2>1, <1>7
    <3> QED BY ONLY <2>1, <3>1, FinishedFields, FinishedType
  <2>2. CASE ~s.prealloc
    <3>1. T = no_upd(t.bm[b].tx) /\ t.bm[b].tx \in Tx
      BY <2>2, <1>7
    <3> QED BY ONLY <2>2, <3>1 DEF Tx, no_upd
  <2> QED BY <2>1, <2>2
<1>9. /\ u \in VhdState /\ OnlyBlk(t, u, b) /\ u.req = t.req /\ u.vfree = t.vfree /\ u.aio = t.aio
      /\ u.bm[b].tx = T /\ u.bm[b].locked = t.bm[b].locked /\ u.bm[b].rd = t.bm[b].rd
      /\ u.bm[b].wr = t.bm[b].wr /\ u.bm[b].map = t.bm[b].map /\ u.bm[b].shadow = t.bm[b].shadow
      /\ u.bm[b].queue = t.bm[b].queue /\ u.bm[b].waiting = t.bm[b].waiting
  BY ONLY <1>1, <1>5, <1>8, u = with_tx(t, b, T), WithTx
<1>10. /\ u.up = s.up /\ u.prealloc = s.prealloc /\ u.batmap = s.batmap /\ u.cached = s.cached
       /\ u.req = s.req /\ u.vfree = s.vfree /\ u.aio = s.aio \ {io}
       /\ (\A x \in Blocks : x # b => u.bm[x] = s.bm[x])
       /\ u.locked = s.locked /\ u.pbw_blk = s.pbw_blk /\ u.pbw_offset = s.pbw_offset
       /\ u.started = s.started /\ u.bat_tx = s.bat_tx /\ u.bat_err = e
       /\ (\A x \in Blocks : x # b => u.bat[x] = s.bat[x])
       /\ e = "ok" => u.bat[b] = s.pbw_offset /\ u.next_db = s.pbw_offset + 1
       /\ e # "ok" => u.bat = s.bat /\ u.next_db = s.next_db
  BY ONLY <1>3, <1>5, <1>9 DEF OnlyBlk, SameBat
<1>11. /\ u.bm[b].locked = s.bm[b].locked /\ u.bm[b].rd = s.bm[b].rd /\ u.bm[b].wr = s.bm[b].wr
       /\ u.bm[b].map = s.bm[b].map /\ u.bm[b].queue = s.bm[b].queue
       /\ u.bm[b].waiting = s.bm[b].waiting /\ u.bm[b].shadow = s.bm[b].shadow
  BY ONLY <1>3, <1>5, <1>9
<1> QED BY ONLY <1>7, <1>8, <1>9, <1>10, <1>11 DEF BatEnds

bat_over(s, b, e) ==
  LET t == bat_result(s, b, e)
      p == finish_if_completed(with_tx(t, b, finished(t.bm[b].tx, {bat_req})), b)
      n == with_tx(t, b, no_upd(t.bm[b].tx))
  IN  finish_bat_transaction(IF s.prealloc THEN p
                             ELSE IF n.bat_tx THEN finish_bitmap_transaction(n, b, e) ELSE n, b)
=============================================================================
