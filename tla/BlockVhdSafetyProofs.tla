------------------------ MODULE BlockVhdSafetyProofs ------------------------
(***************************************************************************)
(* The VHD driver loses no acknowledged write, for every value of the      *)
(* constants of BlockVhd: why every step keeps what the driver knows of    *)
(* the image file (FileOK) and what the file holds of the clients' writes  *)
(* (History), and the theorems about BlockVhd's properties.                *)
(***************************************************************************)
EXTENDS BlockVhdDriverProofs

(* The two states show the same of the file.                                *)
View(s, t) ==
  /\ t.up = s.up /\ t.bat = s.bat
  /\ \A b \in Blocks : /\ Mine(t, b) <=> Mine(s, b)
                       /\ b \in t.cached <=> b \in s.cached
                       /\ t.bm[b].map = s.bm[b].map /\ t.bm[b].shadow = s.bm[b].shadow
                       /\ t.bm[b].rd = s.bm[b].rd
  /\ s.locked => t.pbw_offset = s.pbw_offset

LEMMA ViewSame ==
  ASSUME NEW s, NEW t, NEW d, View(s, t)
  PROVE  /\ \A b \in Blocks : Own(t, d, b) = Own(s, d, b)
         /\ \A x \in Sectors : Set(t, d, x) <=> Set(s, d, x)
         /\ \A c : \A x \in Sectors : Good(t, d, c, x) <=> Good(s, d, c, x)
<1>1. \A b \in Blocks : Own(t, d, b) = Own(s, d, b)
  BY DEF View, Own, Mine
<1>2. \A x \in Sectors : Set(t, d, x) <=> Set(s, d, x)
  BY Geometry DEF View, Set
<1> QED BY <1>1, <1>2, Geometry DEF Good

LEMMA FileFrame ==
  ASSUME NEW s, NEW t \in VhdState, NEW h, NEW k, NEW d, Driver(s, h, k), FileOK(s, d), s.up, View(s, t),
         t.batmap = s.batmap,
         \A b \in Blocks : t.bm[b].tx.upd /\ t.bat_tx /\ t.bm[b].tx.err = "ok"
                             => s.bm[b].tx.upd /\ s.bat_tx /\ s.bm[b].tx.err = "ok",
         \A io \in t.aio : io \in s.aio \/ (~io.landed /\ (io.op = "bat" => d.bat[io.blk] = DD_BLK_UNUSED)),
         \A io \in s.aio : io.op = "bat" => io \in t.aio
  PROVE  FileOK(t, d)
<1>1. s \in VhdState /\ \A io \in s.aio : io.blk \in Blocks
  BY IoField DEF Driver
<1>2. \A b \in Blocks : HasIO(s, b, "bat") => HasIO(t, b, "bat")
  BY DEF HasIO
<1>3. \A io \in s.aio : io.op = "bat" => s.locked
  BY DEF Driver, IoOK, Mine
<1>4. \A b \in Blocks : s.bm[b].tx.upd => s.locked
  BY DEF Driver, BlkOK, Mine
<1>5. FileBat(t, d)
  <2>1. \A b \in Blocks : \/ d.bat[b] = t.bat[b]
                          \/ /\ t.bat[b] = DD_BLK_UNUSED /\ Mine(t, b) /\ d.bat[b] = t.pbw_offset
                             /\ HasIO(t, b, "bat")
    BY <1>2 DEF FileOK, FileBat, View, Mine
  <2>2. \A io \in t.aio : io.op = "bat" =>
          d.bat[io.blk] = IF io.landed THEN t.pbw_offset ELSE DD_BLK_UNUSED
    BY <1>3 DEF FileOK, FileBat, View
  <2> QED BY <2>1, <2>2 DEF FileOK, FileBat, View
<1>6. FileMap(t, d)
  <2>1. \A b \in Blocks : b \in t.cached /\ ~t.bm[b].rd /\ t.bat[b] # DD_BLK_UNUSED
                           => t.bm[b].map \subseteq d.map[t.bat[b]]
    BY DEF FileOK, FileMap, View
  <2>2. \A b \in Blocks : t.bm[b].tx.upd /\ t.bat_tx /\ t.bm[b].tx.err = "ok"
                         => t.bm[b].shadow \subseteq d.map[t.pbw_offset]
    BY <1>4 DEF FileOK, FileMap, View
  <2>3. \A io \in t.aio : io.landed =>
       /\ io.op = "bitmap_read" => t.bm[io.blk].map = d.map[io.slot]
       /\ io.op = "bitmap_write" => t.bm[io.blk].shadow \subseteq d.map[io.slot]
       /\ io.op = "zero_bm" => d.map[io.slot] = {}
    BY <1>1 DEF FileOK, FileMap, View
  <2> QED BY <2>1, <2>2, <2>3 DEF FileOK, FileMap
<1> QED BY <1>5, <1>6 DEF FileOK

LEMMA HistFrame ==
  ASSUME NEW s, NEW t, NEW d, NEW c, NEW n, NEW g, NEW g2, History(s, d, c, n, g), View(s, t),
         \A io \in s.aio : io.op = "zero_bm" /\ ~io.landed => io \in t.aio,
         CandOK(t, c),
         \A r \in Reqs : t.req[r].op = "write" => WriteOK(t, d, c, n, r, g2),
         \A r \in Reqs : t.req[r].op = "read" => ReadOK(t, c, n, r),
         \A io \in t.aio : IoHist(t, d, c, n, io)
  PROVE  History(t, d, c, n, g2)
<1>1. \A b \in Blocks : Own(t, d, b) = Own(s, d, b)
  BY ViewSame
<1>2. \A x \in Sectors : Set(t, d, x) <=> Set(s, d, x)
  BY ViewSame
<1>3. \A x \in Sectors : Good(t, d, c, x) <=> Good(s, d, c, x)
  BY ViewSame
<1>4. \A b \in Blocks : Zeroed(t, b) => Zeroed(s, b)
  BY DEF Zeroed
<1>5. GoodOK(t, d, c)
  <2>1. \A b \in Blocks : /\ t.bm[b].map = s.bm[b].map /\ t.bm[b].shadow = s.bm[b].shadow
                          /\ t.bm[b].rd = s.bm[b].rd
    BY DEF View
  <2>2. GoodOK(s, d, c)
    BY DEF History
  <2> QED BY ONLY <1>1, <1>3, <1>4, <2>1, <2>2, Geometry DEF GoodOK
<1>6. ParentOK(t, d, c)
  BY <1>2 DEF ParentOK, History
<1> QED BY <1>5, <1>6 DEF History

(* A step that shows the same of the file and leaves the requests alone.    *)
Calm(s, t, d) ==
  /\ View(s, t) /\ t.req = s.req /\ t.batmap = s.batmap
  /\ \A b \in Blocks :
       /\ t.bm[b].tx.upd /\ t.bat_tx /\ t.bm[b].tx.err = "ok"
            => s.bm[b].tx.upd /\ s.bat_tx /\ s.bm[b].tx.err = "ok"
       /\ \A r \in Reqs : r \in s.bm[b].tx.reqs \cup s.bm[b].queue
                            => r \in t.bm[b].tx.reqs \cup t.bm[b].queue
  /\ \A io \in t.aio : io \in s.aio \/ ( /\ ~io.landed /\ io.op \notin Data
                                         /\ io.op = "bat" => d.bat[io.blk] = DD_BLK_UNUSED )
  /\ \A io \in s.aio : io.op = "bat" => io \in t.aio
  /\ \A io \in s.aio : io.op = "zero_bm" /\ ~io.landed => io \in t.aio

LEMMA CalmFresh ==
  ASSUME NEW s \in VhdState, NEW t, NEW d, NEW c, NEW n, NEW r \in Reqs, View(s, t), t.req[r].sec = s.req[r].sec
  PROVE  Fresh(t, d, c, n, r) <=> Fresh(s, d, c, n, r)
<1>1. blk_of(s.req[r].sec) \in Blocks
  BY ReqField
<1>2. Own(t, d, blk_of(s.req[r].sec)) = Own(s, d, blk_of(s.req[r].sec))
  BY <1>1, ViewSame
<1> QED BY <1>2 DEF Fresh

LEMMA SecField ==
  ASSUME NEW s \in VhdState, NEW r \in Reqs
  PROVE  s.req[r].sec \in Sectors
  BY DEF VhdState, Request

LEMMA CalmHist ==
  ASSUME NEW s, NEW t \in VhdState, NEW h, NEW k, NEW d, NEW c, NEW n, NEW g,
         Driver(s, h, k), FileOK(s, d), s.up, History(s, d, c, n, g), Calm(s, t, d)
  PROVE  FileOK(t, d) /\ History(t, d, c, n, g)
<1>1. s \in VhdState /\ View(s, t) /\ t.req = s.req
  BY DEF Driver, Calm
<1>2. FileOK(t, d)
  <2>1. t.batmap = s.batmap
    BY DEF Calm
  <2>2. \A b \in Blocks : t.bm[b].tx.upd /\ t.bat_tx /\ t.bm[b].tx.err = "ok"
                             => s.bm[b].tx.upd /\ s.bat_tx /\ s.bm[b].tx.err = "ok"
    BY DEF Calm
  <2>3. \A io \in t.aio : io \in s.aio \/ (~io.landed /\ (io.op = "bat" => d.bat[io.blk] = DD_BLK_UNUSED))
    BY DEF Calm
  <2>4. \A io \in s.aio : io.op = "bat" => io \in t.aio
    BY DEF Calm
  <2> QED BY <1>1, <2>1, <2>2, <2>3, <2>4, FileFrame
<1>3. \A r \in Reqs : Fresh(t, d, c, n, r) <=> Fresh(s, d, c, n, r)
  BY <1>1, CalmFresh
<1>4. \A x \in Sectors : Set(t, d, x) <=> Set(s, d, x)
  BY <1>1, ViewSame
<1>5. \A x \in Sectors : Good(t, d, c, x) <=> Good(s, d, c, x)
  BY <1>1, ViewSame
<1>6. outstanding(t) = outstanding(s)
  BY <1>1 DEF outstanding
<1>7. CandOK(t, c)
  BY <1>1 DEF CandOK, History
<1>8. \A r \in Reqs : t.req[r].op = "write" => WriteOK(t, d, c, n, r, g)
  BY <1>1, <1>3, <1>4, <1>6, SecField DEF WriteOK, History
<1>9. \A r \in Reqs : t.req[r].op = "read" => ReadOK(t, c, n, r)
  BY <1>1, <1>6 DEF ReadOK, History
<1>10. ASSUME NEW io \in t.aio PROVE IoHist(t, d, c, n, io)
  <2>1. CASE io \in s.aio
    <3>1. IoHist(s, d, c, n, io) /\ io.blk \in Blocks
      BY <1>1, <2>1, IoField DEF History
    <3>2. io.op \in Data => io.req \in Reqs
      BY <1>1, <2>1, IoField DEF Data
    <3>3. io.op \in Data => (io.req \in s.bm[io.blk].tx.reqs \cup s.bm[io.blk].queue
                               => io.req \in t.bm[io.blk].tx.reqs \cup t.bm[io.blk].queue)
      BY <3>1, <3>2 DEF Calm
    <3>4. io.op \in Data => s.req[io.req].sec \in Sectors
      BY <1>1, <3>2, SecField
    <3> QED BY <3>1, <3>2, <3>3, <3>4, <1>1, <1>3, <1>4, <1>5 DEF IoHist, Data
  <2>2. CASE io \notin s.aio
    <3>1. io.op \notin Data
      BY <2>2 DEF Calm
    <3> QED BY <3>1 DEF IoHist, Data
  <2> QED BY <2>1, <2>2
<1>11. \A io \in s.aio : io.op = "zero_bm" /\ ~io.landed => io \in t.aio
  BY DEF Calm
<1> QED BY <1>1, <1>2, <1>7, <1>8, <1>9, <1>10, <1>11, HistFrame

LEMMA CalmBlk ==
  ASSUME NEW s, NEW t, NEW b \in Blocks, NEW d, OnlyBlk(s, t, b), t.req = s.req,
         t.bm[b].map = s.bm[b].map, t.bm[b].shadow = s.bm[b].shadow, t.bm[b].rd = s.bm[b].rd,
         t.bm[b].tx.upd = s.bm[b].tx.upd,
         s.bm[b].tx.err # "ok" => t.bm[b].tx.err # "ok",
         \A r \in Reqs : r \in s.bm[b].tx.reqs \cup s.bm[b].queue
                            => r \in t.bm[b].tx.reqs \cup t.bm[b].queue,
         \A io \in t.aio : io \in s.aio \/ ( /\ ~io.landed /\ io.op \notin Data
                                             /\ io.op = "bat" => d.bat[io.blk] = DD_BLK_UNUSED ),
         \A io \in s.aio : io.op = "bat" => io \in t.aio,
         \A io \in s.aio : io.op = "zero_bm" /\ ~io.landed => io \in t.aio
  PROVE  Calm(s, t, d)
<1>1. View(s, t)
  BY DEF View, OnlyBlk, SameBat, Mine
<1>2. ASSUME NEW x \in Blocks
      PROVE  /\ t.bm[x].tx.upd /\ t.bat_tx /\ t.bm[x].tx.err = "ok"
                  => s.bm[x].tx.upd /\ s.bat_tx /\ s.bm[x].tx.err = "ok"
             /\ \A r \in Reqs : r \in s.bm[x].tx.reqs \cup s.bm[x].queue
                            => r \in t.bm[x].tx.reqs \cup t.bm[x].queue
  <2>1. CASE x = b
    BY <2>1 DEF OnlyBlk, SameBat
  <2>2. CASE x # b
    BY <2>2 DEF OnlyBlk, SameBat
  <2> QED BY <2>1, <2>2
<1> QED BY <1>1, <1>2 DEF Calm, OnlyBlk

LEMMA MarkCalm ==
  ASSUME NEW s, NEW t, NEW b \in Blocks, NEW d, Marks(s, t, b)
  PROVE  Calm(s, t, d)
  BY CalmBlk DEF Marks

LEMMA WriteBitmapCalm ==
  ASSUME NEW s, NEW t, NEW b \in Blocks, NEW d, WritesBitmap(s, t, b)
  PROVE  Calm(s, t, d)
<1>1. \A io \in t.aio : io \in s.aio \/ (~io.landed /\ io.op = "bitmap_write")
  BY DEF WritesBitmap
<1>2. s.aio \subseteq t.aio
  BY DEF WritesBitmap
<1>3. /\ OnlyBlk(s, t, b) /\ t.req = s.req
      /\ t.bm[b].map = s.bm[b].map /\ t.bm[b].shadow = s.bm[b].shadow /\ t.bm[b].rd = s.bm[b].rd
      /\ t.bm[b].tx = s.bm[b].tx /\ t.bm[b].queue = s.bm[b].queue
  BY DEF WritesBitmap
<1> QED BY ONLY <1>1, <1>2, <1>3, b \in Blocks, CalmBlk DEF Data

LEMMA UnlockCalm ==
  ASSUME NEW s \in VhdState, NEW t, NEW b \in Blocks, NEW d, t = unlock_if_unused(s, b)
  PROVE  Calm(s, t, d)
  BY UnlockEffect, CalmBlk

LEMMA BitmapWrittenCalm ==
  ASSUME NEW s, NEW t, NEW b \in Blocks, NEW io \in s.aio, NEW d, io.op = "bitmap_write",
         BitmapWritten(s, t, b, io)
  PROVE  Calm(s, t, d)
<1>1. /\ OnlyBlk(s, t, b) /\ t.req = s.req
      /\ t.bm[b].map = s.bm[b].map /\ t.bm[b].shadow = s.bm[b].shadow /\ t.bm[b].rd = s.bm[b].rd
      /\ t.bm[b].tx = s.bm[b].tx /\ t.bm[b].queue = s.bm[b].queue /\ t.aio = s.aio \ {io}
  BY DEF BitmapWritten
<1> QED BY <1>1, CalmBlk

(* The BAT write follows the write of zeros.                                *)
LEMMA ZeroEndsCalm ==
  ASSUME NEW s, NEW t, NEW b, NEW io \in s.aio, NEW d, io.op = "zero_bm", b = io.blk,
         Driver(s, NoReq, NoBlock), FileOK(s, d), s.up, io.landed, ZeroEnds(s, t, b, io)
  PROVE  Calm(s, t, d)
<1>1. s \in VhdState /\ b \in Blocks /\ IoOK(s, io) /\ BatOK(s, NoBlock) /\ BlkOK(s, b, NoBlock)
  BY IoField DEF Driver
<1>2. s.locked /\ s.pbw_blk = b /\ ~s.started /\ s.bm[b].tx.upd
  BY <1>1 DEF IoOK, Mine
<1>3. \A i \in s.aio : i.op # "bat"
  BY <1>2 DEF Driver, IoOK
<1>4. s.bat[b] = DD_BLK_UNUSED
  <2>1. HasIO(s, b, "zero_bm")
    BY DEF HasIO
  <2>2. b # NoBlock
    BY <1>1, BlkNo
  <2> QED BY <1>1, <1>2, <2>1, <2>2 DEF BatOK, Allocating, Failing, Done
<1>5. d.bat[b] = DD_BLK_UNUSED
  BY <1>1, <1>3, <1>4 DEF FileOK, FileBat, HasIO
<1>6. s.bm[b].tx \in Tx /\ t.bm[b].tx = finished(s.bm[b].tx, {zero_req})
  BY <1>1, BmField DEF ZeroEnds
<1>7. /\ t.bm[b].tx.err = s.bm[b].tx.err /\ t.bm[b].tx.upd = s.bm[b].tx.upd
      /\ t.bm[b].tx.reqs = s.bm[b].tx.reqs \ {zero_req}
  BY <1>6, FinishedFields
<1>8. View(s, t)
  <2>1. \A x \in Blocks : /\ t.bm[x].map = s.bm[x].map /\ t.bm[x].shadow = s.bm[x].shadow
                          /\ t.bm[x].rd = s.bm[x].rd
    BY DEF ZeroEnds
  <2> QED BY <2>1 DEF View, ZeroEnds, Mine
<1>9. ASSUME NEW x \in Blocks
      PROVE  /\ ~(t.bm[x].tx.upd /\ t.bat_tx /\ t.bm[x].tx.err = "ok")
             /\ \A r \in Reqs : r \in s.bm[x].tx.reqs \cup s.bm[x].queue
                            => r \in t.bm[x].tx.reqs \cup t.bm[x].queue
  <2>1. ~t.bat_tx
    BY DEF ZeroEnds
  <2>2. CASE x = b
    BY <2>1, <2>2, <1>7, NotMeta DEF ZeroEnds
  <2>3. CASE x # b
    BY <2>1, <2>3 DEF ZeroEnds
  <2> QED BY <2>2, <2>3
<1>10. /\ \A i \in t.aio : i \in s.aio \/ ( /\ ~i.landed /\ i.op \notin Data
                                            /\ i.op = "bat" => d.bat[i.blk] = DD_BLK_UNUSED )
       /\ \A i \in s.aio : i.op = "bat" => i \in t.aio
       /\ \A i \in s.aio : i.op = "zero_bm" /\ ~i.landed => i \in t.aio
  BY <1>3, <1>5 DEF ZeroEnds, Data
<1> QED BY <1>8, <1>9, <1>10 DEF Calm, ZeroEnds

LEMMA RedundantCalm ==
  ASSUME NEW s, NEW t, NEW b \in Blocks, NEW io, NEW d, io.op = "redundant_bm",
         OnlyBlk(s, t, b), t.bm[b] = s.bm[b], t.req = s.req,
         t.aio = s.aio \ {io} \/ (t.aio = s.aio \cup {io} /\ ~io.landed)
  PROVE  Calm(s, t, d)
<1>1. \A i \in t.aio : i \in s.aio \/ (~i.landed /\ i.op = "redundant_bm")
  OBVIOUS
<1>2. \A i \in s.aio : i.op # "redundant_bm" => i \in t.aio
  OBVIOUS
<1>3. /\ OnlyBlk(s, t, b) /\ t.req = s.req
      /\ t.bm[b].map = s.bm[b].map /\ t.bm[b].shadow = s.bm[b].shadow /\ t.bm[b].rd = s.bm[b].rd
      /\ t.bm[b].tx = s.bm[b].tx /\ t.bm[b].queue = s.bm[b].queue
  OBVIOUS
<1>4. /\ \A i \in s.aio : i.op = "bat" => i \in t.aio
      /\ \A i \in s.aio : i.op = "zero_bm" /\ ~i.landed => i \in t.aio
  BY <1>2
<1> QED BY ONLY <1>1, <1>3, <1>4, b \in Blocks, CalmBlk DEF Data

LEMMA NotesCalm ==
  ASSUME NEW s, NEW t, NEW d, Notes(s, t), ~s.locked
  PROVE  Calm(s, t, d)
<1>1. View(s, t)
  BY DEF View, Notes, Mine
<1> QED BY <1>1 DEF Calm, Notes

Listed(s, io) == io.req \in s.bm[io.blk].tx.reqs \cup s.bm[io.blk].queue

(* A request goes on: it keeps what it asks for, and an answer is right.    *)
ReqMoves(s, t, d, c, n, r) ==
  /\ t.req[r].op = s.req[r].op /\ t.req[r].sec = s.req[r].sec
  /\ r \in outstanding(t) => r \in outstanding(s)
  /\ accepted(s.req[r]) => accepted(t.req[r])
  /\ s.req[r].st \in {"free", "done"} => t.req[r] = s.req[r]
  /\ t.req[r].op = "read" => t.req[r].st = "done" \/ t.req[r].val = s.req[r].val
  /\ t.req[r].op = "write" =>
       /\ t.req[r].st \in {"finished", "done"} /\ t.req[r].err = "ok" => Fresh(s, d, c, n, r)
       /\ t.req[r].st = "done" /\ t.req[r].err = "ok" => Set(t, d, t.req[r].sec)
  /\ t.req[r].op = "read" /\ t.req[r].st = "done" /\ t.req[r].err = "ok" => t.req[r].val \in n[r]

LEMMA ReqRests ==
  ASSUME NEW s, NEW t, NEW d, NEW c, NEW n, NEW g, NEW r \in Reqs, History(s, d, c, n, g), s \in VhdState,
         t.req[r] = s.req[r], \A x \in Sectors : Set(s, d, x) => Set(t, d, x)
  PROVE  ReqMoves(s, t, d, c, n, r)
<1>1. s.req[r].sec \in Sectors
  BY SecField
<1>2. s.req[r].op = "write" => WriteOK(s, d, c, n, r, g)
  BY DEF History
<1>3. s.req[r].op = "read" => ReadOK(s, c, n, r)
  BY DEF History
<1> QED BY <1>1, <1>2, <1>3 DEF ReqMoves, WriteOK, ReadOK, outstanding

(* The slot of a block is the one it was, or the block has none any more    *)
(* and nothing is under way there.                                          *)
SlotKept(s, t, d, b) ==
  \/ Own(t, d, b) = Own(s, d, b)
  \/ d.bat[b] = DD_BLK_UNUSED /\ \A r \in outstanding(s) : blk_of(s.req[r].sec) # b

LEMMA FreshKept ==
  ASSUME NEW s \in VhdState, NEW t, NEW d, NEW c, NEW n, NEW g, NEW r \in Reqs, History(s, d, c, n, g),
         t.req[r].sec = s.req[r].sec, s.req[r].op = "write",
         SlotKept(s, t, d, blk_of(s.req[r].sec)), Fresh(s, d, c, n, r),
         r \in outstanding(s) \/ (s.req[r].st = "done" /\ s.req[r].err = "ok")
  PROVE  Fresh(t, d, c, n, r)
<1>1. WriteOK(s, d, c, n, r, g)
  BY DEF History
<1>2. CASE Own(t, d, blk_of(s.req[r].sec)) = Own(s, d, blk_of(s.req[r].sec))
  BY <1>2 DEF Fresh
<1>3. CASE d.bat[blk_of(s.req[r].sec)] = DD_BLK_UNUSED /\ r \notin outstanding(s)
  BY <1>1, <1>3 DEF WriteOK, Set
<1> QED BY <1>2, <1>3 DEF SlotKept

LEMMA HistStep ==
  ASSUME NEW s, NEW t, NEW d, NEW c, NEW n, NEW g, NEW h, NEW k, NEW h2, NEW k2,
         Driver(s, h, k), Driver(t, h2, k2), History(s, d, c, n, g),
         \A b \in Blocks : SlotKept(s, t, d, b),
         \A x \in Sectors : Set(s, d, x) => Set(t, d, x),
         GoodOK(t, d, c),
         \A r \in Reqs : ReqMoves(s, t, d, c, n, r),
         \A io \in t.aio : io.op \in Data =>
           \/ /\ io \in s.aio
              /\ Listed(s, io) => Listed(t, io) \/ io.op = "data_read"
                                                \/ Set(t, d, t.req[io.req].sec)
           \/ /\ ~io.landed
              /\ io.op = "data_read" => Good(t, d, c, t.req[io.req].sec)
              /\ io.op = "data_write" => Listed(t, io) \/ Set(t, d, t.req[io.req].sec)
  PROVE  History(t, d, c, n, g)
<1>1. s \in VhdState /\ t \in VhdState
  BY DEF Driver
<1>2. CandOK(t, c)
  BY DEF CandOK, History, ReqMoves
<1>3. ParentOK(t, d, c)
  BY DEF ParentOK, History
<1>4. ASSUME NEW r \in Reqs, t.req[r].op = "write" PROVE WriteOK(t, d, c, n, r, g)
  <2>1. ReqMoves(s, t, d, c, n, r)
    OBVIOUS
  <2>2. s.req[r].op = "write" /\ WriteOK(s, d, c, n, r, g)
    BY <1>4, <2>1 DEF ReqMoves, History
  <2>3. r \in outstanding(t) /\ r # g => r \in c[t.req[r].sec]
    BY <2>1, <2>2 DEF ReqMoves, WriteOK
  <2>4. ASSUME t.req[r].st \in {"finished", "done"}, t.req[r].err = "ok" PROVE Fresh(t, d, c, n, r)
    <3>1. Fresh(s, d, c, n, r)
      BY <1>4, <2>1, <2>4 DEF ReqMoves
    <3>2. blk_of(s.req[r].sec) \in Blocks
      BY <1>1, ReqField
    <3>3. r \in outstanding(s) \/ (s.req[r].st = "done" /\ s.req[r].err = "ok")
      <4>1. s.req[r].st \in {"free", "waiting", "io", "finished", "done"}
        BY <1>1 DEF VhdState, Request
      <4> QED BY <2>1, <2>4, <4>1 DEF ReqMoves, outstanding
    <3> QED BY <1>1, <2>1, <2>2, <3>1, <3>2, <3>3, FreshKept DEF ReqMoves
  <2>5. t.req[r].st = "done" /\ t.req[r].err = "ok" => Set(t, d, t.req[r].sec)
    BY <1>4, <2>1 DEF ReqMoves
  <2>6. \A v \in n[r] : v \in Reqs => t.req[v].st = "done" /\ t.req[v].err # "EBUSY"
    <3>1. \A v \in n[r] : v \in Reqs => s.req[v].st = "done" /\ s.req[v].err # "EBUSY"
      BY <2>2 DEF WriteOK
    <3> QED BY <3>1 DEF ReqMoves
  <2> QED BY <2>3, <2>4, <2>5, <2>6 DEF WriteOK
<1>5. ASSUME NEW r \in Reqs, t.req[r].op = "read" PROVE ReadOK(t, c, n, r)
  <2>1. ReqMoves(s, t, d, c, n, r)
    OBVIOUS
  <2>2. s.req[r].op = "read" /\ ReadOK(s, c, n, r)
    BY <1>5, <2>1 DEF ReqMoves, History
  <2> QED BY <1>5, <2>1, <2>2 DEF ReadOK, ReqMoves
<1>6. ASSUME NEW io \in t.aio PROVE IoHist(t, d, c, n, io)
  <2>1. IoOK(t, io) /\ (io.op \in Data => io.req \in Reqs)
    BY <1>1, IoField DEF Driver, Data
  <2>2. CASE io.op = "data_read"
    <3>1. io.req \in Reqs /\ t.req[io.req].st = "io" /\ ReqMoves(s, t, d, c, n, io.req)
          /\ t.req[io.req].op = "read"
      BY <2>1, <2>2 DEF IoOK, Data
    <3>2. io.req \in outstanding(s) /\ t.req[io.req].val = s.req[io.req].val
          /\ t.req[io.req].sec = s.req[io.req].sec
      BY <3>1 DEF ReqMoves, outstanding
    <3>3. blk_of(t.req[io.req].sec) \in Blocks
      BY <1>1, <3>1, ReqField
    <3>4. CASE io \in s.aio
      <4>1. IoHist(s, d, c, n, io)
        BY <3>4 DEF History
      <4>2. Own(t, d, blk_of(t.req[io.req].sec)) = Own(s, d, blk_of(t.req[io.req].sec))
        BY <3>2, <3>3 DEF SlotKept
      <4> QED BY <2>2, <3>2, <4>1, <4>2 DEF IoHist, Good
    <3>5. CASE io \notin s.aio
      BY <2>2, <3>5 DEF IoHist, Data
    <3> QED BY <3>4, <3>5
  <2>3. CASE io.op = "data_write"
    <3>1. io.req \in Reqs /\ t.req[io.req].st = "io" /\ ReqMoves(s, t, d, c, n, io.req)
          /\ t.req[io.req].op = "write"
      BY <2>1, <2>3 DEF IoOK, Data
    <3>2. io.req \in outstanding(s) /\ t.req[io.req].sec = s.req[io.req].sec
          /\ s.req[io.req].op = "write"
      BY <3>1 DEF ReqMoves, outstanding
    <3>3. blk_of(s.req[io.req].sec) \in Blocks /\ s.req[io.req].sec \in Sectors
      BY <1>1, <3>1, ReqField, SecField
    <3>4. CASE io \in s.aio
      <4>1. IoHist(s, d, c, n, io)
        BY <3>4 DEF History
      <4>2. io.landed => Fresh(t, d, c, n, io.req)
        BY <1>1, <2>3, <3>1, <3>2, <3>3, <4>1, FreshKept DEF IoHist
      <4>3. ~Listed(t, io) => Set(t, d, t.req[io.req].sec)
        BY <2>3, <3>2, <3>3, <3>4, <4>1 DEF IoHist, Listed, Data
      <4> QED BY <2>3, <4>2, <4>3 DEF IoHist, Listed
    <3>5. CASE io \notin s.aio
      BY <2>3, <3>5 DEF IoHist, Data, Listed
    <3> QED BY <3>4, <3>5
  <2>4. CASE io.op \notin Data
    BY <2>4 DEF IoHist, Data
  <2> QED BY <2>2, <2>3, <2>4 DEF Data
<1> QED BY <1>2, <1>3, <1>4, <1>5, <1>6 DEF History

(* The file and the history are as they should be while the driver runs.    *)
FH(s, d, c, n, g) == s.up /\ FileOK(s, d) /\ History(s, d, c, n, g)

(* Two sectors at the same offset in the same block are one.                *)
LEMMA SameSector ==
  ASSUME NEW x \in Sectors, NEW y \in Sectors, blk_of(x) = blk_of(y), sec_of(x) = sec_of(y)
  PROVE  x = y
<1>1. SPB \in Nat \ {0} /\ x \in Int /\ y \in Int
  BY ConstantsAssumption DEF Sectors
<1>2. x = SPB * (x \div SPB) + (x % SPB) /\ y = SPB * (y \div SPB) + (y % SPB)
  BY <1>1
<1> QED BY <1>2 DEF blk_of, sec_of

(* The slot a block's bitmap is written to.                                 *)
MapSlot(s, b) == IF s.bat[b] = DD_BLK_UNUSED THEN s.pbw_offset ELSE s.bat[b]

(* The bitmap a transaction has prepared is in the file.                    *)
Stored(s, d, b) == s.bm[b].tx.err = "ok" => s.bm[b].shadow \subseteq d.map[MapSlot(s, b)]

LEMMA FileBatFrame ==
  ASSUME NEW s, NEW t, NEW h, NEW k, NEW d, Driver(s, h, k), FileBat(s, d), s.up, t.up,
         t.bat = s.bat, \A b \in Blocks : Mine(t, b) <=> Mine(s, b),
         s.locked => t.pbw_offset = s.pbw_offset,
         s.batmap \subseteq t.batmap, \A b \in t.batmap : d.bat[b] # DD_BLK_UNUSED,
         \A io \in t.aio : io.op = "bat" => io \in s.aio,
         \A io \in s.aio : io.op = "bat" => io \in t.aio
  PROVE  FileBat(t, d)
<1>2. \A b \in Blocks : HasIO(s, b, "bat") => HasIO(t, b, "bat")
  BY DEF HasIO
<1>3. \A io \in s.aio : io.op = "bat" => s.locked
  BY DEF Driver, IoOK, Mine
<1>4. \A b \in Blocks : \/ d.bat[b] = t.bat[b]
                        \/ /\ t.bat[b] = DD_BLK_UNUSED /\ Mine(t, b) /\ d.bat[b] = t.pbw_offset
                           /\ HasIO(t, b, "bat")
  BY <1>2 DEF FileBat, Mine
<1>5. \A io \in t.aio : io.op = "bat" =>
        d.bat[io.blk] = IF io.landed THEN t.pbw_offset ELSE DD_BLK_UNUSED
  BY <1>3 DEF FileBat
<1> QED BY <1>4, <1>5 DEF FileBat

LEMMA EndHist ==
  ASSUME NEW s, NEW t, NEW b \in Blocks, NEW d, NEW c, NEW n, NEW g, Driver(s, NoReq, b), Driver(t, NoReq, b),
         Ready(s, b), ~s.bm[b].tx.upd, Ends(s, t, b), FH(s, d, c, n, g), Stored(s, d, b)
  PROVE  FH(t, d, c, n, g)
<1> DEFINE m == s.bm[b]
           R == m.tx.reqs \cap Reqs
<1>1. s \in VhdState /\ t \in VhdState /\ BlkOK(s, b, b) /\ FileBat(s, d) /\ FileMap(s, d)
      /\ History(s, d, c, n, g) /\ s.up
  BY DEF Driver, FH, FileOK
<1>2. /\ NoAlloc(s, b) /\ ~m.rd /\ b \in s.cached
      /\ \A r \in Reqs : r \in m.tx.reqs =>
              s.req[r].st = "finished" /\ blk_of(s.req[r].sec) = b /\ s.req[r].op = "write"
      /\ \A i \in s.aio : i.req \in m.tx.reqs /\ i.req \in Reqs => i.op \notin Data
      /\ m.tx.err = "ok" => s.bat[b] # DD_BLK_UNUSED
  BY ReadyFacts
<1>3. /\ SameBat(s, t) /\ t.up = s.up /\ t.cached = s.cached /\ t.aio = s.aio
      /\ \A x \in Blocks : x # b => t.bm[x] = s.bm[x]
      /\ t.batmap = (IF m.tx.err = "ok" /\ m.shadow = Secs THEN s.batmap \cup {b} ELSE s.batmap)
      /\ t.bm[b].rd = m.rd /\ t.bm[b].queue = m.queue /\ t.bm[b].tx = init_tx
      /\ t.bm[b].map = (IF m.tx.err = "ok" THEN m.shadow ELSE m.map)
      /\ t.bm[b].shadow = t.bm[b].map
  BY DEF Ends
<1>4. \A r \in Reqs :
           /\ r \in R => /\ t.req[r].st = "done" /\ t.req[r].sec = s.req[r].sec
                         /\ t.req[r].op = s.req[r].op
                         /\ t.req[r].err = (IF m.tx.err # "ok" THEN m.tx.err ELSE s.req[r].err)
           /\ r \notin R => t.req[r] = s.req[r]
  BY DEF Ends
<1>5. m.tx.err = "ok" => /\ d.bat[b] = s.bat[b] /\ d.bat[b] # DD_BLK_UNUSED
                         /\ m.shadow \subseteq d.map[d.bat[b]]
  BY <1>1, <1>2 DEF FileBat, Stored, MapSlot
<1>6. ~m.wr /\ m.map \subseteq m.shadow
  BY <1>1, <1>2 DEF Ready, BlkOK
<1>7. \A i \in s.aio : i.blk = b => i.op \notin {"bitmap_read", "bitmap_write", "zero_bm", "bat"}
  BY <1>2, <1>6 DEF Driver, IoOK, NoAlloc, HasIO
<1> HIDE DEF m, R
<1>8. \A x \in Blocks : Mine(t, x) <=> Mine(s, x)
  BY <1>3 DEF Mine, SameBat
<1>9. FileBat(t, d)
  <2>1. \A x \in t.batmap : d.bat[x] # DD_BLK_UNUSED
    BY <1>1, <1>3, <1>5 DEF FileBat
  <2>2. s.batmap \subseteq t.batmap /\ t.bat = s.bat /\ t.pbw_offset = s.pbw_offset
    BY <1>3 DEF SameBat
  <2> QED BY <1>1, <1>3, <1>8, <2>1, <2>2, FileBatFrame
<1>10. FileMap(t, d)
  <2>1. ASSUME NEW x \in t.batmap \cup d.batmap PROVE d.map[d.bat[x]] = Secs
    <3>1. CASE x \in s.batmap \cup d.batmap
      BY <3>1, <1>1 DEF FileMap
    <3>2. CASE x = b /\ m.tx.err = "ok" /\ m.shadow = Secs
      <4>1. d.bat[b] \in Slots
        BY <1>1, <1>5, <3>2 DEF FileBat, DiskState, Entries
      <4>2. d.map[d.bat[b]] \subseteq Secs
        BY <1>1, <4>1 DEF FileBat, DiskState
      <4> QED BY <3>2, <4>2, <1>5
    <3> QED BY <2>1, <3>1, <3>2, <1>3
  <2>2. ASSUME NEW x \in Blocks, x \in t.cached, ~t.bm[x].rd, t.bat[x] # DD_BLK_UNUSED
        PROVE  t.bm[x].map \subseteq d.map[t.bat[x]]
    <3>1. x \in s.cached /\ ~s.bm[x].rd /\ t.bat[x] = s.bat[x]
      BY <2>2, <1>3 DEF SameBat, m
    <3>2. s.bm[x].map \subseteq d.map[s.bat[x]]
      BY <1>1, <2>2, <3>1 DEF FileMap
    <3> QED BY <3>1, <3>2, <1>3, <1>5 DEF m
  <2>3. ASSUME NEW x \in Blocks, t.bm[x].tx.upd, t.bat_tx, t.bm[x].tx.err = "ok"
        PROVE  t.bm[x].shadow \subseteq d.map[t.pbw_offset]
    <3>1. x # b
      BY <2>3, <1>3, InitBm
    <3> QED BY <1>1, <1>3, <2>3, <3>1 DEF FileMap, SameBat
  <2>4. ASSUME NEW io \in t.aio, io.landed
        PROVE /\ io.op = "bitmap_read" => t.bm[io.blk].map = d.map[io.slot]
              /\ io.op = "bitmap_write" => t.bm[io.blk].shadow \subseteq d.map[io.slot]
              /\ io.op = "zero_bm" => d.map[io.slot] = {}
    <3>1. io \in s.aio /\ io.blk \in Blocks
      BY <1>1, <1>3, IoField
    <3> QED BY <1>1, <1>3, <1>7, <2>4, <3>1 DEF FileMap
  <2> QED BY <2>1, <2>2, <2>3, <2>4 DEF FileMap
<1>11. \A x \in Blocks : Own(t, d, x) = Own(s, d, x)
  BY <1>3, <1>8 DEF Own, SameBat
<1>12. \A x \in Sectors : Set(s, d, x) => Set(t, d, x)
  <2>1. \A x \in Blocks : x \in t.cached /\ ~t.bm[x].rd => x \in s.cached /\ ~s.bm[x].rd
                                                          /\ s.bm[x].map \subseteq t.bm[x].map
    BY <1>3, <1>6 DEF m
  <2> QED BY <1>3, <2>1, Geometry DEF Set, SameBat
<1>13. GoodOK(t, d, c)
  <2>1. GoodOK(s, d, c) /\ \A x \in Blocks : Zeroed(t, x) <=> Zeroed(s, x)
    BY <1>1, <1>3 DEF History, Zeroed
  <2>2. \A x \in Blocks : t.bm[x] = s.bm[x] \/ t.bm[x].shadow = t.bm[x].map
    BY <1>3
  <2> QED BY ONLY <1>11, <2>1, <2>2, Geometry DEF GoodOK, Good
<1>14. ASSUME NEW r \in Reqs PROVE ReqMoves(s, t, d, c, n, r)
  <2>1. CASE r \notin R
    BY <1>1, <1>4, <1>12, <2>1, ReqRests
  <2>2. CASE r \in R
    <3>1. /\ s.req[r].st = "finished" /\ blk_of(s.req[r].sec) = b /\ s.req[r].op = "write"
          /\ r \in m.tx.reqs
      BY <1>2, <2>2 DEF R, m
    <3>2. WriteOK(s, d, c, n, r, g) /\ s.req[r].sec \in Sectors
      BY <1>1, <3>1, SecField DEF History
    <3>3. /\ t.req[r].st = "done" /\ t.req[r].sec = s.req[r].sec /\ t.req[r].op = s.req[r].op
          /\ t.req[r].err = (IF m.tx.err # "ok" THEN m.tx.err ELSE s.req[r].err)
      BY <1>4, <2>2
    <3>4. s.req[r].err # "EBUSY" /\ m.tx.err # "EBUSY"
      BY <1>1, <3>1 DEF Driver, ReqOK, BlkOK, m
    <3>5. ASSUME t.req[r].err = "ok" PROVE Fresh(s, d, c, n, r) /\ Set(t, d, t.req[r].sec)
      <4>1. m.tx.err = "ok" /\ s.req[r].err = "ok"
        BY <3>3, <3>5
      <4>2. Fresh(s, d, c, n, r)
        BY <3>1, <3>2, <4>1 DEF WriteOK
      <4>3. sec_of(s.req[r].sec) \in m.shadow
        BY <3>1, <4>1 DEF Driver, MemOK, m
      <4>4. sec_of(s.req[r].sec) \in d.map[d.bat[b]] /\ t.bm[b].map = m.shadow
        BY <4>1, <4>3, <1>3, <1>5
      <4>5. Set(t, d, s.req[r].sec)
        BY <1>3, <1>5, <3>1, <4>1, <4>3, <4>4 DEF Set, SameBat
      <4> QED BY <3>3, <4>2, <4>5
    <3> QED BY <3>1, <3>3, <3>4, <3>5 DEF ReqMoves, outstanding, accepted
  <2> QED BY <2>1, <2>2
<1>15. ASSUME NEW io \in t.aio, io.op \in Data, Listed(s, io) PROVE Listed(t, io)
  <2>1. io \in s.aio /\ io.blk \in Blocks /\ io.req \in Reqs
    BY <1>1, <1>3, <1>15, IoField DEF Data
  <2>2. CASE io.blk # b
    BY <1>3, <1>15, <2>1, <2>2 DEF Listed
  <2>3. CASE io.blk = b
    BY <1>2, <1>3, <1>15, <2>1, <2>3 DEF Listed, m
  <2> QED BY <2>2, <2>3
<1>16. History(t, d, c, n, g)
  BY <1>1, <1>3, <1>11, <1>12, <1>13, <1>14, <1>15, HistStep DEF SlotKept
<1> QED BY <1>1, <1>3, <1>9, <1>10, <1>16 DEF FH, FileOK

(* Only the shadow of block b's bitmap, its transaction and some requests   *)
(* are different, and no bitmap of b is being read or written.              *)
ShadowOnly(s, t, b) ==
  /\ OnlyBlk(s, t, b) /\ t.bm[b].map = s.bm[b].map /\ t.bm[b].rd = s.bm[b].rd /\ ~s.bm[b].wr
  /\ ~(t.bm[b].tx.upd /\ t.bat_tx)
  /\ \A io \in t.aio : io \in s.aio
  /\ \A io \in s.aio : io.op \notin Data => io \in t.aio

LEMMA ShadowFile ==
  ASSUME NEW s, NEW t, NEW b \in Blocks, NEW h, NEW k, NEW d, Driver(s, h, k), t \in VhdState,
         FileOK(s, d), s.up, ShadowOnly(s, t, b)
  PROVE  /\ FileOK(t, d)
         /\ \A x \in Blocks : Own(t, d, x) = Own(s, d, x)
         /\ \A x \in Sectors : Set(t, d, x) <=> Set(s, d, x)
         /\ \A x \in Blocks : Zeroed(t, x) => Zeroed(s, x)
<1>1. s \in VhdState /\ FileBat(s, d) /\ FileMap(s, d)
  BY DEF Driver, FileOK
<1>2. /\ SameBat(s, t) /\ t.up = s.up /\ t.batmap = s.batmap /\ t.cached = s.cached
      /\ \A x \in Blocks : x # b => t.bm[x] = s.bm[x]
      /\ t.bm[b].map = s.bm[b].map /\ t.bm[b].rd = s.bm[b].rd /\ ~s.bm[b].wr
      /\ ~(t.bm[b].tx.upd /\ t.bat_tx)
      /\ \A io \in t.aio : io \in s.aio
      /\ \A io \in s.aio : io.op \notin Data => io \in t.aio
  BY DEF ShadowOnly, OnlyBlk
<1>3. \A x \in Blocks : Mine(t, x) <=> Mine(s, x)
  BY <1>2 DEF Mine, SameBat
<1>4. \A x \in Blocks : Own(t, d, x) = Own(s, d, x)
  BY <1>2, <1>3 DEF Own, SameBat
<1>5. \A x \in Blocks : t.bm[x].map = s.bm[x].map /\ t.bm[x].rd = s.bm[x].rd
  BY <1>2
<1>6. \A x \in Sectors : Set(t, d, x) <=> Set(s, d, x)
  BY <1>2, <1>5, Geometry DEF Set, SameBat
<1>7. FileBat(t, d)
  <2>1. t.bat = s.bat /\ t.pbw_offset = s.pbw_offset /\ t.up /\ s.batmap \subseteq t.batmap
    BY <1>2 DEF SameBat
  <2>2. \A x \in t.batmap : d.bat[x] # DD_BLK_UNUSED
    BY <1>1, <1>2 DEF FileBat
  <2>3. /\ \A io \in t.aio : io.op = "bat" => io \in s.aio
        /\ \A io \in s.aio : io.op = "bat" => io \in t.aio
    BY <1>2 DEF Data
  <2> QED BY <1>1, <1>3, <2>1, <2>2, <2>3, FileBatFrame
<1>8. FileMap(t, d)
  <2>1. \A x \in t.batmap \cup d.batmap : d.map[d.bat[x]] = Secs
    BY <1>1, <1>2 DEF FileMap
  <2>2. \A x \in Blocks : x \in t.cached /\ ~t.bm[x].rd /\ t.bat[x] # DD_BLK_UNUSED
                            => t.bm[x].map \subseteq d.map[t.bat[x]]
    BY <1>1, <1>2, <1>5 DEF FileMap, SameBat
  <2>3. ASSUME NEW x \in Blocks, t.bm[x].tx.upd, t.bat_tx, t.bm[x].tx.err = "ok"
        PROVE  t.bm[x].shadow \subseteq d.map[t.pbw_offset]
    <3>1. x # b
      BY <2>3, <1>2
    <3> QED BY <1>1, <1>2, <2>3, <3>1 DEF FileMap, SameBat
  <2>4. ASSUME NEW io \in t.aio, io.landed
        PROVE /\ io.op = "bitmap_read" => t.bm[io.blk].map = d.map[io.slot]
              /\ io.op = "bitmap_write" => t.bm[io.blk].shadow \subseteq d.map[io.slot]
              /\ io.op = "zero_bm" => d.map[io.slot] = {}
    <3>1. io \in s.aio /\ io.blk \in Blocks /\ IoOK(s, io)
      BY <1>1, <1>2, IoField DEF Driver
    <3>2. io.op = "bitmap_write" => io.blk # b
      BY <1>2, <3>1 DEF IoOK
    <3> QED BY <1>1, <1>2, <1>5, <2>4, <3>1, <3>2 DEF FileMap
  <2> QED BY <2>1, <2>2, <2>3, <2>4 DEF FileMap
<1>9. \A x \in Blocks : Zeroed(t, x) => Zeroed(s, x)
  BY <1>2 DEF Zeroed, Data
<1> QED BY <1>4, <1>6, <1>7, <1>8, <1>9 DEF FileOK

LEMMA PromoteHist ==
  ASSUME NEW s, NEW t, NEW b \in Blocks, NEW d, NEW c, NEW n, NEW g, Driver(s, NoReq, b), Driver(t, NoReq, b),
         s.bm[b].tx = init_tx, ~s.bm[b].wr, s.bm[b].queue # {}, Promotes(s, t, b), FH(s, d, c, n, g)
  PROVE  FH(t, d, c, n, g)
<1>1. s \in VhdState /\ t \in VhdState /\ BlkOK(s, b, b) /\ MemOK(s, b)
      /\ FileOK(s, d) /\ History(s, d, c, n, g) /\ s.up
  BY DEF Driver, FH
<1>2. /\ OnlyBlk(s, t, b) /\ t.req = s.req /\ t.aio = s.aio
      /\ t.bm[b].rd = s.bm[b].rd /\ t.bm[b].map = s.bm[b].map
      /\ t.bm[b].shadow = s.bm[b].shadow \cup {sec_of(s.req[r].sec) : r \in OverOK(s, b)}
      /\ t.bm[b].tx.upd = s.bm[b].tx.upd
      /\ t.bm[b].tx.reqs = s.bm[b].tx.reqs \cup s.bm[b].queue
  BY DEF Promotes
<1>3. ~s.bm[b].tx.upd /\ ~s.bm[b].tx.live /\ s.bm[b].tx.reqs = {}
  BY InitBm
<1>4. ~s.bm[b].rd /\ s.bm[b].shadow = s.bm[b].map
  BY <1>1, <1>3 DEF BlkOK
<1>5. ShadowOnly(s, t, b)
  BY <1>2, <1>3 DEF ShadowOnly
<1>6. /\ FileOK(t, d)
      /\ \A x \in Blocks : Own(t, d, x) = Own(s, d, x)
      /\ \A x \in Sectors : Set(t, d, x) <=> Set(s, d, x)
      /\ \A x \in Blocks : Zeroed(t, x) => Zeroed(s, x)
  BY <1>1, <1>5, ShadowFile
<1>7. ASSUME NEW r \in OverOK(s, b), NEW x \in Sectors, blk_of(x) = b, sec_of(x) = sec_of(s.req[r].sec)
      PROVE  Own(s, d, b) # DD_BLK_UNUSED /\ Good(s, d, c, x)
  <2>1. r \in s.bm[b].queue /\ s.req[r].st = "finished" /\ s.req[r].err = "ok"
    BY DEF OverOK, Over
  <2>2. r \in Reqs
    BY <1>1, <2>1, BmField DEF Bitmap
  <2>3. s.req[r].op = "write" /\ blk_of(s.req[r].sec) = b /\ s.req[r].sec \in Sectors
    BY <1>1, <2>1, <2>2, SecField DEF MemOK
  <2>4. x = s.req[r].sec
    BY <1>7, <2>3, SameSector
  <2>5. Fresh(s, d, c, n, r)
    BY <1>1, <2>1, <2>2, <2>3 DEF History, WriteOK
  <2> QED BY <2>3, <2>4, <2>5 DEF Fresh, Good
<1>8. GoodOK(t, d, c)
  <2>1. GoodOK(s, d, c)
    BY <1>1 DEF History
  <2>2. ASSUME NEW x \in Sectors
        PROVE  LET y == blk_of(x)
               IN  sec_of(x) \in t.bm[y].shadow /\ sec_of(x) \notin t.bm[y].map /\ ~t.bm[y].rd
                      => Own(t, d, y) # DD_BLK_UNUSED /\ Good(t, d, c, x)
    <3>1. blk_of(x) \in Blocks
      BY Geometry
    <3>2. CASE blk_of(x) = b
      BY <1>2, <1>4, <1>6, <1>7, <3>2 DEF Good
    <3>3. CASE blk_of(x) # b
      <4>1. t.bm[blk_of(x)] = s.bm[blk_of(x)]
        BY <1>2, <3>1, <3>3 DEF OnlyBlk
      <4> QED BY <1>6, <2>1, <3>1, <4>1 DEF GoodOK, Good
    <3> QED BY <3>2, <3>3
  <2> QED BY ONLY <1>6, <2>1, <2>2, Geometry DEF GoodOK, Good
<1>9. \A r \in Reqs : ReqMoves(s, t, d, c, n, r)
  BY <1>1, <1>2, <1>6, ReqRests
<1>10. \A io \in t.aio : Listed(s, io) => Listed(t, io)
  <2>1. \A io \in t.aio : io.blk \in Blocks
    BY <1>1, IoField
  <2> QED BY <2>1, <1>2, <1>3 DEF Listed, OnlyBlk
<1>11. History(t, d, c, n, g)
  BY <1>1, <1>2, <1>6, <1>8, <1>9, <1>10, HistStep DEF SlotKept
<1> QED BY <1>1, <1>2, <1>6, <1>11 DEF FH, OnlyBlk

(* A write of a transaction is over.                                        *)
LEMMA TxWriteHist ==
  ASSUME NEW s, NEW t, NEW io \in s.aio, NEW b, NEW r, b = io.blk, r = io.req,
         NEW d, NEW c, NEW n, NEW g, Driver(s, NoReq, NoBlock), Driver(t, NoReq, b),
         io.op = "data_write", r \in s.bm[b].tx.reqs, TxWritten(s, t, b, r, io),
         ~t.bm[b].wr, ~(t.bm[b].tx.upd /\ t.bat_tx),
         t.req[r].err = "ok" => io.landed, FH(s, d, c, n, g)
  PROVE  FH(t, d, c, n, g)
<1>1. s \in VhdState /\ t \in VhdState /\ b \in Blocks /\ r \in Reqs /\ IoOK(s, io) /\ IoHist(s, d, c, n, io)
      /\ FileOK(s, d) /\ History(s, d, c, n, g) /\ s.up
  BY IoField DEF Driver, FH, History
<1>2. /\ OnlyBlk(s, t, b) /\ t.aio = s.aio \ {io}
      /\ \A q \in Reqs : q # r => t.req[q] = s.req[q]
      /\ t.req[r].st = "finished" /\ t.req[r].sec = s.req[r].sec /\ t.req[r].op = s.req[r].op
      /\ t.req[r].err # "EBUSY"
      /\ t.bm[b].rd = s.bm[b].rd /\ t.bm[b].wr = s.bm[b].wr
      /\ t.bm[b].map = s.bm[b].map /\ t.bm[b].queue = s.bm[b].queue
      /\ t.bm[b].shadow = (IF t.req[r].err = "ok" THEN s.bm[b].shadow \cup {sec_of(s.req[r].sec)}
                           ELSE s.bm[b].shadow)
      /\ t.bm[b].tx = counted(s.bm[b].tx)
  BY DEF TxWritten
<1>3. t.bm[b].tx.reqs = s.bm[b].tx.reqs
  BY <1>1, <1>2, BmField, TxFields
<1>4. ShadowOnly(s, t, b)
  <2>1. \A i \in s.aio : i.op \notin Data => i \in t.aio
    BY <1>2 DEF Data
  <2> QED BY <1>2, <2>1 DEF ShadowOnly
<1>5. /\ FileOK(t, d)
      /\ \A x \in Blocks : Own(t, d, x) = Own(s, d, x)
      /\ \A x \in Sectors : Set(t, d, x) <=> Set(s, d, x)
      /\ \A x \in Blocks : Zeroed(t, x) => Zeroed(s, x)
  BY <1>1, <1>4, ShadowFile
<1>6. /\ s.req[r].st = "io" /\ s.req[r].op = "write" /\ blk_of(s.req[r].sec) = b
      /\ s.req[r].sec \in Sectors
  BY <1>1, SecField DEF IoOK
<1>7. t.req[r].err = "ok" => Fresh(s, d, c, n, r)
  BY <1>1 DEF IoHist
<1>8. GoodOK(t, d, c)
  <2>1. GoodOK(s, d, c)
    BY <1>1 DEF History
  <2>2. ASSUME NEW x \in Sectors
        PROVE  LET y == blk_of(x)
               IN  sec_of(x) \in t.bm[y].shadow /\ sec_of(x) \notin t.bm[y].map /\ ~t.bm[y].rd
                      => Own(t, d, y) # DD_BLK_UNUSED /\ Good(t, d, c, x)
    <3>1. blk_of(x) \in Blocks
      BY Geometry
    <3>2. CASE blk_of(x) = b /\ sec_of(x) = sec_of(s.req[r].sec) /\ t.req[r].err = "ok"
      <4>1. x = s.req[r].sec
        BY <1>6, <3>2, SameSector
      <4> QED BY <1>5, <1>6, <1>7, <3>1, <3>2, <4>1 DEF Fresh, Good
    <3>3. CASE blk_of(x) = b /\ ~(sec_of(x) = sec_of(s.req[r].sec) /\ t.req[r].err = "ok")
      <4>1. sec_of(x) \in t.bm[b].shadow => sec_of(x) \in s.bm[b].shadow
        BY <1>2, <3>3
      <4> QED BY <1>2, <1>5, <2>1, <3>1, <3>3, <4>1 DEF GoodOK, Good
    <3>4. CASE blk_of(x) # b
      <4>1. t.bm[blk_of(x)] = s.bm[blk_of(x)]
        BY <1>2, <3>1, <3>4 DEF OnlyBlk
      <4> QED BY <1>5, <2>1, <3>1, <4>1 DEF GoodOK, Good
    <3> QED BY <3>2, <3>3, <3>4
  <2> QED BY ONLY <1>5, <2>1, <2>2, Geometry DEF GoodOK, Good
<1>9. ASSUME NEW q \in Reqs PROVE ReqMoves(s, t, d, c, n, q)
  <2>1. CASE q # r
    BY <1>1, <1>2, <1>5, <2>1, ReqRests
  <2>2. CASE q = r
    BY <1>2, <1>6, <1>7, <2>2 DEF ReqMoves, outstanding, accepted
  <2> QED BY <2>1, <2>2
<1>10. \A i \in t.aio : Listed(s, i) => Listed(t, i)
  <2>1. \A i \in t.aio : i.blk \in Blocks
    BY <1>1, IoField
  <2> QED BY <2>1, <1>2, <1>3 DEF Listed, OnlyBlk
<1>11. History(t, d, c, n, g)
  BY <1>1, <1>2, <1>5, <1>8, <1>9, <1>10, HistStep DEF SlotKept
<1> QED BY <1>1, <1>2, <1>5, <1>11 DEF FH, OnlyBlk

LEMMA SameView ==
  ASSUME NEW s, NEW t, NEW b \in Blocks, OnlyBlk(s, t, b), t.bm[b] = s.bm[b]
  PROVE  View(s, t) /\ t.batmap = s.batmap /\ t.bat_tx = s.bat_tx /\ \A x \in Blocks : t.bm[x] = s.bm[x]
<1>1. \A x \in Blocks : t.bm[x] = s.bm[x]
  BY DEF OnlyBlk
<1> QED BY <1>1 DEF View, OnlyBlk, SameBat, Mine

LEMMA DataHist ==
  ASSUME NEW s, NEW t, NEW io \in s.aio, NEW b, NEW r, b = io.blk, r = io.req,
         NEW d, NEW c, NEW n, NEW g,
         Driver(s, NoReq, NoBlock), Driver(t, NoReq, NoBlock), io.op \in Data,
         OnlyBlk(s, t, b), t.bm[b] = s.bm[b], t.aio = s.aio \ {io},
         \A q \in Reqs : q # r => t.req[q] = s.req[q],
         t.req[r].sec = s.req[r].sec, t.req[r].op = s.req[r].op, t.req[r].err # "EBUSY",
         t.req[r].val = s.req[r].val, t.req[r].err = "ok" => io.landed,
         \/ r \notin s.bm[b].tx.reqs \cup s.bm[b].queue /\ t.req[r].st = "done"
         \/ io.op = "data_write" /\ t.req[r].st = "finished",
         FH(s, d, c, n, g)
  PROVE  FH(t, d, c, n, g)
<1>1. s \in VhdState /\ t \in VhdState /\ b \in Blocks /\ r \in Reqs /\ IoOK(s, io) /\ IoHist(s, d, c, n, io)
      /\ FileOK(s, d) /\ History(s, d, c, n, g) /\ s.up
  BY IoField DEF Driver, FH, History, Data
<1>2. View(s, t) /\ t.batmap = s.batmap /\ t.bat_tx = s.bat_tx /\ \A x \in Blocks : t.bm[x] = s.bm[x]
  BY <1>1, SameView
<1>3. FileOK(t, d)
  <2>1. \A i \in s.aio : i.op = "bat" => i \in t.aio
    BY DEF Data
  <2>2. \A i \in t.aio : i \in s.aio
    OBVIOUS
  <2> QED BY <1>1, <1>2, <2>1, <2>2, FileFrame
<1>4. /\ \A x \in Blocks : Own(t, d, x) = Own(s, d, x)
      /\ \A x \in Sectors : Set(t, d, x) <=> Set(s, d, x)
      /\ \A x \in Sectors : Good(t, d, c, x) <=> Good(s, d, c, x)
  BY <1>2, ViewSame
<1>5. GoodOK(t, d, c)
  <2>1. GoodOK(s, d, c)
    BY <1>1 DEF History
  <2>2. \A x \in Blocks : Zeroed(t, x) => Zeroed(s, x)
    BY DEF Zeroed, Data
  <2> QED BY ONLY <1>2, <1>4, <2>1, <2>2, Geometry DEF GoodOK
<1>6. s.req[r].st = "io" /\ s.req[r].sec \in Sectors
  BY <1>1, SecField DEF IoOK, Data
<1>7. ASSUME NEW q \in Reqs PROVE ReqMoves(s, t, d, c, n, q)
  <2>1. CASE q # r
    BY <1>1, <1>4, <2>1, ReqRests
  <2>2. CASE q = r /\ io.op = "data_read"
    <3>1. s.req[r].op = "read"
      BY <1>1, <2>2 DEF IoOK
    <3>2. io.landed => s.req[r].val \in n[r]
      BY <1>1, <2>2 DEF IoHist
    <3> QED BY <1>6, <2>2, <3>1, <3>2 DEF ReqMoves, outstanding, accepted
  <2>3. CASE q = r /\ io.op = "data_write"
    <3>1. s.req[r].op = "write"
      BY <1>1, <2>3 DEF IoOK
    <3>2. io.landed => Fresh(s, d, c, n, r)
      BY <1>1, <2>3 DEF IoHist
    <3>3. t.req[r].st = "done" => Set(t, d, t.req[r].sec)
      BY <1>1, <1>4, <1>6, <2>3 DEF IoHist
    <3> QED BY <1>6, <2>3, <3>1, <3>2, <3>3 DEF ReqMoves, outstanding, accepted
  <2> QED BY <2>1, <2>2, <2>3 DEF Data
<1>8. \A i \in t.aio : i \in s.aio /\ (Listed(s, i) => Listed(t, i))
  <2>1. \A i \in t.aio : i.blk \in Blocks
    BY <1>1, IoField
  <2> QED BY <2>1, <1>2 DEF Listed
<1>9. History(t, d, c, n, g)
  BY <1>1, <1>4, <1>5, <1>7, <1>8, HistStep DEF SlotKept
<1> QED BY <1>1, <1>2, <1>3, <1>9 DEF FH, View

(* The commit of a block's bitmap waits for its BAT entry.                  *)
LEMMA BatTxHist ==
  ASSUME NEW s, NEW t, NEW b \in Blocks, NEW d, NEW c, NEW n, NEW g, Driver(s, NoReq, b),
         s.bm[b].tx.upd, Stored(s, d, b), t = [s EXCEPT !.bat_tx = TRUE], FH(s, d, c, n, g)
  PROVE  FH(t, d, c, n, g)
<1>1. s \in VhdState /\ BatOK(s, b) /\ BlkOK(s, b, b)
      /\ FileBat(s, d) /\ FileMap(s, d) /\ History(s, d, c, n, g) /\ s.up
  BY DEF Driver, FH, FileOK
<1>2. /\ t.up = s.up /\ t.bat = s.bat /\ t.batmap = s.batmap /\ t.locked = s.locked
      /\ t.pbw_blk = s.pbw_blk /\ t.pbw_offset = s.pbw_offset /\ t.cached = s.cached /\ t.bm = s.bm
      /\ t.req = s.req /\ t.aio = s.aio
  BY <1>1 DEF VhdState
<1>3. View(s, t)
  BY <1>2 DEF View, Mine
<1>4. Mine(s, b) /\ s.bat[b] = DD_BLK_UNUSED
  BY <1>1 DEF BlkOK, BatOK, Allocating, Failing, Done, Mine
<1>5. FileBat(t, d)
  BY <1>1, <1>2 DEF FileBat, Mine, HasIO, outstanding
<1>6. FileMap(t, d)
  <2>1. ASSUME NEW x \in Blocks, s.bm[x].tx.upd, s.bm[x].tx.err = "ok"
        PROVE  s.bm[x].shadow \subseteq d.map[s.pbw_offset]
    <3>1. Mine(s, x)
      BY <2>1 DEF Driver, BlkOK
    <3>2. x = b
      BY <1>4, <3>1 DEF Mine
    <3> QED BY <1>4, <2>1, <3>2 DEF Stored, MapSlot
  <2> QED BY ONLY <1>1, <1>2, <2>1 DEF FileMap
<1>7. /\ \A x \in Sectors : Set(t, d, x) <=> Set(s, d, x)
      /\ \A x \in Sectors : Good(t, d, c, x) <=> Good(s, d, c, x)
  BY <1>3, ViewSame
<1>8. \A r \in Reqs : Fresh(t, d, c, n, r) <=> Fresh(s, d, c, n, r)
  BY <1>1, <1>2, <1>3, CalmFresh
<1>9. History(t, d, c, n, g)
  <2>1. CandOK(t, c)
    BY <1>1, <1>2 DEF CandOK, History
  <2>2. \A r \in Reqs : t.req[r].op = "write" => WriteOK(t, d, c, n, r, g)
    <3>1. outstanding(t) = outstanding(s)
      BY <1>2 DEF outstanding
    <3>2. ASSUME NEW r \in Reqs, t.req[r].op = "write" PROVE WriteOK(t, d, c, n, r, g)
      <4>1. WriteOK(s, d, c, n, r, g)
        BY <1>1, <1>2, <3>2 DEF History
      <4>2. s.req[r].sec \in Sectors
        BY <1>1, SecField
      <4>3. Set(s, d, s.req[r].sec) => Set(t, d, s.req[r].sec)
        BY <1>7, <4>2
      <4>4. Fresh(s, d, c, n, r) => Fresh(t, d, c, n, r)
        BY <1>8
      <4>5. t.req = s.req
        BY <1>2
      <4> QED BY ONLY <4>1, <4>3, <4>4, <4>5, <3>1 DEF WriteOK
    <3> QED BY <3>2
  <2>3. \A r \in Reqs : t.req[r].op = "read" => ReadOK(t, c, n, r)
    BY <1>1, <1>2 DEF ReadOK, History, outstanding
  <2>4. ASSUME NEW io \in t.aio PROVE IoHist(t, d, c, n, io)
    <3>1. io \in s.aio /\ IoHist(s, d, c, n, io) /\ (io.op \in Data => io.req \in Reqs)
      BY <1>1, <1>2, IoField DEF History, Data
    <3> QED BY <1>1, <1>2, <1>7, <1>8, <3>1, SecField DEF IoHist, Data
  <2>5. \A io \in s.aio : io.op = "zero_bm" /\ ~io.landed => io \in t.aio
    BY <1>2
  <2> QED BY <1>1, <1>3, <2>1, <2>2, <2>3, <2>4, <2>5, HistFrame
<1> QED BY <1>1, <1>2, <1>5, <1>6, <1>9 DEF FH, FileOK

(* The BAT write is over; what is known of the bitmap in the file stays.    *)
LEMMA BatEndHist ==
  ASSUME NEW s, NEW t, NEW io \in s.aio, NEW b, b = io.blk, NEW e \in {"ok", "EIO"},
         NEW d, NEW c, NEW n, NEW g, Driver(s, NoReq, NoBlock), Driver(t, NoReq, b), io.op = "bat",
         BatEnds(s, t, b, io, e), ~t.bm[b].tx.upd, io.landed <=> e = "ok", FH(s, d, c, n, g)
  PROVE  /\ FH(t, d, c, n, g)
         /\ ~s.prealloc /\ s.bat_tx => Stored(t, d, b)
<1>1. s \in VhdState /\ t \in VhdState /\ b \in Blocks /\ IoOK(s, io) /\ BatOK(s, NoBlock)
      /\ BlkOK(s, b, NoBlock) /\ b # NoBlock
      /\ FileBat(s, d) /\ FileMap(s, d) /\ History(s, d, c, n, g) /\ s.up
  BY IoField, BlkNo DEF Driver, FH, FileOK
<1>2. s.locked /\ s.pbw_blk = b /\ s.bat[b] = DD_BLK_UNUSED /\ s.pbw_offset \in Slots
  <2>1. s.locked /\ s.pbw_blk = b
    BY <1>1 DEF IoOK, Mine
  <2>2. HasIO(s, b, "bat")
    BY DEF HasIO
  <2> QED BY <1>1, <2>1, <2>2 DEF BatOK, Allocating, Failing, Done
<1>3. \A i \in s.aio : i.op = "bat" => i = io
  <2>1. ASSUME NEW i \in s.aio, i.op = "bat" PROVE i = io
    <3>1. IoOK(s, i) /\ Unique(s)
      BY DEF Driver
    <3>2. i.req = bat_req /\ i.blk = b /\ io.req = bat_req
      BY <1>1, <1>2, <2>1, <3>1 DEF IoOK, Mine
    <3> QED BY <2>1, <3>1, <3>2 DEF Unique
  <2> QED BY <2>1
<1>4. /\ t.up = s.up /\ t.batmap = s.batmap /\ t.cached = s.cached
      /\ t.req = s.req /\ t.aio = s.aio \ {io}
      /\ \A x \in Blocks : x # b => t.bm[x] = s.bm[x]
      /\ t.locked = s.locked /\ t.pbw_blk = s.pbw_blk /\ t.pbw_offset = s.pbw_offset
      /\ t.bat_tx = s.bat_tx
      /\ \A x \in Blocks : x # b => t.bat[x] = s.bat[x]
      /\ e = "ok" => t.bat[b] = s.pbw_offset
      /\ e # "ok" => t.bat = s.bat
  BY DEF BatEnds
<1>5. /\ t.bm[b].rd = s.bm[b].rd /\ t.bm[b].map = s.bm[b].map /\ t.bm[b].queue = s.bm[b].queue
      /\ t.bm[b].shadow = s.bm[b].shadow
      /\ t.bm[b].tx.err = (IF e = "ok" THEN s.bm[b].tx.err ELSE e)
      /\ \A r : r # bat_req => (r \in t.bm[b].tx.reqs <=> r \in s.bm[b].tx.reqs)
  <2>1. /\ s.prealloc => t.bm[b].tx.reqs = s.bm[b].tx.reqs \ {bat_req}
        /\ ~s.prealloc => t.bm[b].tx.reqs = s.bm[b].tx.reqs
    BY DEF BatEnds
  <2> QED BY <2>1 DEF BatEnds
<1>6. d.bat[b] = t.bat[b]
  BY <1>1, <1>2, <1>4 DEF FileBat
<1>7. \A x \in Blocks : Mine(t, x) <=> Mine(s, x)
  BY <1>4 DEF Mine
<1>8. s.bm[b].map = {} /\ DD_BLK_UNUSED \notin Slots
  BY <1>1, <1>2 DEF BlkOK, DD_BLK_UNUSED, Slots
<1>9. FileBat(t, d)
  <2>1. \A x \in Blocks : d.bat[x] = t.bat[x]
    BY <1>1, <1>2, <1>4, <1>6 DEF FileBat, Mine
  <2>2. \A i \in t.aio : i.op # "bat"
    BY <1>3, <1>4
  <2> QED BY <1>1, <1>4, <2>1, <2>2 DEF FileBat
<1>10. FileMap(t, d)
  <2>1. \A x \in t.batmap \cup d.batmap : d.map[d.bat[x]] = Secs
    BY <1>1, <1>4 DEF FileMap
  <2>2. ASSUME NEW x \in Blocks, x \in t.cached, ~t.bm[x].rd, t.bat[x] # DD_BLK_UNUSED
        PROVE  t.bm[x].map \subseteq d.map[t.bat[x]]
    <3>1. CASE x = b
      BY <3>1, <1>5, <1>8
    <3>2. CASE x # b
      BY <3>2, <1>1, <1>4, <2>2 DEF FileMap
    <3> QED BY <3>1, <3>2
  <2>3. ASSUME NEW x \in Blocks, t.bm[x].tx.upd, t.bat_tx, t.bm[x].tx.err = "ok"
        PROVE  t.bm[x].shadow \subseteq d.map[t.pbw_offset]
    <3>1. x # b
      BY <2>3
    <3> QED BY <1>1, <1>4, <2>3, <3>1 DEF FileMap
  <2>4. ASSUME NEW i \in t.aio, i.landed
        PROVE /\ i.op = "bitmap_read" => t.bm[i.blk].map = d.map[i.slot]
              /\ i.op = "bitmap_write" => t.bm[i.blk].shadow \subseteq d.map[i.slot]
              /\ i.op = "zero_bm" => d.map[i.slot] = {}
    <3>1. i \in s.aio /\ i.blk \in Blocks
      BY <1>1, <1>4, IoField
    <3>2. t.bm[i.blk].map = s.bm[i.blk].map /\ t.bm[i.blk].shadow = s.bm[i.blk].shadow
      BY <1>4, <1>5, <3>1
    <3> QED BY <1>1, <2>4, <3>1, <3>2 DEF FileMap
  <2> QED BY <2>1, <2>2, <2>3, <2>4 DEF FileMap
<1>11. \A x \in Blocks : Own(t, d, x) = Own(s, d, x)
  BY <1>4, <1>7 DEF Own
<1>12. \A x \in Sectors : Set(s, d, x) => Set(t, d, x)
  <2>1. ASSUME NEW x \in Sectors, Set(s, d, x) PROVE Set(t, d, x)
    <3>1. blk_of(x) \in Blocks
      BY Geometry
    <3>2. blk_of(x) # b
      BY <1>1, <1>2, <2>1 DEF Set
    <3> QED BY <1>4, <2>1, <3>1, <3>2 DEF Set
  <2> QED BY <2>1
<1>13. GoodOK(t, d, c)
  <2>1. GoodOK(s, d, c)
    BY <1>1 DEF History
  <2>2. \A x \in Blocks : Zeroed(t, x) => Zeroed(s, x)
    BY <1>4 DEF Zeroed
  <2>3. \A x \in Blocks : t.bm[x].map = s.bm[x].map /\ t.bm[x].shadow = s.bm[x].shadow
                          /\ t.bm[x].rd = s.bm[x].rd
    BY <1>4, <1>5
  <2> QED BY ONLY <1>11, <2>1, <2>2, <2>3, Geometry DEF GoodOK, Good
<1>14. \A r \in Reqs : ReqMoves(s, t, d, c, n, r)
  BY <1>1, <1>4, <1>12, ReqRests
<1>15. \A i \in t.aio : i.op \in Data => i \in s.aio /\ (Listed(s, i) => Listed(t, i))
  <2>1. \A i \in t.aio : i.blk \in Blocks /\ (i.op \in Data => i.req \in Reqs)
    BY <1>1, IoField DEF Data
  <2>2. \A i \in t.aio : i.op \in Data => i.req # bat_req
    BY <2>1, NotMeta
  <2> QED BY <2>1, <2>2, <1>4, <1>5 DEF Listed
<1>16. History(t, d, c, n, g)
  BY <1>1, <1>11, <1>12, <1>13, <1>14, <1>15, HistStep DEF SlotKept
<1>17. ASSUME ~s.prealloc, s.bat_tx PROVE Stored(t, d, b)
  <2>1. CASE e # "ok"
    BY <2>1, <1>5 DEF Stored
  <2>2. CASE e = "ok"
    <3>1. s.bm[b].tx.upd
      BY <1>1, <1>17 DEF IoOK
    <3>2. s.bm[b].tx.err = "ok" => s.bm[b].shadow \subseteq d.map[s.pbw_offset]
      BY <1>1, <1>17, <3>1 DEF FileMap
    <3>3. MapSlot(t, b) = s.pbw_offset
      BY <1>2, <1>4, <2>2 DEF MapSlot
    <3> QED BY <1>5, <2>2, <3>2, <3>3 DEF Stored
  <2> QED BY <2>1, <2>2
<1> QED BY <1>1, <1>4, <1>9, <1>10, <1>16, <1>17 DEF FH, FileOK

(* The BAT is unlocked: the block has its slot, or gives it up.             *)
LEMMA UnlockBatHist ==
  ASSUME NEW s, NEW t, NEW b \in Blocks, NEW d, NEW c, NEW n, NEW g,
         Driver(s, NoReq, b), Settles(s, b), NoAlloc(s, b), Mine(s, b),
         s.bat_err = "ok" \/ ~s.bm[b].tx.live, t = init_bat(s), Driver(t, NoReq, NoBlock),
         FH(s, d, c, n, g)
  PROVE  FH(t, d, c, n, g)
<1>1. s \in VhdState /\ t \in VhdState /\ BatOK(s, b) /\ BlkOK(s, b, b) /\ MemOK(s, b)
      /\ FileBat(s, d) /\ FileMap(s, d) /\ History(s, d, c, n, g) /\ s.up
  BY DEF Driver, FH, FileOK
<1>2. /\ ~t.locked /\ ~t.bat_tx
      /\ t.up = s.up /\ t.bat = s.bat /\ t.batmap = s.batmap
      /\ t.cached = s.cached /\ t.bm = s.bm /\ t.req = s.req /\ t.aio = s.aio
  BY <1>1, InitBatEffect, ZenonT(40)
<1>3. \A i \in s.aio : i.op # "bat"
  <2>1. ASSUME NEW i \in s.aio, i.op = "bat" PROVE FALSE
    <3>1. IoOK(s, i)
      BY DEF Driver
    <3>2. i.blk = b
      BY <2>1, <3>1 DEF IoOK, Mine
    <3> QED BY <2>1, <3>2 DEF NoAlloc, HasIO
  <2> QED BY <2>1
<1>4. \A x \in Blocks : d.bat[x] = s.bat[x]
  BY <1>1, <1>3 DEF FileBat, HasIO
<1>5. FileBat(t, d)
  BY <1>1, <1>2, <1>3, <1>4 DEF FileBat
<1>6. FileMap(t, d)
  BY <1>1, <1>2 DEF FileMap
<1>7. ASSUME s.bat[b] = DD_BLK_UNUSED
      PROVE  /\ \A r \in outstanding(s) : blk_of(s.req[r].sec) # b
             /\ s.bm[b].shadow = s.bm[b].map \/ s.bm[b].rd
  <2>1. Failing(s, b)
    <3>1. s.pbw_blk = b /\ s.pbw_offset # DD_BLK_UNUSED
      BY <1>1 DEF BatOK, Mine, DD_BLK_UNUSED, Slots
    <3> QED BY <1>1, <1>7, <3>1 DEF BatOK, Mine, Allocating, Done, NoAlloc
  <2>2. ~s.bm[b].tx.live /\ s.bm[b].tx = init_tx /\ s.bm[b].queue = {} /\ ~s.bm[b].rd
        /\ s.bm[b].waiting = {}
    <3>1. ~s.bm[b].tx.live
      BY <2>1 DEF Failing
    <3>2. s.bm[b].tx = init_tx
      BY <1>1, <3>1 DEF BlkOK
    <3>3. s.bm[b].queue = {}
      BY <3>2, InitBm DEF Settles
    <3> QED BY <1>1, <1>7, <3>1, <3>2, <3>3 DEF BlkOK
  <2>3. ASSUME NEW r \in outstanding(s), blk_of(s.req[r].sec) = b PROVE FALSE
    <3>1. r \in Reqs /\ s.req[r].st \in {"waiting", "io", "finished"} /\ ReqOK(s, r, NoReq) /\ r # NoReq
      BY NotMeta DEF outstanding, Driver
    <3>2. s.req[r].st = "io"
      BY <2>2, <2>3, <3>1, InitBm DEF ReqOK
    <3>3. PICK i \in s.aio : i.req = r /\ i.op \in Data
      BY <3>1, <3>2 DEF ReqOK
    <3>4. IoOK(s, i)
      BY DEF Driver
    <3>5. i.blk = b
      BY <2>3, <3>3, <3>4 DEF IoOK, Data
    <3>6. DD_BLK_UNUSED \notin Slots
      BY DEF DD_BLK_UNUSED, Slots
    <3> QED BY <1>7, <2>2, <3>3, <3>4, <3>5, <3>6, InitBm DEF IoOK, Data
  <2> QED BY <1>1, <2>2, <2>3 DEF BlkOK
<1>8. \A x \in Blocks : Own(t, d, x) = IF s.bat[x] # DD_BLK_UNUSED THEN d.bat[x] ELSE DD_BLK_UNUSED
  BY <1>2, <1>4 DEF Own, Mine
<1>9. \A x \in Blocks : x # b \/ s.bat[x] # DD_BLK_UNUSED => Own(t, d, x) = Own(s, d, x)
  BY <1>4, <1>8 DEF Own, Mine
<1>10. \A x \in Blocks : SlotKept(s, t, d, x)
  BY <1>4, <1>7, <1>9 DEF SlotKept
<1>11. \A x \in Sectors : Set(s, d, x) => Set(t, d, x)
  BY <1>2 DEF Set
<1>12. GoodOK(t, d, c)
  <2>1. GoodOK(s, d, c)
    BY <1>1 DEF History
  <2>2. \A x \in Blocks : Zeroed(t, x) <=> Zeroed(s, x)
    BY <1>2 DEF Zeroed
  <2>3. ASSUME NEW x \in Sectors
        PROVE  LET y == blk_of(x)
               IN  /\ /\ Own(t, d, y) # DD_BLK_UNUSED /\ Zeroed(t, y)
                      /\ sec_of(x) \in d.map[Own(t, d, y)]
                      => Good(t, d, c, x)
                   /\ sec_of(x) \in t.bm[y].shadow /\ sec_of(x) \notin t.bm[y].map /\ ~t.bm[y].rd
                      => Own(t, d, y) # DD_BLK_UNUSED /\ Good(t, d, c, x)
    <3>1. blk_of(x) \in Blocks
      BY Geometry
    <3>2. CASE Own(t, d, blk_of(x)) = Own(s, d, blk_of(x))
      BY ONLY <1>2, <2>1, <2>2, <3>1, <3>2, x \in Sectors DEF GoodOK, Good
    <3>3. CASE blk_of(x) = b /\ s.bat[b] = DD_BLK_UNUSED
      BY <1>2, <1>7, <1>8, <3>3
    <3> QED BY <1>9, <3>1, <3>2, <3>3
  <2> QED BY ONLY <2>3 DEF GoodOK
<1>13. \A r \in Reqs : ReqMoves(s, t, d, c, n, r)
  BY <1>1, <1>2, <1>11, ReqRests
<1>14. \A i \in t.aio : i \in s.aio /\ (Listed(s, i) => Listed(t, i))
  BY <1>2 DEF Listed
<1>15. History(t, d, c, n, g)
  BY <1>1, <1>10, <1>11, <1>12, <1>13, <1>14, HistStep
<1> QED BY <1>1, <1>2, <1>5, <1>6, <1>15 DEF FH, FileOK

(* The bitmap of block b has been read, is read, or has left the cache.     *)
Turns(s, t, b, d) ==
  /\ SameBat(s, t) /\ t.up = s.up /\ t.batmap = s.batmap
  /\ \A x \in Blocks : x # b => t.bm[x] = s.bm[x] /\ (x \in t.cached <=> x \in s.cached)
  /\ ~t.bm[b].tx.upd
  /\ \A i \in t.aio : i \in s.aio \/ (~i.landed /\ i.op # "bat")
  /\ \A i \in s.aio : i.op = "bat" => i \in t.aio
  /\ \A i \in s.aio : i.op = "zero_bm" => i \in t.aio
  /\ \A i \in t.aio : i.blk = b /\ i.landed => i.op # "bitmap_read" /\ i.op # "bitmap_write"
  /\ b \in t.cached /\ ~t.bm[b].rd /\ s.bat[b] # DD_BLK_UNUSED => t.bm[b].map = d.map[s.bat[b]]

LEMMA TurnFile ==
  ASSUME NEW s, NEW t, NEW b \in Blocks, NEW h, NEW k, NEW d, Driver(s, h, k), t \in VhdState,
         FileOK(s, d), s.up, Turns(s, t, b, d)
  PROVE  /\ FileOK(t, d)
         /\ \A x \in Blocks : Own(t, d, x) = Own(s, d, x)
         /\ \A x \in Sectors : Set(s, d, x) => Set(t, d, x)
         /\ \A x \in Blocks : Zeroed(t, x) => Zeroed(s, x)
<1>1. s \in VhdState /\ FileBat(s, d) /\ FileMap(s, d)
  BY DEF Driver, FileOK
<1>2. /\ t.bat = s.bat /\ t.pbw_offset = s.pbw_offset /\ t.bat_tx = s.bat_tx /\ t.up = s.up /\ t.batmap = s.batmap
      /\ t.locked = s.locked /\ t.pbw_blk = s.pbw_blk
      /\ \A x \in Blocks : x # b => t.bm[x] = s.bm[x] /\ (x \in t.cached <=> x \in s.cached)
      /\ ~t.bm[b].tx.upd
  BY DEF Turns, SameBat
<1>3. /\ \A i \in t.aio : i \in s.aio \/ (~i.landed /\ i.op # "bat")
      /\ \A i \in s.aio : i.op = "bat" => i \in t.aio
      /\ \A i \in s.aio : i.op = "zero_bm" => i \in t.aio
      /\ \A i \in t.aio : i.blk = b /\ i.landed => i.op # "bitmap_read" /\ i.op # "bitmap_write"
      /\ b \in t.cached /\ ~t.bm[b].rd /\ s.bat[b] # DD_BLK_UNUSED => t.bm[b].map = d.map[s.bat[b]]
  BY DEF Turns
<1>4. \A x \in Blocks : Mine(t, x) <=> Mine(s, x)
  BY <1>2 DEF Mine
<1>5. \A x \in Blocks : Own(t, d, x) = Own(s, d, x)
  BY <1>2, <1>4 DEF Own
<1>6. ASSUME NEW x \in Sectors, Set(s, d, x) PROVE Set(t, d, x)
  <2>1. blk_of(x) \in Blocks
    BY Geometry
  <2>2. CASE blk_of(x) # b
    BY <1>2, <1>6, <2>1, <2>2 DEF Set
  <2>3. CASE blk_of(x) = b
    <3>1. d.bat[b] # DD_BLK_UNUSED /\ sec_of(x) \in d.map[d.bat[b]] /\ s.bat[b] = d.bat[b]
      BY <1>6, <2>3 DEF Set
    <3> QED BY <1>2, <1>3, <2>3, <3>1 DEF Set
  <2> QED BY <2>2, <2>3
<1>7. FileBat(t, d)
  <2>1. \A x \in t.batmap : d.bat[x] # DD_BLK_UNUSED
    BY <1>1, <1>2 DEF FileBat
  <2>2. /\ \A io \in t.aio : io.op = "bat" => io \in s.aio
        /\ s.batmap \subseteq t.batmap
    BY <1>2, <1>3
  <2> QED BY <1>1, <1>2, <1>3, <1>4, <2>1, <2>2, FileBatFrame
<1>8. FileMap(t, d)
  <2>1. \A x \in t.batmap \cup d.batmap : d.map[d.bat[x]] = Secs
    BY <1>1, <1>2 DEF FileMap
  <2>2. ASSUME NEW x \in Blocks, x \in t.cached, ~t.bm[x].rd, t.bat[x] # DD_BLK_UNUSED
        PROVE  t.bm[x].map \subseteq d.map[t.bat[x]]
    BY <1>1, <1>2, <1>3, <2>2 DEF FileMap
  <2>3. ASSUME NEW x \in Blocks, t.bm[x].tx.upd, t.bat_tx, t.bm[x].tx.err = "ok"
        PROVE  t.bm[x].shadow \subseteq d.map[t.pbw_offset]
    <3>1. x # b
      BY <2>3, <1>2
    <3> QED BY <1>1, <1>2, <2>3, <3>1 DEF FileMap
  <2>4. ASSUME NEW io \in t.aio, io.landed
        PROVE /\ io.op = "bitmap_read" => t.bm[io.blk].map = d.map[io.slot]
              /\ io.op = "bitmap_write" => t.bm[io.blk].shadow \subseteq d.map[io.slot]
              /\ io.op = "zero_bm" => d.map[io.slot] = {}
    <3>1. io \in s.aio /\ io.blk \in Blocks
      BY <1>1, <1>3, <2>4, IoField
    <3>2. io.op \in {"bitmap_read", "bitmap_write"} => t.bm[io.blk] = s.bm[io.blk]
      BY <1>2, <1>3, <2>4, <3>1
    <3> QED BY <1>1, <2>4, <3>1, <3>2 DEF FileMap
  <2> QED BY <2>1, <2>2, <2>3, <2>4 DEF FileMap
<1>9. \A x \in Blocks : Zeroed(t, x) => Zeroed(s, x)
  BY <1>3 DEF Zeroed
<1> QED BY <1>5, <1>6, <1>7, <1>8, <1>9 DEF FileOK

LEMMA TurnHist ==
  ASSUME NEW s, NEW t, NEW b \in Blocks, NEW h, NEW k, NEW h2, NEW k2, NEW d, NEW c, NEW n, NEW g,
         Driver(s, h, k), Driver(t, h2, k2), FH(s, d, c, n, g), Turns(s, t, b, d),
         t.bm[b].rd \/ t.bm[b].shadow = t.bm[b].map,
         \A r \in Reqs : ReqMoves(s, t, d, c, n, r),
         \A io \in t.aio : io.op \in Data =>
           \/ /\ io \in s.aio
              /\ Listed(s, io) => Listed(t, io)
           \/ /\ ~io.landed
              /\ io.op = "data_read" => Good(s, d, c, t.req[io.req].sec)
              /\ io.op = "data_write" => Listed(t, io) \/ Set(t, d, t.req[io.req].sec)
  PROVE  FH(t, d, c, n, g)
<1>1. /\ s \in VhdState /\ t \in VhdState
      /\ FileOK(s, d) /\ History(s, d, c, n, g) /\ s.up
  BY DEF Driver, FH
<1>2. /\ FileOK(t, d)
      /\ \A x \in Blocks : Own(t, d, x) = Own(s, d, x)
      /\ \A x \in Sectors : Set(s, d, x) => Set(t, d, x)
      /\ \A x \in Blocks : Zeroed(t, x) => Zeroed(s, x)
  BY <1>1, TurnFile
<1>3. \A x \in Sectors : Good(t, d, c, x) <=> Good(s, d, c, x)
  BY <1>2, Geometry DEF Good
<1>4. GoodOK(t, d, c)
  <2>1. GoodOK(s, d, c)
    BY <1>1 DEF History
  <2>2. ASSUME NEW x \in Sectors
        PROVE  LET y == blk_of(x)
               IN  sec_of(x) \in t.bm[y].shadow /\ sec_of(x) \notin t.bm[y].map /\ ~t.bm[y].rd
                      => Own(t, d, y) # DD_BLK_UNUSED /\ Good(t, d, c, x)
    <3>1. blk_of(x) \in Blocks
      BY Geometry
    <3>2. CASE blk_of(x) # b
      <4>1. t.bm[blk_of(x)] = s.bm[blk_of(x)]
        BY <3>1, <3>2 DEF Turns
      <4> QED BY <1>2, <1>3, <2>1, <3>1, <4>1 DEF GoodOK
    <3> QED BY <3>2
  <2> QED BY ONLY <1>2, <1>3, <2>1, <2>2, Geometry DEF GoodOK
<1>5. ASSUME NEW io \in t.aio, io.op \in Data
      PROVE  \/ /\ io \in s.aio
                /\ Listed(s, io) => Listed(t, io) \/ io.op = "data_read"
                                                  \/ Set(t, d, t.req[io.req].sec)
             \/ /\ ~io.landed
                /\ io.op = "data_read" => Good(t, d, c, t.req[io.req].sec)
                /\ io.op = "data_write" => Listed(t, io) \/ Set(t, d, t.req[io.req].sec)
  <2>1. io.req \in Reqs
    BY <1>1, <1>5, IoField DEF Data
  <2>2. t.req[io.req].sec \in Sectors
    BY <1>1, <2>1, SecField
  <2> QED BY <1>3, <1>5, <2>2
<1>6. \A x \in Blocks : SlotKept(s, t, d, x)
  BY <1>2 DEF SlotKept
<1>7. History(t, d, c, n, g)
  BY <1>1, <1>2, <1>4, <1>5, <1>6, HistStep
<1> QED BY <1>1, <1>2, <1>7 DEF FH, Turns

(* The requests that waited for a bitmap go on.                             *)
LEMMA RequeueHist ==
  ASSUME NEW s, NEW t, NEW io \in s.aio, NEW b, b = io.blk, NEW d, NEW c, NEW n, NEW g,
         Driver(s, NoReq, NoBlock), Driver(t, NoReq, NoBlock), io.op = "bitmap_read", io.landed,
         Requeues(s, t, b, io), FH(s, d, c, n, g)
  PROVE  FH(t, d, c, n, g)
<1>1. /\ s \in VhdState /\ t \in VhdState /\ b \in Blocks /\ BlkOK(s, b, NoBlock) /\ MemOK(s, b) /\ IoOK(s, io)
      /\ FileBat(s, d) /\ FileMap(s, d) /\ History(s, d, c, n, g) /\ s.up /\ Unique(s)
  BY IoField DEF Driver, FH, FileOK
<1>2. /\ OnlyBlk(s, t, b)
      /\ ~t.bm[b].rd /\ ~t.bm[b].wr /\ t.bm[b].queue = {}
      /\ t.bm[b].map = s.bm[b].map /\ t.bm[b].shadow = s.bm[b].map
      /\ t.bm[b].tx = (IF ToUpdate(s, b) = {} THEN init_tx ELSE joined(init_tx, ToUpdate(s, b)))
      /\ t.aio = (s.aio \ {io}) \cup NewIOs(s, b)
  BY DEF Requeues
<1>3. \A r \in Reqs :
       /\ r \in ToForward(s, b) => t.req[r] = forwarded(s.req[r])
       /\ r \in s.bm[b].waiting \ ToForward(s, b) => t.req[r] = restarted(s.req[r])
       /\ r \notin s.bm[b].waiting => t.req[r] = s.req[r]
  BY DEF Requeues
<1>4. /\ s.bm[b].rd /\ s.bm[b].tx = init_tx /\ s.bm[b].queue = {} /\ ~s.bm[b].wr
      /\ s.bat[b] # DD_BLK_UNUSED /\ io.req = bm_req /\ io.slot = s.bat[b]
  BY <1>1 DEF IoOK, BlkOK
<1>5. d.bat[b] = s.bat[b] /\ s.bm[b].map = d.map[d.bat[b]] /\ Own(s, d, b) = d.bat[b]
  BY <1>1, <1>4 DEF FileBat, FileMap, Own
<1>6. ~t.bm[b].tx.upd /\ (ToUpdate(s, b) # {} => t.bm[b].tx.reqs = ToUpdate(s, b))
  <2>1. init_tx \in Tx
    BY <1>1, <1>4, BmField
  <2>2. ToUpdate(s, b) # {} => ~t.bm[b].tx.upd /\ t.bm[b].tx.reqs = init_tx.reqs \cup ToUpdate(s, b)
    <3>1. SUFFICES ASSUME ToUpdate(s, b) # {}
                   PROVE  ~t.bm[b].tx.upd /\ t.bm[b].tx.reqs = init_tx.reqs \cup ToUpdate(s, b)
      OBVIOUS
    <3>2. t.bm[b].tx = joined(init_tx, ToUpdate(s, b))
      BY <1>2, <3>1
    <3>3. t.bm[b].tx.upd = init_tx.upd /\ t.bm[b].tx.reqs = init_tx.reqs \cup ToUpdate(s, b)
      BY ONLY <2>1, <3>2, JoinedFields
    <3> QED BY <3>3, InitBm
  <2> QED BY <1>2, <2>2, InitBm
<1>7. \A i \in NewIOs(s, b) :
              /\ i.blk = b /\ ~i.landed /\ i.op \in Data
              /\ i.req \in s.bm[b].waiting \ ToForward(s, b)
              /\ i.op = IF s.req[i.req].op = "read" THEN "data_read" ELSE "data_write"
  BY NewIOFacts DEF Data
<1>8. Turns(s, t, b, d)
  <2>1. \A i \in t.aio : i \in s.aio \/ (~i.landed /\ i.op # "bat")
    BY <1>2, <1>7 DEF Data
  <2>2. \A i \in s.aio : i.op = "bat" \/ i.op = "zero_bm" => i \in t.aio
    BY <1>2
  <2>3. ASSUME NEW i \in t.aio, i.blk = b, i.landed PROVE i.op # "bitmap_read" /\ i.op # "bitmap_write"
    <3>1. i \in s.aio /\ i # io
      BY <1>2, <1>7, <2>3
    <3>2. IoOK(s, i)
      BY <3>1 DEF Driver
    <3> QED BY <1>1, <1>4, <2>3, <3>1, <3>2 DEF IoOK, Unique
  <2>4. t.bm[b].map = d.map[s.bat[b]]
    BY <1>2, <1>5
  <2> QED BY <1>2, <1>6, <2>1, <2>2, <2>3, <2>4 DEF Turns, OnlyBlk
<1>9. /\ \A x \in Sectors : Set(s, d, x) => Set(t, d, x)
  BY <1>1, <1>8, TurnFile DEF FileOK
<1>10. ASSUME NEW r \in Reqs PROVE ReqMoves(s, t, d, c, n, r)
  <2>1. CASE r \notin s.bm[b].waiting
    BY <1>1, <1>3, <1>9, <2>1, ReqRests
  <2>2. CASE r \in s.bm[b].waiting
    <3>1. s.req[r].st = "waiting" /\ blk_of(s.req[r].sec) = b /\ s.req[r].sec \in Sectors
      BY <1>1, <2>2, SecField DEF MemOK
    <3>2. s.req[r] \in Request
      BY <1>1 DEF VhdState
    <3>3. r \in outstanding(s) /\ s.req[r].err # "EBUSY"
      BY <3>1 DEF outstanding, Driver, ReqOK
    <3>4. CASE r \in ToForward(s, b)
      <4>1. sec_of(s.req[r].sec) \notin s.bm[b].map /\ s.req[r].op = "read"
        BY <3>4 DEF ToForward
      <4>2. ~Set(s, d, s.req[r].sec)
        BY <3>1, <4>1, <1>5 DEF Set
      <4>3. Parent \in c[s.req[r].sec]
        BY <1>1, <3>1, <4>2 DEF History, ParentOK
      <4>4. Parent \in n[r]
        BY <1>1, <3>3, <4>1, <4>3 DEF History, ReadOK
      <4>5. t.req[r].st = "done" /\ t.req[r].val = Parent /\ t.req[r].op = s.req[r].op
            /\ t.req[r].sec = s.req[r].sec /\ t.req[r].err = s.req[r].err
        BY <1>3, <3>2, <3>4 DEF forwarded, Request
      <4> QED BY <3>1, <3>3, <4>1, <4>4, <4>5 DEF ReqMoves, outstanding, accepted
    <3>5. CASE r \notin ToForward(s, b)
      <4>1. t.req[r].st = "io" /\ t.req[r].val = s.req[r].val /\ t.req[r].op = s.req[r].op
            /\ t.req[r].sec = s.req[r].sec
        BY <1>3, <2>2, <3>2, <3>5 DEF restarted, Request
      <4> QED BY <3>1, <3>3, <4>1 DEF ReqMoves, outstanding, accepted
    <3> QED BY <3>4, <3>5
  <2> QED BY <2>1, <2>2
<1>11. ASSUME NEW i \in t.aio, i.op \in Data
       PROVE  \/ /\ i \in s.aio
                 /\ Listed(s, i) => Listed(t, i)
              \/ /\ ~i.landed
                 /\ i.op = "data_read" => Good(s, d, c, t.req[i.req].sec)
                 /\ i.op = "data_write" => Listed(t, i) \/ Set(t, d, t.req[i.req].sec)
  <2>1. CASE i \in s.aio
    <3>1. i.blk \in Blocks
      BY <1>1, <2>1, IoField
    <3>2. i.blk = b => ~Listed(s, i)
      BY <1>4, InitBm DEF Listed
    <3> QED BY <1>2, <2>1, <3>1, <3>2 DEF Listed, OnlyBlk
  <2>2. CASE i \in NewIOs(s, b)
    <3> DEFINE r == i.req
               x == s.req[r].sec
    <3>1. i.blk = b /\ ~i.landed /\ r \in s.bm[b].waiting \ ToForward(s, b)
          /\ i.op = IF s.req[r].op = "read" THEN "data_read" ELSE "data_write"
      BY <1>7, <2>2
    <3>2. r \in Reqs
      BY <1>1, <3>1, BmField DEF Bitmap
    <3>3. x \in Sectors /\ blk_of(x) = b
      BY <1>1, <3>1, <3>2, SecField DEF MemOK
    <3>4. t.req[r].sec = x /\ t.req[r].op = s.req[r].op
      <4>1. s.req[r] \in Request
        BY <1>1, <3>2 DEF VhdState
      <4> QED BY <1>3, <3>1, <3>2, <4>1 DEF restarted, Request
    <3>5. CASE sec_of(x) \in s.bm[b].map
      <4>1. Zeroed(s, b)
        <5>1. \A j \in s.aio : IoOK(s, j)
          BY DEF Driver
        <5> QED BY <1>4, <5>1, InitBm DEF Zeroed, IoOK
      <4>2. Good(s, d, c, x)
        <5>1. GoodOK(s, d, c)
          BY <1>1 DEF History
        <5> QED BY <1>4, <1>5, <3>3, <3>5, <4>1, <5>1 DEF GoodOK
      <4>3. Set(t, d, x)
        BY <1>1, <1>2, <1>4, <1>5, <3>3, <3>5 DEF Set, OnlyBlk, SameBat
      <4> QED BY <3>1, <3>4, <4>2, <4>3
    <3>6. CASE sec_of(x) \notin s.bm[b].map
      <4>1. s.req[r].op # "read"
        BY <3>1, <3>6 DEF ToForward
      <4>2. i.op = "data_write" /\ IoOK(t, i)
        BY <3>1, <4>1 DEF Driver
      <4>3. s.req[r].op = "write"
        BY <3>4, <4>2 DEF IoOK
      <4>4. r \in ToUpdate(s, b)
        BY <3>1, <3>6, <4>3 DEF ToUpdate
      <4>5. Listed(t, i)
        BY <1>6, <3>1, <4>4 DEF Listed
      <4> QED BY <3>1, <4>2, <4>5
    <3> QED BY <3>5, <3>6
  <2> QED BY <1>2, <2>1, <2>2
<1>12. t.bm[b].shadow = t.bm[b].map
  BY <1>2
<1> HIDE DEF Turns
<1> QED BY <1>1, <1>8, <1>10, <1>11, <1>12, TurnHist

(* The bitmap could not be read.                                            *)
LEMMA ReadFailHist ==
  ASSUME NEW s, NEW t, NEW io \in s.aio, NEW b, b = io.blk, NEW d, NEW c, NEW n, NEW g,
         Driver(s, NoReq, NoBlock), Driver(t, NoReq, NoBlock), io.op = "bitmap_read",
         ReadFails(s, t, b, io), FH(s, d, c, n, g)
  PROVE  FH(t, d, c, n, g)
<1>1. /\ s \in VhdState /\ t \in VhdState /\ b \in Blocks /\ BlkOK(s, b, NoBlock) /\ MemOK(s, b) /\ IoOK(s, io)
      /\ FileOK(s, d) /\ History(s, d, c, n, g) /\ s.up /\ Unique(s)
  BY IoField DEF Driver, FH
<1>2. /\ SameBat(s, t) /\ t.up = s.up /\ t.batmap = s.batmap
      /\ t.cached = s.cached \ {b}
      /\ t.bm[b] = init_vhd_bitmap /\ \A x \in Blocks : x # b => t.bm[x] = s.bm[x]
      /\ t.aio = s.aio \ {io}
      /\ \A r \in Reqs :
           /\ r \in s.bm[b].waiting => /\ t.req[r].st = "done" /\ t.req[r].err = "EIO"
                                       /\ t.req[r].sec = s.req[r].sec /\ t.req[r].op = s.req[r].op
           /\ r \notin s.bm[b].waiting => t.req[r] = s.req[r]
  BY DEF ReadFails
<1>3. s.bm[b].rd /\ s.bm[b].tx = init_tx /\ s.bm[b].queue = {} /\ ~s.bm[b].wr /\ io.req = bm_req
  BY <1>1 DEF IoOK, BlkOK
<1>4. Turns(s, t, b, d)
  <2>1. ASSUME NEW i \in t.aio, i.blk = b, i.landed PROVE i.op # "bitmap_read" /\ i.op # "bitmap_write"
    <3>1. i \in s.aio /\ i # io /\ IoOK(s, i)
      BY <1>2, <2>1 DEF Driver
    <3> QED BY <1>1, <1>3, <2>1, <3>1 DEF IoOK, Unique
  <2>2. ~t.bm[b].tx.upd
    BY <1>2, InitBm
  <2>3. \A i \in s.aio : i.op = "bat" \/ i.op = "zero_bm" => i \in t.aio
    BY <1>2
  <2> QED BY <1>2, <2>1, <2>2, <2>3 DEF Turns
<1>5. \A x \in Sectors : Set(s, d, x) => Set(t, d, x)
  BY <1>1, <1>4, TurnFile
<1>6. ASSUME NEW r \in Reqs PROVE ReqMoves(s, t, d, c, n, r)
  <2>1. CASE r \notin s.bm[b].waiting
    BY <1>1, <1>2, <1>5, <2>1, ReqRests
  <2>2. CASE r \in s.bm[b].waiting
    <3>1. s.req[r].st = "waiting"
      BY <1>1, <2>2 DEF MemOK
    <3> QED BY <1>2, <2>2, <3>1 DEF ReqMoves, outstanding, accepted
  <2> QED BY <2>1, <2>2
<1>7. \A i \in t.aio : i \in s.aio /\ (Listed(s, i) => Listed(t, i))
  <2>1. \A i \in t.aio : i.blk \in Blocks
    BY <1>1, IoField
  <2>2. \A i \in t.aio : i.blk = b => ~Listed(s, i)
    BY <1>3, InitBm DEF Listed
  <2> QED BY <2>1, <2>2, <1>2 DEF Listed
<1>8. t.bm[b].shadow = t.bm[b].map
  BY <1>2, InitBm
<1> QED BY <1>1, <1>4, <1>6, <1>7, <1>8, TurnHist

LEMMA CalmFH ==
  ASSUME NEW s, NEW t \in VhdState, NEW h, NEW k, NEW d, NEW c, NEW n, NEW g,
         Driver(s, h, k), FH(s, d, c, n, g), Calm(s, t, d)
  PROVE  FH(t, d, c, n, g)
<1>1. FileOK(s, d) /\ s.up /\ History(s, d, c, n, g)
  BY DEF FH
<1>2. FileOK(t, d) /\ History(t, d, c, n, g)
  BY <1>1, CalmHist
<1> QED BY <1>1, <1>2 DEF FH, Calm, View

(* finish_bat_transaction.                                                  *)
LEMMA BatTransactionHist ==
  ASSUME NEW s, NEW b \in Blocks, NEW u, NEW d, NEW c, NEW n, NEW g,
         Driver(s, NoReq, b), Settles(s, b), NoAlloc(s, b),
         u = finish_bat_transaction(s, b), FH(s, d, c, n, g)
  PROVE  FH(u, d, c, n, g)
<1>1. s \in VhdState /\ s.bm[b].tx.err # "EBUSY"
  BY DEF Driver, BlkOK
<1>2. CASE ~Mine(s, b)
  BY <1>2 DEF finish_bat_transaction, Mine
<1>3. CASE Mine(s, b) /\ s.bat_err # "ok" /\ s.bm[b].tx.live
  <2>1. u = close_tx(s, b)
    BY <1>3 DEF finish_bat_transaction, Mine
  <2>2. Marks(s, u, b) /\ u \in VhdState
    BY <1>1, <2>1, CloseMarks
  <2> QED BY <2>2, MarkCalm, CalmFH
<1>4. CASE Mine(s, b) /\ ~(s.bat_err # "ok" /\ s.bm[b].tx.live)
  <2>1. u = init_bat(s)
    BY <1>4 DEF finish_bat_transaction, Mine
  <2>2. Driver(u, NoReq, NoBlock)
    BY <1>4, <2>1, UnlockBatDriver
  <2> QED BY <1>4, <2>1, <2>2, UnlockBatHist
<1> QED BY <1>2, <1>3, <1>4

(* The last two calls of finish_bitmap_transaction.                         *)
LEMMA ReleaseHist ==
  ASSUME NEW s, NEW b \in Blocks, NEW v, NEW d, NEW c, NEW n, NEW g, Driver(s, NoReq, b), NoAlloc(s, b),
         s.bm[b].queue # {} => s.bm[b].tx.closed,
         s.bm[b].tx.live => txios(s, b) # {} \/ s.bm[b].wr,
         v = release(s, b), FH(s, d, c, n, g)
  PROVE  FH(v, d, c, n, g)
<1> DEFINE t == unlock_if_unused(s, b)
<1>1. t = unlock_if_unused(s, b) /\ v = finish_bat_transaction(t, b)
  BY DEF release
<1> HIDE DEF t
<1>2. /\ Driver(t, NoReq, b) /\ t.aio = s.aio
      /\ t.bm[b].tx = s.bm[b].tx /\ t.bm[b].queue = s.bm[b].queue /\ t.bm[b].wr = s.bm[b].wr
      /\ txios(t, b) = txios(s, b)
      /\ (t.bm[b].locked => bitmap_in_use(t.bm[b]))
  BY <1>1, UnlockDriver
<1>3. Settles(t, b) /\ NoAlloc(t, b)
  BY <1>2 DEF Settles, NoAlloc, HasIO
<1>4. s \in VhdState /\ t \in VhdState
  BY <1>2 DEF Driver
<1>5. FH(t, d, c, n, g)
  BY <1>1, <1>4, UnlockCalm, CalmFH
<1> QED BY <1>1, <1>2, <1>3, <1>5, BatTransactionHist

(* No bitmap has to be written: the file has it already.                    *)
LEMMA StoredSame ==
  ASSUME NEW s, NEW b \in Blocks, NEW d, NEW c, NEW n, NEW g, Driver(s, NoReq, b), FH(s, d, c, n, g),
         s.bm[b].tx.live, ~bitmap_write_needed(s, b)
  PROVE  Stored(s, d, b)
<1>1. BlkOK(s, b, b) /\ FileMap(s, d)
  BY DEF Driver, FH, FileOK
<1>2. ~s.bm[b].rd /\ b \in s.cached
  BY <1>1, InitBm DEF BlkOK
<1>3. s.bm[b].tx.err = "ok" => s.bm[b].map = s.bm[b].shadow
  BY DEF bitmap_write_needed
<1>4. CASE s.bat[b] = DD_BLK_UNUSED
  BY <1>1, <1>3, <1>4 DEF BlkOK, Stored
<1>5. CASE s.bat[b] # DD_BLK_UNUSED
  BY <1>1, <1>2, <1>3, <1>5 DEF FileMap, Stored, MapSlot
<1> QED BY <1>4, <1>5

LEMMA StartNewHist ==
  ASSUME NEW s, NEW b \in Blocks, NEW u, NEW d, NEW c, NEW n, NEW g, Driver(s, NoReq, b),
         s.bm[b].tx = init_tx, ~s.bm[b].wr, NoAlloc(s, b),
         u = start_new_bitmap_transaction(s, b), FH(s, d, c, n, g)
  PROVE  FH(u, d, c, n, g)
<1> DEFINE p == promote_queue(s, b)
           m == close_tx(p, b)
<1>1. s \in VhdState
  BY DEF Driver
<1>2. CASE s.bm[b].queue = {}
  BY <1>2 DEF start_new_bitmap_transaction
<1>3. CASE s.bm[b].queue # {}
  <2>1. Promotes(s, p, b) /\ p \in VhdState
    BY <1>1, PromoteEffect
  <2>2. u = IF ~transaction_completed(p.bm[b].tx) THEN p
            ELSE IF bitmap_write_needed(m, b) THEN schedule_bitmap_write(m, b)
            ELSE release(end_transaction(m, b), b)
    BY <1>3 DEF start_new_bitmap_transaction
  <2>3. p.bm[b].tx.err # "EBUSY" => Marks(p, m, b) /\ m.bm[b].tx.closed /\ m \in VhdState
    BY <2>1, CloseMarks
  <2> HIDE DEF p, m
  <2>4. Driver(p, NoReq, b) /\ NoAlloc(p, b)
    BY <1>3, <2>1, PromoteDriver
  <2>5. /\ p.bm[b].queue = {} /\ p.bm[b].tx.live /\ ~p.bm[b].tx.upd /\ ~p.bm[b].wr
        /\ p.bm[b].tx.err # "EBUSY"
    <3>1. p.bm[b].tx.err # "EBUSY"
      BY <2>4 DEF Driver, BlkOK
    <3> QED BY <2>1, <3>1, InitBm DEF Promotes
  <2>6. FH(p, d, c, n, g)
    BY <1>3, <2>1, <2>4, PromoteHist
  <2>7. CASE ~transaction_completed(p.bm[b].tx)
    BY <2>2, <2>6, <2>7
  <2>8. CASE transaction_completed(p.bm[b].tx)
    <3>1. txios(p, b) = {}
      BY <2>4, <2>8, CompletedTx
    <3>2. Driver(m, NoReq, b) /\ txios(m, b) = {} /\ NoAlloc(m, b)
      BY <2>3, <2>4, <2>5, <3>1, MarkDriver DEF NoAlloc
    <3>3. /\ m.bm[b].queue = {} /\ m.bm[b].tx.live /\ ~m.bm[b].tx.upd /\ ~m.bm[b].wr
          /\ m.bm[b].tx.closed /\ m \in VhdState
      BY <2>3, <2>5 DEF Marks
    <3>4. FH(m, d, c, n, g)
      BY <2>3, <2>4, <2>5, <2>6, MarkCalm, CalmFH
    <3>5. CASE bitmap_write_needed(m, b)
      <4>1. u = schedule_bitmap_write(m, b)
        BY <2>2, <2>8, <3>5
      <4>2. WritesBitmap(m, u, b) /\ u \in VhdState
        BY <4>1, <3>3, WritesBitmapEffect
      <4> QED BY <3>2, <3>4, <4>2, WriteBitmapCalm, CalmFH
    <3>6. CASE ~bitmap_write_needed(m, b)
      <4> DEFINE e == end_transaction(m, b)
      <4>1. u = release(e, b)
        BY <2>2, <2>8, <3>6
      <4>2. Ends(m, e, b) /\ e \in VhdState
        BY <3>3, EndEffect
      <4> HIDE DEF e
      <4>3. Ready(m, b)
        BY <3>2, <3>3 DEF Ready
      <4>4. Driver(e, NoReq, b) /\ NoAlloc(e, b) /\ e.bm[b].tx = init_tx /\ ~e.bm[b].wr
        BY <3>2, <3>3, <4>2, <4>3, EndDriver
      <4>5. FH(e, d, c, n, g)
        BY <3>2, <3>3, <3>4, <3>6, <4>2, <4>3, <4>4, StoredSame, EndHist
      <4>6. e.bm[b].queue = {}
        BY <3>3, <4>2 DEF Ends
      <4> QED BY <4>1, <4>4, <4>5, <4>6, InitBm, ReleaseHist
    <3> QED BY <3>5, <3>6
  <2> QED BY <2>7, <2>8
<1> QED BY <1>2, <1>3

(* finish_bitmap_transaction.                                               *)
LEMMA FinishBitmapTxHist ==
  ASSUME NEW s, NEW b \in Blocks, NEW e \in {"ok", "EIO"}, NEW u, NEW d, NEW c, NEW n, NEW g,
         Driver(s, NoReq, b), Ready(s, b), e = "ok" => Stored(s, d, b),
         u = finish_bitmap_transaction(s, b, e), FH(s, d, c, n, g)
  PROVE  FH(u, d, c, n, g)
<1> DEFINE t == with_tx(s, b, failed(s.bm[b].tx, e))
           f == end_transaction(t, b)
           m == start_new_bitmap_transaction(f, b)
<1>1. s \in VhdState /\ s.bm[b].tx.err # "EBUSY"
  BY DEF Driver, BlkOK
<1>2. t \in VhdState /\ Marks(s, t, b) /\ t.bm[b].tx.err = (IF s.bm[b].tx.err # "ok" THEN s.bm[b].tx.err ELSE e)
  BY <1>1, FailMarks
<1>3. u = IF ~t.prealloc /\ t.bm[b].tx.upd THEN [t EXCEPT !.bat_tx = TRUE] ELSE release(m, b)
  BY DEF finish_bitmap_transaction
<1>4. Ends(t, f, b) /\ f \in VhdState
  BY <1>2, EndEffect
<1>5. m = start_new_bitmap_transaction(f, b)
  OBVIOUS
<1> HIDE DEF t, f, m
<1>6. Driver(t, NoReq, b) /\ txios(t, b) = {}
  BY <1>2, MarkDriver DEF NoAlloc, Ready
<1>7. Ready(t, b)
  BY <1>2, <1>6 DEF Ready, Marks
<1>8. FH(t, d, c, n, g)
  BY <1>2, MarkCalm, CalmFH
<1>9. Stored(t, d, b)
  <2>1. t.bm[b].tx.err = "ok" => s.bm[b].tx.err = "ok" /\ e = "ok"
    BY <1>2
  <2>2. t.bm[b].shadow = s.bm[b].shadow /\ t.bat = s.bat /\ t.pbw_offset = s.pbw_offset
    BY <1>2 DEF Marks, OnlyBlk, SameBat
  <2> QED BY <2>1, <2>2 DEF Stored, MapSlot
<1>10. CASE ~t.prealloc /\ t.bm[b].tx.upd
  <2>1. u = [t EXCEPT !.bat_tx = TRUE]
    BY <1>3, <1>10
  <2> QED BY <1>6, <1>8, <1>9, <1>10, <2>1, BatTxHist
<1>11. CASE ~(~t.prealloc /\ t.bm[b].tx.upd)
  <2>1. u = release(m, b)
    BY <1>3, <1>11
  <2>2. ~t.bm[b].tx.upd
    BY <1>6, <1>11 DEF Driver, BlkOK
  <2>3. Driver(f, NoReq, b) /\ NoAlloc(f, b) /\ f.bm[b].tx = init_tx /\ ~f.bm[b].wr
    BY <1>4, <1>6, <1>7, <2>2, EndDriver
  <2>4. FH(f, d, c, n, g)
    BY <1>4, <1>6, <1>7, <1>8, <1>9, <2>2, <2>3, EndHist
  <2>5. /\ Driver(m, NoReq, b) /\ NoAlloc(m, b)
        /\ m.bm[b].queue # {} => m.bm[b].tx.closed
        /\ m.bm[b].tx.live => txios(m, b) # {} \/ m.bm[b].wr
    BY <1>5, <2>3, StartNewDriver
  <2>6. FH(m, d, c, n, g)
    BY <1>5, <2>3, <2>4, StartNewHist
  <2> QED BY <2>1, <2>5, <2>6, ReleaseHist
<1> QED BY <1>10, <1>11

(* finish_data_transaction, once a transaction has nothing in flight.       *)
LEMMA FinishIfCompletedHist ==
  ASSUME NEW s, NEW b \in Blocks, NEW u, NEW d, NEW c, NEW n, NEW g,
         Driver(s, NoReq, b), s.bm[b].tx.live, ~s.bm[b].wr,
         u = finish_if_completed(s, b), FH(s, d, c, n, g)
  PROVE  FH(u, d, c, n, g)
<1>1. s \in VhdState /\ s.bm[b].tx.err # "EBUSY" /\ BlkOK(s, b, b)
  BY DEF Driver, BlkOK
<1>2. CASE ~transaction_completed(s.bm[b].tx)
  BY <1>2 DEF finish_if_completed
<1>3. CASE transaction_completed(s.bm[b].tx)
  <2> DEFINE m == close_tx(s, b)
  <2>1. u = IF bitmap_write_needed(m, b) THEN schedule_bitmap_write(m, b)
            ELSE finish_bitmap_transaction(m, b, "ok")
    BY <1>3 DEF finish_if_completed, finish_data_transaction
  <2>2. Marks(s, m, b) /\ m.bm[b].tx.closed /\ m \in VhdState
    BY <1>1, CloseMarks
  <2> HIDE DEF m
  <2>3. txios(s, b) = {}
    BY <1>3, CompletedTx
  <2>4. Driver(m, NoReq, b) /\ txios(m, b) = {}
    BY <2>2, <2>3, MarkDriver
  <2>5. m.bm[b].tx.live /\ ~m.bm[b].wr /\ m.bm[b].tx.closed
    BY <2>2 DEF Marks
  <2>6. FH(m, d, c, n, g)
    BY <2>2, MarkCalm, CalmFH
  <2>7. CASE bitmap_write_needed(m, b)
    <3>1. u = schedule_bitmap_write(m, b)
      BY <2>1, <2>7
    <3>2. WritesBitmap(m, u, b) /\ u \in VhdState
      BY <3>1, <2>2, WritesBitmapEffect
    <3> QED BY <2>4, <2>6, <3>2, WriteBitmapCalm, CalmFH
  <2>8. CASE ~bitmap_write_needed(m, b)
    <3>1. u = finish_bitmap_transaction(m, b, "ok")
      BY <2>1, <2>8
    <3>2. Stored(m, d, b) /\ Ready(m, b)
      BY <2>4, <2>5, <2>6, <2>8, StoredSame DEF Ready
    <3> QED BY <2>4, <2>6, <3>1, <3>2, FinishBitmapTxHist
  <2> QED BY <2>7, <2>8
<1> QED BY <1>2, <1>3

(* A read is over.                                                          *)
LEMMA ReadDone ==
  ASSUME NEW s, NEW io \in s.aio, NEW e \in {"ok", "EIO"}, NEW a, NEW t, NEW d, NEW c, NEW n, NEW g,
         Driver(s, NoReq, NoBlock), io.op = "data_read",
         Taken(s, a, io), t = finish_data_read(a, io.req, e),
         e = "ok" => io.landed, FH(s, d, c, n, g)
  PROVE  Driver(t, NoReq, NoBlock) /\ FH(t, d, c, n, g)
<1> DEFINE r == io.req
           b == io.blk
<1>1. s \in VhdState /\ r \in Reqs /\ b \in Blocks /\ IoOK(s, io) /\ e \in Errors
  BY IoField DEF Driver, Errors
<1>2. /\ a \in VhdState /\ SameBat(s, a) /\ a.up = s.up /\ a.prealloc = s.prealloc
      /\ a.batmap = s.batmap /\ a.cached = s.cached /\ a.bm = s.bm /\ a.req = s.req
      /\ a.vfree = s.vfree /\ a.aio = s.aio \ {io}
  BY DEF Taken
<1>3. t = signal_one(a, r, e)
  BY <1>1 DEF finish_data_read, signal_one
<1>4. /\ t \in VhdState
      /\ SameBat(a, t) /\ t.up = a.up /\ t.prealloc = a.prealloc /\ t.cached = a.cached
      /\ t.aio = a.aio /\ t.bm = a.bm /\ t.batmap = a.batmap
      /\ t.vfree = a.vfree + 1
      /\ t.req[r].st = "done" /\ t.req[r].sec = a.req[r].sec /\ t.req[r].op = a.req[r].op
      /\ t.req[r].val = a.req[r].val
      /\ t.req[r].err = (IF e # "ok" THEN e ELSE a.req[r].err)
      /\ \A q \in Reqs : q # r => t.req[q] = a.req[q]
  <2>1. a \in VhdState /\ r \in Reqs /\ e \in Errors /\ t = signal_one(a, r, e)
    BY <1>1, <1>2, <1>3
  <2> HIDE DEF r
  <2> QED BY ONLY <2>1, SignalOne
<1>5. e # "EBUSY"
  OBVIOUS
<1>6. /\ s.req[r].st = "io" /\ s.req[r].op = "read" /\ blk_of(s.req[r].sec) = b
      /\ s.req[r].err # "EBUSY"
  BY <1>1 DEF IoOK, Driver, ReqOK
<1>7. r \notin s.bm[b].tx.reqs \cup s.bm[b].queue
  BY <1>1, <1>6 DEF Driver, MemOK
<1>8. OnlyBlk(s, t, b) /\ t.bm[b] = s.bm[b] /\ t.aio = s.aio \ {io} /\ t.vfree = s.vfree + 1
  BY <1>2, <1>4 DEF OnlyBlk, SameBat
<1>9. /\ \A q \in Reqs : q # r => t.req[q] = s.req[q]
      /\ t.req[r].sec = s.req[r].sec /\ t.req[r].op = s.req[r].op /\ t.req[r].err # "EBUSY"
      /\ t.req[r].st = "done" /\ t.req[r].val = s.req[r].val /\ (t.req[r].err = "ok" => e = "ok")
  BY <1>2, <1>4, <1>5, <1>6
<1>10. io.op \in Data
  BY DEF Data
<1>11. Driver(t, NoReq, NoBlock)
  BY <1>4, <1>7, <1>8, <1>9, <1>10, DataDriver
<1> QED BY <1>7, <1>8, <1>9, <1>10, <1>11, DataHist

(* A write of a transaction is over.                                        *)
LEMMA TxWriteDone ==
  ASSUME NEW s, NEW io \in s.aio, NEW e \in {"ok", "EIO"}, NEW t, NEW b, NEW r, NEW u, NEW v,
         NEW d, NEW c, NEW n, NEW g,
         Driver(s, NoReq, NoBlock), io.op = "data_write", io.blk = b, io.req = r,
         r \in s.bm[b].tx.reqs, Finishes(s, t, io, e), u = tally(t, b, sec_of(s.req[r].sec), e),
         v = finish_if_completed(u, b), e = "ok" => io.landed, FH(s, d, c, n, g)
  PROVE  Driver(v, NoReq, NoBlock) /\ FH(v, d, c, n, g)
<1>1. s \in VhdState /\ r \in Reqs /\ b \in Blocks /\ sec_of(s.req[r].sec) \in Secs /\ s.bm[b].tx \in Tx
  BY IoField, BmField, ReqField DEF Driver
<1>2. /\ t \in VhdState /\ SameBat(s, t) /\ t.up = s.up /\ t.prealloc = s.prealloc
      /\ t.batmap = s.batmap /\ t.cached = s.cached /\ t.bm = s.bm /\ t.aio = s.aio \ {io}
      /\ t.vfree = s.vfree /\ t.req[r].st = "finished" /\ t.req[r].err = e
      /\ t.req[r].sec = s.req[r].sec /\ t.req[r].op = s.req[r].op
      /\ \A q \in Reqs : q # r => t.req[q] = s.req[q]
  BY DEF Finishes
<1>7. /\ OnlyBlk(t, u, b) /\ u.req = t.req /\ u.vfree = t.vfree /\ u.aio = t.aio
      /\ u \in VhdState
      /\ u.bm[b].locked = s.bm[b].locked /\ u.bm[b].rd = s.bm[b].rd /\ u.bm[b].wr = s.bm[b].wr
      /\ u.bm[b].map = s.bm[b].map /\ u.bm[b].waiting = s.bm[b].waiting
      /\ u.bm[b].queue = s.bm[b].queue
      /\ u.bm[b].tx = counted(s.bm[b].tx)
      /\ u.bm[b].shadow = IF e = "ok" THEN s.bm[b].shadow \cup {sec_of(s.req[r].sec)}
                          ELSE s.bm[b].shadow
  <2> DEFINE x == sec_of(s.req[r].sec)
  <2>1. t \in VhdState /\ b \in Blocks /\ x \in Secs /\ u = tally(t, b, x, e) /\ t.bm = s.bm
    BY <1>1, <1>2
  <2> HIDE DEF x
  <2>2. /\ OnlyBlk(t, u, b) /\ u.req = t.req /\ u.vfree = t.vfree /\ u.aio = t.aio
        /\ u \in VhdState
        /\ u.bm[b].locked = t.bm[b].locked /\ u.bm[b].rd = t.bm[b].rd /\ u.bm[b].wr = t.bm[b].wr
        /\ u.bm[b].map = t.bm[b].map /\ u.bm[b].waiting = t.bm[b].waiting
        /\ u.bm[b].queue = t.bm[b].queue
        /\ u.bm[b].tx = counted(t.bm[b].tx)
        /\ u.bm[b].shadow = IF e = "ok" THEN t.bm[b].shadow \cup {x} ELSE t.bm[b].shadow
    BY ONLY <2>1, TallyEffect
  <2> QED BY <2>1, <2>2 DEF x
<1>8. TxWritten(s, u, b, r, io)
  <2>1. OnlyBlk(s, u, b)
    <3>1. OnlyBlk(t, u, b) /\ SameBat(s, t) /\ t.up = s.up /\ t.prealloc = s.prealloc
          /\ t.batmap = s.batmap /\ t.cached = s.cached /\ t.bm = s.bm
      BY <1>2, <1>7
    <3> QED BY ONLY <3>1 DEF OnlyBlk, SameBat
  <2>2. e # "EBUSY"
    OBVIOUS
  <2>3. /\ u.aio = s.aio \ {io} /\ u.vfree = s.vfree
        /\ \A q \in Reqs : q # r => u.req[q] = s.req[q]
        /\ u.req[r].st = "finished" /\ u.req[r].sec = s.req[r].sec /\ u.req[r].op = s.req[r].op
        /\ u.req[r].err = e
    BY ONLY <1>2, <1>7
  <2> QED BY ONLY <2>1, <2>2, <2>3, <1>7 DEF TxWritten
<1>9. Driver(u, NoReq, b) /\ u.bm[b].tx.live /\ ~u.bm[b].wr /\ ~(u.bm[b].tx.upd /\ u.bat_tx)
  <2>1. u \in VhdState
    BY <1>7
  <2> QED BY <1>8, <2>1, TxWriteDriver
<1>10. /\ u.bm[b].tx.closed = s.bm[b].tx.closed /\ u.bm[b].tx.live = s.bm[b].tx.live
       /\ u.bm[b].tx.err = s.bm[b].tx.err /\ u.bm[b].queue = s.bm[b].queue
  BY ONLY <1>1, <1>7, TxFields
<1>11. u.bm[b].queue # {} => u.bm[b].tx.closed
  <2>1. b # NoBlock
    BY <1>1, BlkNo
  <2> QED BY <1>1, <1>10, <2>1 DEF Driver, BlkOK
<1>12. BatOK(u, NoBlock)
  <2>1. SameBat(s, u) /\ \A x \in Blocks : x # b => u.bm[x] = s.bm[x]
    BY <1>8 DEF TxWritten, OnlyBlk
  <2>2. \A x \in Blocks : /\ u.bm[x].tx.live = s.bm[x].tx.live
                          /\ u.bm[x].tx.err = s.bm[x].tx.err
                          /\ u.bm[x].tx.closed = s.bm[x].tx.closed
    BY <1>10, <2>1
  <2>3. s.pbw_blk \in Blocks /\ Unique(s) /\ CountOK(s) /\ BatOK(s, NoBlock)
    BY <1>1 DEF VhdState, Driver
  <2>4. u.aio = s.aio \ {io}
    BY <1>2, <1>7
  <2>5. \A x, op : op # "data_write" => (HasIO(u, x, op) <=> HasIO(s, x, op))
    BY <2>4 DEF HasIO
  <2> QED BY <2>1, <2>2, <2>3, <2>5, BatFrame
<1>13. Driver(v, NoReq, b) /\ Settles(v, b) /\ BatOK(v, NoBlock)
  BY <1>1, <1>9, <1>11, <1>12, FinishIfCompletedDriver, SMTT(30)
<1>14. u.req[r].err = "ok" => io.landed
  BY <1>2, <1>7
<1>15. FH(u, d, c, n, g)
  BY <1>8, <1>9, <1>14, TxWriteHist
<1>16. FH(v, d, c, n, g)
  BY <1>1, <1>9, <1>15, FinishIfCompletedHist
<1> QED BY <1>1, <1>13, <1>16, Settle

(* A write is over.                                                         *)
LEMMA WriteDone ==
  ASSUME NEW s, NEW io \in s.aio, NEW e \in {"ok", "EIO"}, NEW a, NEW v, NEW d, NEW c, NEW n, NEW g,
         Driver(s, NoReq, NoBlock), io.op = "data_write",
         Taken(s, a, io), v = finish_data_write(a, io.req, e),
         e = "ok" => io.landed, FH(s, d, c, n, g)
  PROVE  Driver(v, NoReq, NoBlock) /\ FH(v, d, c, n, g)
<1> DEFINE r == io.req
           b == io.blk
           t == finish_req(a, r, e)
           u == tally(t, b, sec_of(s.req[r].sec), e)
<1>1. s \in VhdState /\ r \in Reqs /\ b \in Blocks /\ IoOK(s, io) /\ e \in Errors /\ "ok" \in Errors
  BY IoField DEF Driver, Errors
<1>2. /\ a \in VhdState /\ SameBat(s, a) /\ a.up = s.up /\ a.prealloc = s.prealloc
      /\ a.batmap = s.batmap /\ a.cached = s.cached /\ a.bm = s.bm /\ a.req = s.req
      /\ a.vfree = s.vfree /\ a.aio = s.aio \ {io}
  BY DEF Taken
<1>3. s.req[r].st = "io" /\ s.req[r].op = "write" /\ blk_of(s.req[r].sec) = b
  BY <1>1 DEF IoOK
<1>4. v = IF r \in s.bm[b].tx.reqs THEN finish_if_completed(u, b)
          ELSE IF r \in s.bm[b].queue THEN t
          ELSE signal_one(t, r, "ok")
  <2>1. blk_of(a.req[r].sec) = b /\ a.bm = s.bm /\ a.req = s.req
    BY <1>2, <1>3
  <2> QED BY <2>1 DEF finish_data_write, tally, finish_req, signal_one
<1>5. u = tally(t, b, sec_of(s.req[r].sec), e) /\ t = finish_req(a, r, e)
  OBVIOUS
<1>6. /\ t \in VhdState /\ OnlyReq(a, t, r) /\ t.vfree = a.vfree
      /\ t.req[r].st = "finished" /\ t.req[r].err = e /\ t.req[r].sec = a.req[r].sec
      /\ t.req[r].op = a.req[r].op /\ t.req[r].val = a.req[r].val
  <2> HIDE DEF t, u
  <2>1. a \in VhdState /\ r \in Reqs /\ e \in Errors /\ t = finish_req(a, r, e)
    BY <1>1, <1>2, <1>5
  <2> HIDE DEF r
  <2> QED BY ONLY <2>1, FinishReq
<1> HIDE DEF t, u
<1>7. /\ SameBat(s, t) /\ t.up = s.up /\ t.prealloc = s.prealloc /\ t.batmap = s.batmap
      /\ t.cached = s.cached /\ t.bm = s.bm /\ t.aio = s.aio \ {io} /\ t.vfree = s.vfree
      /\ \A q \in Reqs : q # r => t.req[q] = s.req[q]
  BY <1>2, <1>6 DEF OnlyReq, SameBat
<1>8. t.req[r].sec = s.req[r].sec /\ t.req[r].op = s.req[r].op /\ t.req[r].err # "EBUSY"
      /\ t.req[r].val = s.req[r].val /\ (t.req[r].err = "ok" => io.landed)
  BY <1>2, <1>6
<1>9. CASE r \in s.bm[b].tx.reqs
  <2>1. v = finish_if_completed(u, b)
    BY <1>4, <1>9
  <2>2. Finishes(s, t, io, e)
    BY <1>2, <1>6, <1>7, <1>8 DEF Finishes
  <2>3. u = tally(t, b, sec_of(s.req[r].sec), e)
    BY <1>5
  <2> HIDE DEF r, b
  <2> QED BY <1>9, <2>1, <2>2, <2>3, TxWriteDone DEF r, b
<1>10. CASE r \notin s.bm[b].tx.reqs /\ r \in s.bm[b].queue
  <2>1. v = t /\ io.op \in Data
    BY <1>4, <1>10 DEF Data
  <2>2. OnlyBlk(s, t, b)
    BY <1>7 DEF OnlyBlk
  <2>3. Driver(t, NoReq, NoBlock)
    BY <1>6, <1>7, <1>8, <1>10, <2>1, <2>2, DataDriver
  <2> QED BY <1>6, <1>7, <1>8, <1>10, <2>1, <2>2, <2>3, DataHist
<1>11. CASE r \notin s.bm[b].tx.reqs /\ r \notin s.bm[b].queue
  <2>1. v = signal_one(t, r, "ok") /\ io.op \in Data
    BY <1>1, <1>4, <1>11 DEF Data
  <2>2. /\ v \in VhdState
        /\ SameBat(t, v) /\ v.up = t.up /\ v.prealloc = t.prealloc /\ v.cached = t.cached
        /\ v.aio = t.aio /\ v.bm = t.bm /\ v.batmap = t.batmap
        /\ v.vfree = t.vfree + 1
        /\ v.req[r].st = "done" /\ v.req[r].sec = t.req[r].sec
        /\ v.req[r].op = t.req[r].op /\ v.req[r].err = t.req[r].err /\ v.req[r].val = t.req[r].val
        /\ \A q \in Reqs : q # r => v.req[q] = t.req[q]
    <3>1. t \in VhdState /\ r \in Reqs /\ "ok" \in Errors /\ v = signal_one(t, r, "ok")
      BY <1>1, <1>6, <2>1
    <3> HIDE DEF r
    <3> QED BY ONLY <3>1, SignalOne
  <2>4. OnlyBlk(s, v, b) /\ v.bm[b] = s.bm[b] /\ v.aio = s.aio \ {io} /\ v.vfree = s.vfree + 1
    BY <1>7, <2>2 DEF OnlyBlk, SameBat
  <2>5. /\ \A q \in Reqs : q # r => v.req[q] = s.req[q]
        /\ v.req[r].sec = s.req[r].sec /\ v.req[r].op = s.req[r].op /\ v.req[r].err # "EBUSY"
        /\ v.req[r].st = "done" /\ v.req[r].val = s.req[r].val /\ (v.req[r].err = "ok" => io.landed)
    BY <1>1, <1>7, <1>8, <2>2
  <2>6. Driver(v, NoReq, NoBlock)
    BY <1>11, <2>1, <2>2, <2>4, <2>5, DataDriver
  <2> QED BY <1>11, <2>1, <2>4, <2>5, <2>6, DataHist
<1> QED BY <1>9, <1>10, <1>11

(* A bitmap write is over.                                                  *)
LEMMA BitmapWriteDone ==
  ASSUME NEW s, NEW io \in s.aio, NEW a, NEW u, NEW b, NEW e \in {"ok", "EIO"},
         NEW d, NEW c, NEW n, NEW g,
         Driver(s, NoReq, NoBlock), io.op = "bitmap_write", b = io.blk,
         Taken(s, a, io), u = finish_bitmap_write(a, b, e),
         e = "ok" => io.landed, FH(s, d, c, n, g)
  PROVE  Driver(u, NoReq, NoBlock) /\ FH(u, d, c, n, g)
<1> DEFINE m == a.bm[b]
           k == [m EXCEPT !.wr = FALSE]
           w == with_bm(a, b, k)
<1>1. s \in VhdState /\ b \in Blocks
  BY IoField DEF Driver
<1>2. /\ a \in VhdState /\ SameBat(s, a) /\ a.up = s.up /\ a.prealloc = s.prealloc
      /\ a.batmap = s.batmap /\ a.cached = s.cached /\ a.bm = s.bm /\ a.req = s.req
      /\ a.vfree = s.vfree /\ a.aio = s.aio \ {io}
  BY DEF Taken
<1>3. u = finish_bitmap_transaction(w, b, e)
  BY DEF finish_bitmap_write
<1>4. m \in Bitmap
  BY <1>1, <1>2, BmField
<1>5. k \in Bitmap
  BY <1>4 DEF Bitmap
<1>6. /\ k.locked = m.locked /\ k.rd = m.rd /\ ~k.wr /\ k.map = m.map /\ k.shadow = m.shadow
      /\ k.tx = m.tx /\ k.queue = m.queue /\ k.waiting = m.waiting
  BY <1>4 DEF Bitmap
<1> HIDE DEF k
<1>7. /\ OnlyBlk(a, w, b) /\ w.bm[b] = k /\ w.req = a.req /\ w.vfree = a.vfree /\ w.aio = a.aio
      /\ w \in VhdState
  BY <1>1, <1>2, <1>5, WithBm, UpdBm
<1> HIDE DEF w
<1>8. BitmapWritten(s, w, b, io)
  <2>1. OnlyBlk(s, w, b)
    BY <1>2, <1>7 DEF OnlyBlk, SameBat
  <2> QED BY <1>2, <1>6, <1>7, <2>1 DEF BitmapWritten
<1>9. Driver(w, NoReq, b) /\ Ready(w, b)
  BY <1>7, <1>8, BitmapWriteDriver DEF Ready
<1>10. FH(w, d, c, n, g)
  BY <1>1, <1>7, <1>8, BitmapWrittenCalm, CalmFH
<1>11. e = "ok" => Stored(w, d, b)
  <2>1. IoOK(s, io) /\ FileMap(s, d) /\ BatOK(s, NoBlock)
    BY DEF Driver, FH, FileOK
  <2>2. e = "ok" => s.bm[b].shadow \subseteq d.map[io.slot]
    BY <2>1 DEF FileMap
  <2>3. io.slot = MapSlot(s, b)
    <3>1. DD_BLK_UNUSED \notin Slots
      BY DEF DD_BLK_UNUSED, Slots
    <3>2. b # NoBlock /\ (Mine(s, b) => s.bat[b] = DD_BLK_UNUSED)
      BY <1>1, <2>1, BlkNo DEF Mine, BatOK, Allocating, Failing, Done
    <3> QED BY <2>1, <3>1, <3>2 DEF IoOK, MapSlot
  <2>4. w.bm[b].shadow = s.bm[b].shadow /\ w.bat = s.bat /\ w.pbw_offset = s.pbw_offset
    BY <1>8 DEF BitmapWritten, OnlyBlk, SameBat
  <2> QED BY <2>2, <2>3, <2>4 DEF Stored, MapSlot
<1> QED BY <1>1, <1>3, <1>9, <1>10, <1>11, FinishBitmapTxDriver, FinishBitmapTxHist

(* The write of zeros is over.                                              *)
LEMMA ZeroDone ==
  ASSUME NEW s, NEW io \in s.aio, NEW a, NEW u, NEW b, NEW d, NEW c, NEW n, NEW g,
         Driver(s, NoReq, NoBlock), io.op = "zero_bm", b = io.blk,
         Taken(s, a, io), u = finish_zero_bm_write(a, b, "ok"),
         io.landed, FH(s, d, c, n, g)
  PROVE  Driver(u, NoReq, NoBlock) /\ FH(u, d, c, n, g)
<1> DEFINE T == finished(a.bm[b].tx, {zero_req})
           w == with_tx(a, b, T)
           v == schedule_bat_write(w)
<1>1. s \in VhdState /\ b \in Blocks /\ IoOK(s, io) /\ BlkOK(s, b, NoBlock) /\ b # NoBlock
  BY IoField, BlkNo DEF Driver
<1>2. /\ a \in VhdState /\ SameBat(s, a) /\ a.up = s.up /\ a.prealloc = s.prealloc
      /\ a.batmap = s.batmap /\ a.cached = s.cached /\ a.bm = s.bm /\ a.req = s.req
      /\ a.vfree = s.vfree /\ a.aio = s.aio \ {io}
  BY DEF Taken
<1>3. u = finish_if_completed(v, b)
  BY DEF finish_zero_bm_write
<1>4. T \in Tx /\ T = finished(s.bm[b].tx, {zero_req})
  BY <1>1, <1>2, BmField, FinishedType
<1> HIDE DEF T
<1>5. /\ w \in VhdState /\ OnlyBlk(a, w, b) /\ w.req = a.req /\ w.vfree = a.vfree /\ w.aio = a.aio
      /\ w.bm[b].tx = T /\ w.bm[b].locked = a.bm[b].locked /\ w.bm[b].rd = a.bm[b].rd
      /\ w.bm[b].wr = a.bm[b].wr /\ w.bm[b].map = a.bm[b].map /\ w.bm[b].shadow = a.bm[b].shadow
      /\ w.bm[b].queue = a.bm[b].queue /\ w.bm[b].waiting = a.bm[b].waiting
  <2>1. a \in VhdState /\ b \in Blocks /\ T \in Tx /\ w = with_tx(a, b, T)
    BY <1>1, <1>2, <1>4
  <2> HIDE DEF w
  <2> QED BY ONLY <2>1, WithTx
<1> HIDE DEF w
<1>6. /\ v \in VhdState /\ v.up = w.up /\ v.prealloc = w.prealloc /\ v.batmap = w.batmap
      /\ v.cached = w.cached /\ v.req = w.req /\ v.vfree = w.vfree /\ v.bat = w.bat
      /\ v.next_db = w.next_db /\ v.bm = w.bm
      /\ v.locked = w.locked /\ v.pbw_blk = w.pbw_blk /\ v.pbw_offset = w.pbw_offset
      /\ v.bat_err = "ok" /\ ~v.bat_tx /\ v.started /\ v.bat_buf = bat_sector(w)
      /\ v.aio = w.aio \cup {bat_io(w.pbw_blk, w.pbw_offset)}
  BY <1>5, BatWriteEffect DEF bat_io
<1> HIDE DEF v
<1>7. s.pbw_blk = b /\ s.locked
  BY <1>1 DEF IoOK, Mine
<1>8. SameBat(s, w)
  BY <1>2, <1>5 DEF OnlyBlk, SameBat
<1>9. ZeroEnds(s, v, b, io)
  <2>1. bat_sector(w) = bat_sector(s)
    BY <1>8 DEF bat_sector, SameBat
  <2>2. v.aio = (s.aio \ {io}) \cup {bat_io(b, s.pbw_offset)}
    BY <1>2, <1>5, <1>6, <1>7, <1>8 DEF SameBat
  <2>3. /\ v.up = s.up /\ v.prealloc = s.prealloc /\ v.batmap = s.batmap /\ v.cached = s.cached
        /\ v.req = s.req /\ v.vfree = s.vfree /\ v.bat = s.bat /\ v.next_db = s.next_db
        /\ (\A x \in Blocks : x # b => v.bm[x] = s.bm[x])
        /\ v.locked = s.locked /\ v.pbw_blk = s.pbw_blk /\ v.pbw_offset = s.pbw_offset
        /\ v.bat_err = "ok" /\ ~v.bat_tx /\ v.started /\ v.bat_buf = bat_sector(s)
    BY <1>2, <1>5, <1>6, <1>8, <2>1 DEF OnlyBlk, SameBat
  <2>4. /\ v.bm[b].locked = s.bm[b].locked /\ v.bm[b].rd = s.bm[b].rd /\ v.bm[b].wr = s.bm[b].wr
        /\ v.bm[b].map = s.bm[b].map /\ v.bm[b].queue = s.bm[b].queue
        /\ v.bm[b].waiting = s.bm[b].waiting /\ v.bm[b].shadow = s.bm[b].shadow
        /\ v.bm[b].tx = finished(s.bm[b].tx, {zero_req})
    BY <1>2, <1>4, <1>5, <1>6
  <2> QED BY ONLY <2>2, <2>3, <2>4 DEF ZeroEnds, bat_io
<1>10. /\ Driver(v, NoReq, b) /\ v.bm[b].tx.live /\ ~v.bm[b].wr
       /\ ~(v.bm[b].tx.upd /\ v.bat_tx) /\ (Mine(v, b) => Allocating(v))
  BY <1>6, <1>9, ZeroDriver
<1>11. v.bm[b].queue # {} => v.bm[b].tx.closed
  <2>1. v.bm[b].queue = s.bm[b].queue /\ v.bm[b].tx.closed = s.bm[b].tx.closed
    <3>1. v.bm[b].tx = finished(s.bm[b].tx, {zero_req}) /\ v.bm[b].queue = s.bm[b].queue
      BY <1>9 DEF ZeroEnds
    <3> QED BY <1>1, <3>1, BmField, FinishedFields
  <2> QED BY <1>1, <2>1 DEF BlkOK
<1>12. BatOK(v, NoBlock)
  <2>1. Allocating(v) /\ v.locked /\ BatOK(v, b)
    BY <1>7, <1>9, <1>10 DEF ZeroEnds, Mine, Driver
  <2> QED BY <2>1 DEF BatOK
<1>13. Driver(u, NoReq, b) /\ Settles(u, b) /\ BatOK(u, NoBlock)
  BY <1>1, <1>3, <1>10, <1>11, <1>12, FinishIfCompletedDriver
<1>14. FileOK(s, d) /\ s.up
  BY DEF FH
<1>15. FH(v, d, c, n, g)
  BY <1>6, <1>9, <1>14, ZeroEndsCalm, CalmFH
<1>16. FH(u, d, c, n, g)
  BY <1>1, <1>3, <1>10, <1>15, FinishIfCompletedHist
<1> QED BY <1>1, <1>13, <1>16, Settle

(* A redundant bitmap write is over.                                        *)
LEMMA RedundantDone ==
  ASSUME NEW s, NEW io \in s.aio, NEW a, NEW u, NEW d, NEW c, NEW n, NEW g,
         Driver(s, NoReq, NoBlock), io.op = "redundant_bm",
         Taken(s, a, io), u = finish_redundant_bm_write(a), FH(s, d, c, n, g)
  PROVE  Driver(u, NoReq, NoBlock) /\ FH(u, d, c, n, g)
<1>1. s \in VhdState /\ io \in Tiocb
  BY IoField DEF Driver
<1>2. /\ a \in VhdState /\ SameBat(s, a) /\ a.up = s.up /\ a.prealloc = s.prealloc
      /\ a.batmap = s.batmap /\ a.cached = s.cached /\ a.bm = s.bm /\ a.req = s.req
      /\ a.vfree = s.vfree /\ a.aio = s.aio \ {io}
  BY DEF Taken
<1>3. u = [a EXCEPT !.vfree = @ + 1]
  BY DEF finish_redundant_bm_write, free_vhd_request
<1>4. a.vfree + 1 \in Int
  BY <1>2 DEF VhdState
<1>5. u \in VhdState
  BY <1>2, <1>3, <1>4, UpdFields
<1>6. /\ SameBat(a, u) /\ u.up = a.up /\ u.prealloc = a.prealloc
      /\ u.batmap = a.batmap /\ u.cached = a.cached /\ u.bm = a.bm /\ u.req = a.req
      /\ u.vfree = a.vfree + 1 /\ u.aio = a.aio
  BY <1>2, <1>3 DEF VhdState, SameBat
<1>7. OnlyBlk(s, u, io.blk) /\ u.bm[io.blk] = s.bm[io.blk] /\ u.req = s.req
      /\ u.aio = s.aio \ {io} /\ u.vfree = s.vfree + 1
  BY <1>2, <1>6 DEF OnlyBlk, SameBat
<1>8. Calm(s, u, d)
  BY <1>1, <1>7, IoField, RedundantCalm
<1>9. FH(u, d, c, n, g)
  BY <1>5, <1>8, CalmFH
<1> QED BY <1>1, <1>5, <1>7, <1>9, RedundantDriver

(* The BAT write is over.                                                   *)
LEMMA BatDone ==
  ASSUME NEW s, NEW io \in s.aio, NEW a, NEW v, NEW e \in {"ok", "EIO"},
         NEW d, NEW c, NEW n, NEW g,
         Driver(s, NoReq, NoBlock), io.op = "bat",
         Taken(s, a, io), v = finish_bat_write(a, e),
         io.landed <=> e = "ok", FH(s, d, c, n, g)
  PROVE  Driver(v, NoReq, NoBlock) /\ FH(v, d, c, n, g)
<1> DEFINE b == io.blk
           t == bat_result(a, b, e)
           p == with_tx(t, b, finished(t.bm[b].tx, {bat_req}))
           u == with_tx(t, b, no_upd(t.bm[b].tx))
           f == finish_if_completed(p, b)
           k == finish_bitmap_transaction(u, b, e)
           w == IF s.prealloc THEN f ELSE IF u.bat_tx THEN k ELSE u
<1>1. b \in Blocks /\ a.pbw_blk = b /\ a.prealloc = s.prealloc
  <2>1. s \in VhdState /\ IoOK(s, io)
    BY DEF Driver
  <2> QED BY <2>1, IoField DEF IoOK, Mine, Taken, SameBat
<1>2. v = finish_bat_transaction(w, b)
  <2>1. finish_bat_write(a, e) = bat_over(a, a.pbw_blk, e)
    BY ONLY DEF finish_bat_write, bat_over, bat_result, no_upd
  <2>2. v = bat_over(a, b, e)
    BY <1>1, <2>1
  <2> QED BY ONLY <1>1, <2>2 DEF bat_over
<1>3. t = bat_result(a, b, e)
  OBVIOUS
<1>4. s.prealloc => BatEnds(s, p, b, io, e) /\ p \in VhdState
  <2> DEFINE T == finished(t.bm[b].tx, {bat_req})
  <2>1. s.prealloc => T = (IF s.prealloc THEN finished(t.bm[b].tx, {bat_req}) ELSE no_upd(t.bm[b].tx))
    OBVIOUS
  <2>2. p = with_tx(t, b, T) /\ b = io.blk
    OBVIOUS
  <2> HIDE DEF p, T, t, b
  <2> QED BY <2>1, <2>2, <1>3, BatEndEffect
<1>5. ~s.prealloc => BatEnds(s, u, b, io, e) /\ u \in VhdState
  <2> DEFINE T == no_upd(t.bm[b].tx)
  <2>1. ~s.prealloc => T = (IF s.prealloc THEN finished(t.bm[b].tx, {bat_req}) ELSE no_upd(t.bm[b].tx))
    OBVIOUS
  <2>2. u = with_tx(t, b, T) /\ b = io.blk
    OBVIOUS
  <2> HIDE DEF u, T, t, b
  <2> QED BY <2>1, <2>2, <1>3, BatEndEffect
<1>6. f = finish_if_completed(p, b) /\ k = finish_bitmap_transaction(u, b, e) /\ b = io.blk
  OBVIOUS
<1> HIDE DEF p, u, t, f, k, b
<1>7. CASE s.prealloc
  <2>1. /\ Driver(p, NoReq, b) /\ NoAlloc(p, b) /\ p.bm[b].tx.live /\ ~p.bm[b].tx.upd
        /\ p.bm[b].queue # {} => p.bm[b].tx.closed
        /\ ~p.bm[b].wr
    <3>1. p \in VhdState /\ b = io.blk /\ BatEnds(s, p, b, io, e)
      BY <1>4, <1>6, <1>7
    <3> QED BY ONLY <1>7, <3>1, Driver(s, NoReq, NoBlock), io \in s.aio, io.op = "bat",
                    e \in {"ok", "EIO"}, BatEndDriver
  <2>2. Driver(f, NoReq, b) /\ Settles(f, b) /\ NoAlloc(f, b)
    BY <1>1, <1>6, <2>1, FinishIfCompletedDriver
  <2>3. FH(p, d, c, n, g)
    BY <1>4, <1>6, <1>7, <2>1, BatEndHist
  <2>4. FH(f, d, c, n, g)
    BY <1>1, <1>6, <2>1, <2>3, FinishIfCompletedHist
  <2>5. v = finish_bat_transaction(f, b)
    BY <1>2, <1>7
  <2> QED BY <1>1, <2>2, <2>4, <2>5, BatTransactionDriver, BatTransactionHist
<1>8. CASE ~s.prealloc /\ u.bat_tx
  <2>1. s.bat_tx
    BY <1>5, <1>8 DEF BatEnds
  <2>2. /\ Driver(u, NoReq, b) /\ NoAlloc(u, b) /\ u.bm[b].tx.live
        /\ u.bm[b].tx.closed /\ txios(u, b) = {} /\ ~u.bm[b].wr
    <3>1. u \in VhdState /\ b = io.blk /\ BatEnds(s, u, b, io, e)
      BY <1>5, <1>6, <1>8
    <3>2. ~s.prealloc /\ s.bat_tx
      BY <1>8, <2>1
    <3> DEFINE C == u.bm[b].tx.closed
               X == txios(u, b) = {}
               W == u.bm[b].wr
    <3>3. Driver(u, NoReq, b) /\ NoAlloc(u, b) /\ u.bm[b].tx.live
      BY ONLY <3>1, Driver(s, NoReq, NoBlock), io \in s.aio, io.op = "bat",
              e \in {"ok", "EIO"}, BatEndDriver
    <3>4. C
      BY ONLY <3>1, <3>2, Driver(s, NoReq, NoBlock), io \in s.aio, io.op = "bat",
              e \in {"ok", "EIO"}, BatEndDriver
    <3>5. X
      BY ONLY <3>1, <3>2, Driver(s, NoReq, NoBlock), io \in s.aio, io.op = "bat",
              e \in {"ok", "EIO"}, BatEndDriver
    <3>6. ~W
      BY ONLY <3>1, <3>2, Driver(s, NoReq, NoBlock), io \in s.aio, io.op = "bat",
              e \in {"ok", "EIO"}, BatEndDriver
    <3> QED BY ONLY <3>3, <3>4, <3>5, <3>6
  <2>3. Driver(k, NoReq, NoBlock) /\ NoAlloc(k, b)
    BY <1>1, <1>6, <2>2, FinishBitmapTxDriver DEF Ready
  <2>4. Driver(k, NoReq, b) /\ Settles(k, b)
    BY <1>1, <2>3, Weaken
  <2>5. ~u.bm[b].tx.upd
    BY <1>5, <1>8 DEF BatEnds
  <2>6. FH(u, d, c, n, g) /\ Stored(u, d, b)
    BY <1>5, <1>6, <1>8, <2>1, <2>2, <2>5, BatEndHist
  <2>7. FH(k, d, c, n, g)
    BY <1>1, <1>6, <2>2, <2>6, FinishBitmapTxHist DEF Ready
  <2>8. v = finish_bat_transaction(k, b)
    BY <1>2, <1>8
  <2> QED BY <1>1, <2>3, <2>4, <2>7, <2>8, BatTransactionDriver, BatTransactionHist
<1>9. CASE ~s.prealloc /\ ~u.bat_tx
  <2>1. ~s.bat_tx
    BY <1>5, <1>9 DEF BatEnds
  <2>2. /\ Driver(u, NoReq, b) /\ NoAlloc(u, b) /\ u.bm[b].tx.live
        /\ u.bm[b].queue # {} => u.bm[b].tx.closed
        /\ (txios(u, b) # {} \/ u.bm[b].wr) /\ bitmap_in_use(u.bm[b])
    <3>1. u \in VhdState /\ b = io.blk /\ BatEnds(s, u, b, io, e)
      BY <1>5, <1>6, <1>9
    <3>2. ~s.prealloc /\ ~s.bat_tx
      BY <1>9, <2>1
    <3> DEFINE Q == u.bm[b].queue # {} => u.bm[b].tx.closed
               X == txios(u, b) # {} \/ u.bm[b].wr
               W == bitmap_in_use(u.bm[b])
    <3>3. Driver(u, NoReq, b) /\ NoAlloc(u, b) /\ u.bm[b].tx.live
      BY ONLY <3>1, Driver(s, NoReq, NoBlock), io \in s.aio, io.op = "bat",
              e \in {"ok", "EIO"}, BatEndDriver
    <3>4. Q
      <4>1. u.bm[b].queue = s.bm[b].queue /\ u.bm[b].tx.closed = s.bm[b].tx.closed
        BY <3>1 DEF BatEnds
      <4>2. BlkOK(s, b, NoBlock) /\ b # NoBlock
        BY <1>1, BlkNo DEF Driver
      <4> QED BY <4>1, <4>2 DEF BlkOK
    <3>5. X
      BY ONLY <3>1, <3>2, Driver(s, NoReq, NoBlock), io \in s.aio, io.op = "bat",
              e \in {"ok", "EIO"}, BatEndDriver
    <3>6. W
      BY ONLY <3>1, <3>2, Driver(s, NoReq, NoBlock), io \in s.aio, io.op = "bat",
              e \in {"ok", "EIO"}, BatEndDriver
    <3> QED BY ONLY <3>3, <3>4, <3>5, <3>6
  <2>3. Settles(u, b)
    BY <2>2 DEF Settles
  <2>4. ~u.bm[b].tx.upd
    BY <1>5, <1>9 DEF BatEnds
  <2>5. FH(u, d, c, n, g)
    BY <1>5, <1>6, <1>9, <2>2, <2>4, BatEndHist
  <2>6. v = finish_bat_transaction(u, b)
    BY <1>2, <1>9
  <2> QED BY <1>1, <2>2, <2>3, <2>5, <2>6, BatTransactionDriver, BatTransactionHist
<1> QED BY <1>7, <1>8, <1>9

(* Every completion handler keeps the invariant, but for a failed write of  *)
(* zeros over a new bitmap and a BAT write that fails late.                 *)
LEMMA CompleteHist ==
  ASSUME NEW s, NEW io \in s.aio, NEW e \in {"ok", "EIO"}, NEW v, NEW d, NEW c, NEW n, NEW g,
         Driver(s, NoReq, NoBlock), FH(s, d, c, n, g),
         io.op = "bitmap_read" /\ e = "ok" => waiters_requeuable(s, io.blk),
         io.op = "zero_bm" => e = "ok", io.op = "bat" /\ io.landed => e = "ok",
         e = "ok" => io.landed,
         v = vhd_complete([s EXCEPT !.aio = @ \ {io}], io, e)
  PROVE  Driver(v, NoReq, NoBlock) /\ FH(v, d, c, n, g)
<1> DEFINE a == [s EXCEPT !.aio = @ \ {io}]
<1>1. s \in VhdState /\ io.op \in AioOps
  BY IoField DEF Driver
<1>2. Taken(s, a, io) /\ v = vhd_complete(a, io, e)
  BY <1>1, TakeIO
<1> HIDE DEF a
<1>3. CASE io.op = "data_read"
  <2>1. v = finish_data_read(a, io.req, e)
    BY <1>2, <1>3 DEF vhd_complete
  <2> QED BY <1>2, <1>3, <2>1, ReadDone
<1>4. CASE io.op = "data_write"
  <2>1. v = finish_data_write(a, io.req, e)
    BY <1>2, <1>4 DEF vhd_complete
  <2> QED BY <1>2, <1>4, <2>1, WriteDone
<1>5. CASE io.op = "bitmap_read" /\ e = "ok"
  <2>1. v = finish_bitmap_read(a, io.blk, "ok")
    BY <1>2, <1>5 DEF vhd_complete
  <2>2. Driver(v, NoReq, NoBlock) /\ Requeues(s, v, io.blk, io)
    BY <1>2, <1>5, <2>1, BitmapReadOver
  <2> QED BY <1>5, <2>2, RequeueHist
<1>6. CASE io.op = "bitmap_read" /\ e = "EIO"
  <2>1. v = finish_bitmap_read(a, io.blk, "EIO")
    BY <1>2, <1>6 DEF vhd_complete
  <2>2. Driver(v, NoReq, NoBlock) /\ ReadFails(s, v, io.blk, io)
    BY <1>2, <1>6, <2>1, BitmapReadFailed
  <2> QED BY <1>6, <2>2, ReadFailHist
<1>7. CASE io.op = "bitmap_write"
  <2>1. v = finish_bitmap_write(a, io.blk, e)
    BY <1>2, <1>7 DEF vhd_complete
  <2> QED BY <1>2, <1>7, <2>1, BitmapWriteDone
<1>8. CASE io.op = "zero_bm"
  <2>1. v = finish_zero_bm_write(a, io.blk, "ok")
    BY <1>2, <1>8 DEF vhd_complete
  <2> QED BY <1>2, <1>8, <2>1, ZeroDone
<1>9. CASE io.op = "redundant_bm"
  <2>1. v = finish_redundant_bm_write(a)
    BY <1>2, <1>9 DEF vhd_complete
  <2> QED BY <1>2, <1>9, <2>1, RedundantDone
<1>10. CASE io.op = "bat"
  <2>1. v = finish_bat_write(a, e)
    BY <1>2, <1>10 DEF vhd_complete
  <2> QED BY <1>2, <1>10, <2>1, BatDone
<1> QED BY <1>1, <1>3, <1>4, <1>5, <1>6, <1>7, <1>8, <1>9, <1>10 DEF AioOps

(* The values that acknowledged writes have superseded.                     *)
shrunk(s, c, n, A) == [x \in Sectors |-> c[x] \ UNION {n[r] : r \in {q \in A : s.req[q].sec = x}}]

(* They are candidates no longer.                                           *)
LEMMA ShrinkHist ==
  ASSUME NEW s \in VhdState, NEW d, NEW c, NEW n, NEW g, NEW A, NEW e, History(s, d, c, n, g),
         A \subseteq Reqs,
         \A r \in A : s.req[r].op = "write" /\ s.req[r].st = "done" /\ s.req[r].err = "ok",
         e = shrunk(s, c, n, A)
  PROVE  History(s, d, e, n, g)
<1>1. c \in [Sectors -> SUBSET Values] /\ n \in [Reqs -> SUBSET Values] /\ CandOK(s, c)
      /\ GoodOK(s, d, c) /\ ParentOK(s, d, c)
  BY DEF History
<1>2. \A x \in Sectors : \A v : v \in e[x] <=>
         v \in c[x] /\ \A r \in A : s.req[r].sec = x => v \notin n[r]
  BY DEF shrunk
<1>3. e \in [Sectors -> SUBSET Values]
  <2>1. \A x \in Sectors : e[x] \subseteq c[x]
    BY <1>2
  <2> QED BY <1>1, <2>1 DEF shrunk
<1>4. \A r \in A : WriteOK(s, d, c, n, r, g) /\ s.req[r].sec \in Sectors
  BY SecField DEF History
<1>5. ASSUME NEW x \in Sectors, Good(s, d, c, x) PROVE Good(s, d, e, x)
  <2> DEFINE w == d.data[Own(s, d, blk_of(x))][sec_of(x)]
  <2>1. w \in c[x]
    BY <1>5 DEF Good
  <2>2. ASSUME NEW r \in A, s.req[r].sec = x PROVE w \notin n[r]
    BY <1>4, <2>2 DEF WriteOK, Fresh
  <2>3. w \in e[x]
    BY <1>2, <2>1, <2>2
  <2> QED BY <2>3 DEF Good
<1>6. ASSUME NEW q \in Reqs, Fresh(s, d, c, n, q) PROVE Fresh(s, d, e, n, q)
  <2> DEFINE x == s.req[q].sec
             w == d.data[Own(s, d, blk_of(x))][sec_of(x)]
  <2>1. x \in Sectors
    BY SecField
  <2>2. Own(s, d, blk_of(x)) # DD_BLK_UNUSED /\ w \in c[x] /\ w \notin n[q]
    BY <1>6 DEF Fresh
  <2>3. Good(s, d, e, x)
    BY <1>5, <2>1, <2>2 DEF Good
  <2> QED BY <2>2, <2>3 DEF Fresh, Good
<1>7. CandOK(s, e)
  BY <1>1, <1>2 DEF CandOK
<1>8. GoodOK(s, d, e)
  BY <1>1, <1>5 DEF GoodOK
<1>9. ParentOK(s, d, e)
  <2>1. ASSUME NEW x \in Sectors, ~Set(s, d, x) PROVE Parent \in e[x]
    <3>1. Parent \in c[x]
      BY <1>1, <2>1 DEF ParentOK
    <3>2. \A r \in A : s.req[r].sec # x
      BY <1>4, <2>1 DEF WriteOK
    <3> QED BY <1>2, <3>1, <3>2
  <2> QED BY <2>1 DEF ParentOK
<1>10. ASSUME NEW q \in Reqs, s.req[q].op = "write" PROVE WriteOK(s, d, e, n, q, g)
  <2>1. WriteOK(s, d, c, n, q, g) /\ s.req[q].sec \in Sectors
    BY <1>10, SecField DEF History
  <2>2. ASSUME q \in outstanding(s), q # g PROVE q \in e[s.req[q].sec]
    <3>1. q \in c[s.req[q].sec] /\ s.req[q].st # "done"
      BY <2>1, <2>2 DEF WriteOK, outstanding
    <3>2. \A r \in A : q \notin n[r]
      BY <1>4, <3>1 DEF WriteOK
    <3> QED BY <1>2, <2>1, <3>1, <3>2
  <2> QED BY <1>6, <2>1, <2>2 DEF WriteOK
<1>11. ASSUME NEW q \in Reqs, s.req[q].op = "read" PROVE ReadOK(s, e, n, q)
  <2>1. ReadOK(s, c, n, q) /\ s.req[q].sec \in Sectors
    BY <1>11, SecField DEF History
  <2>2. e[s.req[q].sec] \subseteq c[s.req[q].sec]
    BY <1>2, <2>1
  <2> QED BY <2>1, <2>2 DEF ReadOK
<1>12. ASSUME NEW io \in s.aio PROVE IoHist(s, d, e, n, io)
  <2>1. IoHist(s, d, c, n, io)
    BY DEF History
  <2>2. io.op \in Data => io.req \in Reqs /\ s.req[io.req].sec \in Sectors
    BY IoField, SecField DEF Data
  <2> QED BY <1>5, <1>6, <2>1, <2>2 DEF IoHist, Data
<1> QED BY <1>1, <1>3, <1>7, <1>8, <1>9, <1>10, <1>11, <1>12 DEF History

-----------------------------------------------------------------------------
(* An I/O reaches the file; j is its record from then on.                   *)
Lands(s, t, io, j) ==
  /\ SameBat(s, t) /\ t.up = s.up /\ t.prealloc = s.prealloc /\ t.batmap = s.batmap
  /\ t.cached = s.cached /\ t.vfree = s.vfree
  /\ j.op = io.op /\ j.blk = io.blk /\ j.req = io.req /\ j.slot = io.slot /\ j.landed
  /\ t.aio = (s.aio \ {io}) \cup {j}
  /\ \A q \in Reqs : /\ t.req[q].st = s.req[q].st /\ t.req[q].op = s.req[q].op
                     /\ t.req[q].sec = s.req[q].sec /\ t.req[q].err = s.req[q].err
                     /\ io.op # "data_read" \/ q # io.req => t.req[q].val = s.req[q].val
  /\ \A x \in Blocks :
       /\ t.bm[x].locked = s.bm[x].locked /\ t.bm[x].rd = s.bm[x].rd /\ t.bm[x].wr = s.bm[x].wr
       /\ t.bm[x].shadow = s.bm[x].shadow /\ t.bm[x].tx = s.bm[x].tx
       /\ t.bm[x].queue = s.bm[x].queue /\ t.bm[x].waiting = s.bm[x].waiting
       /\ io.op # "bitmap_read" \/ x # io.blk => t.bm[x] = s.bm[x]

(* Putting one element in the place of another.                             *)
LEMMA SwapCount ==
  ASSUME NEW S, NEW i \in S, NEW j, j \notin S, IsFiniteSet(S)
  PROVE  Cardinality((S \ {i}) \cup {j}) = Cardinality(S) /\ IsFiniteSet((S \ {i}) \cup {j})
<1>1. IsFiniteSet(S \ {i}) /\ Cardinality(S \ {i}) = Cardinality(S) - 1
  BY FS_RemoveElement
<1>2. j \notin S \ {i}
  OBVIOUS
<1>3. Cardinality((S \ {i}) \cup {j}) = Cardinality(S \ {i}) + 1 /\ IsFiniteSet((S \ {i}) \cup {j})
  BY <1>1, <1>2, FS_AddElement
<1> QED BY <1>1, <1>3, FS_CardinalityType

LEMMA LandIOs ==
  ASSUME NEW s, NEW t, NEW io \in s.aio, NEW j, Driver(s, NoReq, NoBlock), ~io.landed, Lands(s, t, io, j)
  PROVE  /\ j \notin s.aio /\ IsFiniteSet(t.aio) /\ Unique(t)
         /\ \A x, op : HasIO(t, x, op) <=> HasIO(s, x, op)
         /\ \A x \in Blocks : /\ txios(t, x) = {} <=> txios(s, x) = {}
                              /\ Cardinality(txios(t, x)) = Cardinality(txios(s, x))
         /\ Cardinality(Redundant(t)) = Cardinality(Redundant(s))
<1>1. Unique(s) /\ IsFiniteSet(s.aio)
  BY DEF Driver, CountOK
<1>2. /\ j.op = io.op /\ j.blk = io.blk /\ j.req = io.req /\ j.landed
      /\ t.aio = (s.aio \ {io}) \cup {j}
      /\ t.prealloc = s.prealloc /\ \A x \in Blocks : t.bm[x].tx = s.bm[x].tx
  BY DEF Lands
<1>3. j \notin s.aio
  BY <1>1, <1>2 DEF Unique
<1>4. \A x \in Blocks : \A i : TxIO(t, x, i) <=> TxIO(s, x, i)
  BY <1>2 DEF TxIO
<1>5. \A x \in Blocks : TxIO(s, x, j) <=> TxIO(s, x, io)
  BY <1>2 DEF TxIO
<1>6. ASSUME NEW x \in Blocks
      PROVE  /\ txios(t, x) = {} <=> txios(s, x) = {}
             /\ Cardinality(txios(t, x)) = Cardinality(txios(s, x))
  <2>1. CASE TxIO(s, x, io)
    <3>1. txios(t, x) = (txios(s, x) \ {io}) \cup {j} /\ io \in txios(s, x) /\ j \notin txios(s, x)
      BY <1>2, <1>3, <1>4, <1>5, <2>1 DEF txios
    <3>2. IsFiniteSet(txios(s, x))
      BY <1>1, FS_Subset DEF txios
    <3>3. Cardinality((txios(s, x) \ {io}) \cup {j}) = Cardinality(txios(s, x))
      BY <3>1, <3>2, SwapCount
    <3> QED BY <3>1, <3>3
  <2>2. CASE ~TxIO(s, x, io)
    <3>1. txios(t, x) = txios(s, x)
      BY <1>2, <1>3, <1>4, <1>5, <2>2 DEF txios
    <3> QED BY <3>1
  <2> QED BY <2>1, <2>2
<1>7. Cardinality(Redundant(t)) = Cardinality(Redundant(s))
  <2>1. CASE io.op = "redundant_bm"
    <3>1. Redundant(t) = (Redundant(s) \ {io}) \cup {j} /\ io \in Redundant(s) /\ j \notin Redundant(s)
      BY <1>2, <1>3, <2>1 DEF Redundant
    <3>2. IsFiniteSet(Redundant(s))
      BY <1>1, RedundantFinite
    <3>3. Cardinality((Redundant(s) \ {io}) \cup {j}) = Cardinality(Redundant(s))
      BY <3>1, <3>2, SwapCount
    <3> QED BY <3>1, <3>3
  <2>2. CASE io.op # "redundant_bm"
    <3>1. Redundant(t) = Redundant(s)
      BY <1>2, <2>2 DEF Redundant
    <3> QED BY <3>1
  <2> QED BY <2>1, <2>2
<1>8. IsFiniteSet(t.aio)
  <2>1. IsFiniteSet((s.aio \ {io}) \cup {j})
    BY ONLY io \in s.aio, <1>1, <1>3, SwapCount
  <2> QED BY <1>2, <2>1
<1>9. Unique(t)
  BY <1>1, <1>2 DEF Unique
<1>10. \A x, op : HasIO(t, x, op) <=> HasIO(s, x, op)
  BY <1>2 DEF HasIO
<1> QED BY <1>3, <1>6, <1>7, <1>8, <1>9, <1>10

LEMMA LandDriver ==
  ASSUME NEW s, NEW t \in VhdState, NEW io \in s.aio, NEW j, Driver(s, NoReq, NoBlock), ~io.landed,
         Lands(s, t, io, j)
  PROVE  Driver(t, NoReq, NoBlock)
<1>1. s \in VhdState /\ IoOK(s, io) /\ io.blk \in Blocks /\ s.pbw_blk \in Blocks /\ BatOK(s, NoBlock)
      /\ CountOK(s)
  BY IoField DEF Driver, VhdState
<1>2. /\ j \notin s.aio /\ IsFiniteSet(t.aio) /\ Unique(t)
      /\ \A x, op : HasIO(t, x, op) <=> HasIO(s, x, op)
      /\ \A x \in Blocks : /\ txios(t, x) = {} <=> txios(s, x) = {}
                           /\ Cardinality(txios(t, x)) = Cardinality(txios(s, x))
      /\ Cardinality(Redundant(t)) = Cardinality(Redundant(s))
  BY LandIOs
<1>3. /\ SameBat(s, t) /\ t.up = s.up /\ t.prealloc = s.prealloc /\ t.batmap = s.batmap
      /\ t.cached = s.cached /\ t.vfree = s.vfree
      /\ j.op = io.op /\ j.blk = io.blk /\ j.req = io.req /\ j.slot = io.slot
      /\ t.aio = (s.aio \ {io}) \cup {j}
  BY DEF Lands
<1>4. \A q \in Reqs : /\ t.req[q].st = s.req[q].st /\ t.req[q].op = s.req[q].op
                      /\ t.req[q].sec = s.req[q].sec /\ t.req[q].err = s.req[q].err
  BY DEF Lands
<1>5. \A x \in Blocks :
       /\ t.bm[x].locked = s.bm[x].locked /\ t.bm[x].rd = s.bm[x].rd /\ t.bm[x].wr = s.bm[x].wr
       /\ t.bm[x].shadow = s.bm[x].shadow /\ t.bm[x].tx = s.bm[x].tx
       /\ t.bm[x].queue = s.bm[x].queue /\ t.bm[x].waiting = s.bm[x].waiting
       /\ s.bm[x].rd \/ t.bm[x] = s.bm[x]
  <2>1. io.op = "bitmap_read" => s.bm[io.blk].rd
    BY <1>1 DEF IoOK
  <2> QED BY <2>1 DEF Lands
<1>6. BatOK(t, NoBlock)
  <2>1. s.bm[s.pbw_blk].tx = t.bm[s.pbw_blk].tx
    BY <1>1, <1>5
  <2> QED BY <1>1, <1>2, <1>3, <2>1, BatFrame
<1>7. \A x \in Blocks : Mine(t, x) <=> Mine(s, x)
  BY <1>3 DEF Mine, SameBat
<1>8. ASSUME NEW x \in Blocks PROVE BlkOK(t, x, NoBlock)
  <2>1. BlkOK(s, x, NoBlock)
    BY DEF Driver
  <2>2. CASE t.bm[x] = s.bm[x]
    <3>1. t.bat[x] = s.bat[x] /\ t.bat_tx = s.bat_tx
      BY <1>3 DEF SameBat
    <3> QED BY ONLY <1>2, <1>3, <1>7, <2>1, <2>2, <3>1, x \in Blocks DEF BlkOK
  <2>3. CASE s.bm[x].rd
    <3>1. /\ s.bm[x].tx = init_tx /\ s.bm[x].queue = {} /\ ~s.bm[x].wr /\ x \notin s.batmap
          /\ s.bat[x] # DD_BLK_UNUSED /\ HasIO(s, x, "bitmap_read") /\ x \in s.cached
      BY <2>1, <2>3, InitBm DEF BlkOK
    <3>2. /\ t.bm[x].tx = init_tx /\ t.bm[x].queue = {} /\ ~t.bm[x].wr /\ x \notin t.batmap
          /\ t.bat[x] # DD_BLK_UNUSED /\ HasIO(t, x, "bitmap_read") /\ x \in t.cached /\ t.bm[x].rd
          /\ (t.bm[x].locked <=> s.bm[x].locked) /\ (bitmap_in_use(t.bm[x]) <=> bitmap_in_use(s.bm[x]))
      BY <1>2, <1>3, <1>5, <2>3, <3>1 DEF SameBat, bitmap_in_use
    <3> QED BY <2>1, <3>2, InitBm DEF BlkOK
  <2> QED BY <1>5, <2>2, <2>3
<1>9. ASSUME NEW x \in Blocks PROVE TxOK(t, x) /\ MemOK(t, x)
  <2>1. TxOK(s, x) /\ MemOK(s, x) /\ s.bm[x].waiting \subseteq Reqs
    BY <1>1, BmField DEF Driver, Bitmap
  <2> QED BY <1>2, <1>4, <1>5, <2>1 DEF TxOK, MemOK
<1>10. ASSUME NEW q \in Reqs PROVE ReqOK(t, q, NoReq)
  <2>1. ReqOK(s, q, NoReq) /\ blk_of(s.req[q].sec) \in Blocks /\ q # NoReq
    BY <1>1, ReqField, NotMeta DEF Driver
  <2>2. (\E i \in s.aio : i.req = q /\ i.op \in Data) => \E i \in t.aio : i.req = q /\ i.op \in Data
    BY <1>3
  <2> QED BY <1>4, <1>5, <2>1, <2>2 DEF ReqOK
<1>11. ASSUME NEW i \in t.aio PROVE IoOK(t, i)
  <2>1. PICK k \in s.aio : k.op = i.op /\ k.blk = i.blk /\ k.req = i.req /\ k.slot = i.slot
    BY <1>3
  <2>2. IoOK(s, k) /\ k.blk \in Blocks /\ k.req \in Reqs \cup MetaReqs
        /\ (k.op \in {"data_read", "data_write", "redundant_bm"} => k.req \in Reqs)
    BY <1>1, IoField DEF Driver
  <2>3. IoOK(t, k)
    <3>1. /\ t.bat = s.bat /\ t.pbw_offset = s.pbw_offset /\ t.started = s.started
          /\ t.bat_buf = s.bat_buf /\ bat_sector(t) = bat_sector(s)
      BY <1>3 DEF SameBat, bat_sector
    <3>2. k.req \in Reqs => (accepted(t.req[k.req]) <=> accepted(s.req[k.req]))
      BY <1>4 DEF accepted
    <3> QED BY ONLY <1>3, <1>4, <1>5, <1>7, <2>2, <3>1, <3>2 DEF IoOK
  <2> QED BY <2>1, <2>3 DEF IoOK
<1>12. CountOK(t)
  <2>1. outstanding(t) = outstanding(s)
    BY <1>4 DEF outstanding
  <2> QED BY <1>1, <1>2, <1>3, <2>1 DEF CountOK
<1> QED BY <1>2, <1>6, <1>8, <1>9, <1>10, <1>11, <1>12 DEF Driver

(* The record of an I/O that has reached the file, and the driver then.     *)
landing(io)        == [io EXCEPT !.landed = TRUE]
arrived(d, s, io)  == [fetched(d, s, io) EXCEPT !.aio = (@ \ {io}) \cup {landing(io)}]

LEMMA LandingEffect ==
  ASSUME NEW io \in Tiocb, NEW j, j = landing(io)
  PROVE  /\ j \in Tiocb /\ j.op = io.op /\ j.blk = io.blk /\ j.req = io.req
         /\ j.slot = io.slot /\ j.landed
  BY DEF Tiocb, landing

(* What a read of the file changes in memory.                               *)
Fetches(d, s, f, io) ==
  /\ SameBat(s, f) /\ f.up = s.up /\ f.prealloc = s.prealloc /\ f.batmap = s.batmap
  /\ f.cached = s.cached /\ f.vfree = s.vfree /\ f.aio = s.aio
  /\ \A q \in Reqs : /\ f.req[q].st = s.req[q].st /\ f.req[q].op = s.req[q].op
                     /\ f.req[q].sec = s.req[q].sec /\ f.req[q].err = s.req[q].err
                     /\ io.op # "data_read" \/ q # io.req => f.req[q].val = s.req[q].val
  /\ \A x \in Blocks :
       /\ f.bm[x].locked = s.bm[x].locked /\ f.bm[x].rd = s.bm[x].rd /\ f.bm[x].wr = s.bm[x].wr
       /\ f.bm[x].shadow = s.bm[x].shadow /\ f.bm[x].tx = s.bm[x].tx
       /\ f.bm[x].queue = s.bm[x].queue /\ f.bm[x].waiting = s.bm[x].waiting
       /\ io.op # "bitmap_read" \/ x # io.blk => f.bm[x] = s.bm[x]
  /\ io.op = "data_read" =>
       f.req[io.req].val = data_at(d, io.slot, sec_of(s.req[io.req].sec))
  /\ io.op = "bitmap_read" => f.bm[io.blk].map = map_at(d, io.slot)

LEMMA FetchEffect ==
  ASSUME NEW d \in DiskState, NEW s \in VhdState, NEW io \in Tiocb, NEW f, f = fetched(d, s, io)
  PROVE  Fetches(d, s, f, io)
<1>1. CASE io.op = "data_read"
  <2> DEFINE q == [s.req[io.req] EXCEPT !.val = data_at(d, io.slot, sec_of(s.req[io.req].sec))]
  <2>1. f = with_req(s, io.req, q) /\ io.req \in Reqs
    BY <1>1 DEF fetched, Tiocb
  <2>2. s.req[io.req] \in Request
    BY <2>1, ReqField
  <2>3. /\ q.st = s.req[io.req].st /\ q.op = s.req[io.req].op /\ q.sec = s.req[io.req].sec
        /\ q.err = s.req[io.req].err
        /\ q.val = data_at(d, io.slot, sec_of(s.req[io.req].sec))
    BY <2>2 DEF Request
  <2> HIDE DEF q
  <2>4. OnlyReq(s, f, io.req) /\ f.req[io.req] = q /\ f.vfree = s.vfree
    BY <2>1, WithReq
  <2> QED BY <1>1, <2>1, <2>3, <2>4 DEF OnlyReq, Fetches
<1>2. CASE io.op = "bitmap_read"
  <2> DEFINE m == [s.bm[io.blk] EXCEPT !.map = map_at(d, io.slot)]
  <2>1. f = with_bm(s, io.blk, m) /\ io.blk \in Blocks
    BY <1>2 DEF fetched, Tiocb
  <2>2. s.bm[io.blk] \in Bitmap
    BY <2>1, BmField
  <2>3. /\ m.locked = s.bm[io.blk].locked /\ m.rd = s.bm[io.blk].rd /\ m.wr = s.bm[io.blk].wr
        /\ m.shadow = s.bm[io.blk].shadow /\ m.tx = s.bm[io.blk].tx
        /\ m.queue = s.bm[io.blk].queue /\ m.waiting = s.bm[io.blk].waiting
        /\ m.map = map_at(d, io.slot)
    BY <2>2 DEF Bitmap
  <2> HIDE DEF m
  <2>4. OnlyBlk(s, f, io.blk) /\ f.bm[io.blk] = m /\ f.req = s.req /\ f.vfree = s.vfree
        /\ f.aio = s.aio
    BY <2>1, WithBm
  <2> QED BY <1>2, <2>1, <2>3, <2>4 DEF OnlyBlk, Fetches
<1>3. CASE io.op # "data_read" /\ io.op # "bitmap_read"
  <2>1. f = s
    BY <1>3 DEF fetched
  <2> QED BY <1>3, <2>1 DEF Fetches, SameBat
<1> QED BY <1>1, <1>2, <1>3

LEMMA LandEffect ==
  ASSUME NEW d \in DiskState, NEW s \in VhdState, NEW io \in s.aio, NEW t, NEW j,
         j = landing(io), t = arrived(d, s, io)
  PROVE  /\ Lands(s, t, io, j) /\ t \in VhdState
         /\ io.op = "data_read" =>
              t.req[io.req].val = data_at(d, io.slot, sec_of(s.req[io.req].sec))
         /\ io.op = "bitmap_read" => t.bm[io.blk].map = map_at(d, io.slot)
<1> DEFINE f == fetched(d, s, io)
<1>1. io \in Tiocb /\ s.aio \subseteq Tiocb
  BY DEF VhdState
<1>2. f \in VhdState /\ Fetches(d, s, f, io)
  BY <1>1, FetchedType, FetchEffect
<1>3. /\ j \in Tiocb /\ j.op = io.op /\ j.blk = io.blk /\ j.req = io.req
      /\ j.slot = io.slot /\ j.landed
  BY <1>1, LandingEffect
<1>4. t = [f EXCEPT !.aio = (f.aio \ {io}) \cup {j}]
  BY DEF arrived
<1> HIDE DEF f
<1>5. f.aio = s.aio
  BY <1>2 DEF Fetches
<1>6. t \in VhdState
  <2>1. (f.aio \ {io}) \cup {j} \in SUBSET Tiocb
    BY <1>1, <1>3, <1>5
  <2> QED BY <1>2, <1>4, <2>1, AddAio
<1>7. /\ SameBat(f, t) /\ t.up = f.up /\ t.prealloc = f.prealloc /\ t.batmap = f.batmap
      /\ t.cached = f.cached /\ t.vfree = f.vfree /\ t.req = f.req /\ t.bm = f.bm
      /\ t.aio = (s.aio \ {io}) \cup {j}
  BY <1>2, <1>4, <1>5 DEF SameBat, VhdState
<1>8. Lands(s, t, io, j)
  <2>1. SameBat(s, t)
    BY <1>2, <1>7 DEF Fetches, SameBat
  <2> QED BY ONLY <1>2, <1>3, <1>7, <2>1 DEF Fetches, Lands
<1> QED BY <1>2, <1>6, <1>7, <1>8 DEF Fetches

-----------------------------------------------------------------------------
LEMMA OwnType ==
  ASSUME NEW s \in VhdState, NEW d \in DiskState, NEW b \in Blocks
  PROVE  /\ Own(s, d, b) \in Entries
         /\ Own(s, d, b) # DD_BLK_UNUSED => Own(s, d, b) \in Slots
<1>1. s.pbw_offset \in Entries /\ d.bat[b] \in Entries
  BY DEF VhdState, DiskState
<1> QED BY <1>1 DEF Own, Entries

(* The BAT lock is held for a block that has no entry, and its slot is the  *)
(* next one.                                                                *)
LEMMA HeldSlot ==
  ASSUME NEW s, NEW h, NEW b \in Blocks, Driver(s, h, NoBlock), Mine(s, b)
  PROVE  s.bat[b] = DD_BLK_UNUSED /\ s.pbw_offset = s.next_db /\ s.pbw_offset \in Slots
<1>1. BatOK(s, NoBlock) /\ s.locked /\ s.pbw_blk = b /\ b # NoBlock
  BY BlkNo DEF Driver, Mine
<1> QED BY <1>1 DEF BatOK, Allocating, Failing, Done

(* A slot has one owner.                                                    *)
LEMMA OwnInjective ==
  ASSUME NEW s, NEW h, NEW d, Driver(s, h, NoBlock), FileBat(s, d), s.up,
         NEW b \in Blocks, NEW x \in Blocks, b # x, Own(s, d, b) = Own(s, d, x)
  PROVE  Own(s, d, b) = DD_BLK_UNUSED
<1>1. s \in VhdState /\ d \in DiskState /\ BatOK(s, NoBlock)
  BY DEF Driver, FileBat
<1>2. \A y \in Blocks : s.bat[y] < s.next_db
  BY <1>1 DEF BatOK
<1>3. ASSUME NEW y \in Blocks, NEW z \in Blocks, y # z, d.bat[y] # DD_BLK_UNUSED,
             d.bat[z] = DD_BLK_UNUSED, Mine(s, z)
      PROVE  d.bat[y] # s.pbw_offset
  <2>1. d.bat[y] = s.bat[y]
    BY <1>3 DEF FileBat, Mine
  <2>2. s.pbw_offset = s.next_db /\ s.next_db \in Nat /\ s.bat[y] < s.next_db
    BY <1>1, <1>2, <1>3, HeldSlot DEF VhdState
  <2> QED BY <2>1, <2>2
<1>4. \A y, z \in Blocks : y # z /\ d.bat[y] = d.bat[z] => d.bat[y] = DD_BLK_UNUSED
  BY DEF FileBat
<1>5. ~(Mine(s, b) /\ Mine(s, x))
  BY DEF Mine
<1> QED BY <1>3, <1>4, <1>5 DEF Own

(* A write, and a read, goes to the slot its block owns.                    *)
LEMMA SlotIsOwn ==
  ASSUME NEW s, NEW h, NEW d, Driver(s, h, NoBlock), FileBat(s, d), s.up, NEW io \in s.aio, io.op # "bat"
  PROVE  io.slot = Own(s, d, io.blk) /\ io.slot \in Slots
<1>1. s \in VhdState /\ d \in DiskState /\ IoOK(s, io) /\ io.blk \in Blocks /\ io.op \in AioOps
      /\ io.slot \in Entries /\ BlkOK(s, io.blk, NoBlock)
  BY IoField DEF Driver, FileBat
<1>2. \/ io.slot = s.bat[io.blk] /\ s.bat[io.blk] # DD_BLK_UNUSED
      \/ Mine(s, io.blk) /\ io.slot = s.pbw_offset
  BY <1>1 DEF IoOK, BlkOK, AioOps, Slots, DD_BLK_UNUSED
<1>3. CASE io.slot = s.bat[io.blk] /\ s.bat[io.blk] # DD_BLK_UNUSED
  <2>1. d.bat[io.blk] = s.bat[io.blk]
    BY <1>1, <1>3 DEF FileBat
  <2> QED BY <1>1, <1>3, <2>1 DEF Own, Entries
<1>4. CASE Mine(s, io.blk) /\ io.slot = s.pbw_offset
  <2>1. s.bat[io.blk] = DD_BLK_UNUSED /\ s.pbw_offset \in Slots
    BY <1>1, <1>4, HeldSlot
  <2>2. d.bat[io.blk] = DD_BLK_UNUSED \/ d.bat[io.blk] = s.pbw_offset
    BY <1>1, <2>1 DEF FileBat
  <2> QED BY <1>4, <2>1, <2>2 DEF Own
<1> QED BY <1>2, <1>3, <1>4

(* What an I/O leaves in the slots that blocks own.                         *)
Writes(s, d, e, io) ==
  /\ e \in DiskState /\ e.batmap = d.batmap
  /\ \A b \in Blocks :
       /\ Own(s, e, b) = Own(s, d, b)
       /\ \/ e.bat[b] = d.bat[b]
          \/ io.op = "bat" /\ b = io.blk /\ d.bat[b] = DD_BLK_UNUSED
       /\ io.op = "bat" /\ b = io.blk => e.bat[b] = s.pbw_offset /\ d.bat[b] = DD_BLK_UNUSED
  /\ \A b \in Blocks : Own(s, d, b) # DD_BLK_UNUSED =>
       e.map[Own(s, d, b)] = (IF b = io.blk /\ io.op = "bitmap_write" THEN s.bm[b].shadow
                              ELSE IF b = io.blk /\ io.op = "zero_bm" THEN {}
                              ELSE d.map[Own(s, d, b)])
  /\ \A x \in Sectors : Own(s, d, blk_of(x)) # DD_BLK_UNUSED =>
       e.data[Own(s, d, blk_of(x))][sec_of(x)] =
         (IF io.op = "data_write" /\ x = s.req[io.req].sec THEN io.req
          ELSE d.data[Own(s, d, blk_of(x))][sec_of(x)])

(* The one bitmap that a write of a bitmap changes.                         *)
with_map(d, slot, M)   == [d EXCEPT !.map[slot] = M]
with_data(d, slot, k, v) == [d EXCEPT !.data[slot][k] = v]

LEMMA MapEffect ==
  ASSUME NEW d \in DiskState, NEW slot \in Slots, NEW M, NEW e, e = with_map(d, slot, M)
  PROVE  /\ e.bat = d.bat /\ e.batmap = d.batmap /\ e.data = d.data /\ e.map[slot] = M
         /\ \A y \in Slots : y # slot => e.map[y] = d.map[y]
  BY DEF with_map, DiskState

LEMMA DataEffect ==
  ASSUME NEW d \in DiskState, NEW slot \in Slots, NEW k \in Secs, NEW v, NEW e, e = with_data(d, slot, k, v)
  PROVE  /\ e.bat = d.bat /\ e.batmap = d.batmap /\ e.map = d.map /\ e.data[slot][k] = v
         /\ \A y \in Slots, i \in Secs : y # slot \/ i # k => e.data[y][i] = d.data[y][i]
  BY DEF with_data, DiskState

LEMMA MapWrites ==
  ASSUME NEW s, NEW h, NEW d, NEW e \in DiskState, NEW io \in s.aio, NEW M,
         Driver(s, h, NoBlock), FileBat(s, d), s.up, io.op # "bat", io.op # "data_write",
         e = with_map(d, io.slot, M),
         \/ io.op = "bitmap_write" /\ M = s.bm[io.blk].shadow
         \/ io.op = "zero_bm" /\ M = {}
         \/ io.op = "redundant_bm" /\ M = d.map[io.slot]
  PROVE  Writes(s, d, e, io)
<1>1. s \in VhdState /\ d \in DiskState /\ io.blk \in Blocks
      /\ io.slot = Own(s, d, io.blk) /\ io.slot \in Slots
  BY SlotIsOwn, IoField DEF Driver, FileBat
<1>2. /\ e.bat = d.bat /\ e.batmap = d.batmap /\ e.data = d.data /\ e.map[io.slot] = M
      /\ \A y \in Slots : y # io.slot => e.map[y] = d.map[y]
  BY <1>1, MapEffect
<1>3. \A b \in Blocks : Own(s, e, b) = Own(s, d, b)
  BY <1>2 DEF Own
<1>4. ASSUME NEW b \in Blocks, Own(s, d, b) # DD_BLK_UNUSED
      PROVE  e.map[Own(s, d, b)] = (IF b = io.blk /\ io.op = "bitmap_write" THEN s.bm[b].shadow
                                    ELSE IF b = io.blk /\ io.op = "zero_bm" THEN {}
                                    ELSE d.map[Own(s, d, b)])
  <2>1. CASE b = io.blk
    BY <1>1, <1>2, <2>1
  <2>2. CASE b # io.blk
    <3>1. Own(s, d, b) # io.slot /\ Own(s, d, b) \in Slots
      BY <1>1, <1>4, <2>2, OwnInjective, OwnType
    <3> QED BY <1>2, <2>2, <3>1
  <2> QED BY <2>1, <2>2
<1> QED BY <1>2, <1>3, <1>4 DEF Writes

LEMMA DataWrites ==
  ASSUME NEW s, NEW h, NEW d, NEW e \in DiskState, NEW io \in s.aio,
         Driver(s, h, NoBlock), FileBat(s, d), s.up, io.op = "data_write",
         e = with_data(d, io.slot, sec_of(s.req[io.req].sec), io.req)
  PROVE  Writes(s, d, e, io)
<1> DEFINE z == s.req[io.req].sec
<1>1. s \in VhdState /\ d \in DiskState /\ io.blk \in Blocks /\ io.req \in Reqs
      /\ io.slot = Own(s, d, io.blk) /\ io.slot \in Slots /\ io.blk = blk_of(z)
  BY SlotIsOwn, IoField DEF Driver, FileBat, IoOK
<1>2. z \in Sectors /\ sec_of(z) \in Secs
  BY <1>1, SecField, Geometry
<1>3. /\ e.bat = d.bat /\ e.batmap = d.batmap /\ e.map = d.map
      /\ e.data[io.slot][sec_of(z)] = io.req
      /\ \A y \in Slots, i \in Secs : y # io.slot \/ i # sec_of(z) => e.data[y][i] = d.data[y][i]
  BY <1>1, <1>2, DataEffect, SMTT(30)
<1> HIDE DEF z
<1>4. \A b \in Blocks : Own(s, e, b) = Own(s, d, b)
  BY <1>3 DEF Own
<1>5. ASSUME NEW x \in Sectors, Own(s, d, blk_of(x)) # DD_BLK_UNUSED
      PROVE  e.data[Own(s, d, blk_of(x))][sec_of(x)] =
               (IF x = z THEN io.req ELSE d.data[Own(s, d, blk_of(x))][sec_of(x)])
  <2>1. blk_of(x) \in Blocks /\ sec_of(x) \in Secs
    BY Geometry
  <2>2. CASE x = z
    BY <1>1, <1>3, <2>2
  <2>3. CASE x # z
    <3>1. Own(s, d, blk_of(x)) \in Slots
      BY <1>1, <1>5, <2>1, OwnType
    <3>2. Own(s, d, blk_of(x)) # io.slot \/ sec_of(x) # sec_of(z)
      BY <1>1, <1>2, <1>5, <2>1, <2>3, OwnInjective, SameSector
    <3> QED BY <1>3, <2>1, <2>3, <3>1, <3>2
  <2> QED BY <2>2, <2>3
<1> QED BY <1>3, <1>4, <1>5 DEF Writes, z

(* A BAT write adds the entry of the block being allocated.                 *)
LEMMA BatWrites ==
  ASSUME NEW s, NEW h, NEW d, NEW e \in DiskState, NEW io \in s.aio,
         Driver(s, h, NoBlock), FileBat(s, d), s.up, io.op = "bat", ~io.landed,
         e = written(d, s, io)
  PROVE  Writes(s, d, e, io)
<1>1. s \in VhdState /\ d \in DiskState /\ io.blk \in Blocks /\ IoOK(s, io)
  BY IoField DEF Driver, FileBat
<1>2. Mine(s, io.blk) /\ s.bat_buf = bat_sector(s) /\ s.pbw_blk = io.blk
  BY <1>1 DEF IoOK, Mine
<1>3. d.bat[io.blk] = DD_BLK_UNUSED
  BY DEF FileBat
<1>4. e.batmap = d.batmap /\ e.map = d.map /\ e.data = d.data
      /\ \A b \in Blocks : e.bat[b] = IF SameBatSector(b, io.blk) THEN s.bat_buf[b] ELSE d.bat[b]
  BY <1>1 DEF written, DiskState
<1>5. SameBatSector(io.blk, io.blk)
  BY DEF SameBatSector
<1>6. s.bat_buf[io.blk] = s.pbw_offset /\ \A b \in Blocks : b # io.blk => s.bat_buf[b] = s.bat[b]
  BY <1>1, <1>2 DEF bat_sector, VhdState
<1>7. \A b \in Blocks : b # io.blk => d.bat[b] = s.bat[b]
  BY <1>2 DEF FileBat, Mine
<1>8. e.bat[io.blk] = s.pbw_offset /\ \A b \in Blocks : b # io.blk => e.bat[b] = d.bat[b]
  BY <1>1, <1>4, <1>5, <1>6, <1>7
<1>9. s.pbw_offset \in Slots
  BY <1>1, <1>2, HeldSlot
<1>10. \A b \in Blocks : Own(s, e, b) = Own(s, d, b)
  <2>1. s.pbw_offset # DD_BLK_UNUSED
    BY <1>9 DEF Slots, DD_BLK_UNUSED
  <2> QED BY <1>2, <1>3, <1>8, <2>1 DEF Own
<1> QED BY <1>1, <1>3, <1>4, <1>8, <1>10 DEF Writes

LEMMA WriteEffect ==
  ASSUME NEW s, NEW h, NEW d, NEW e, NEW io \in s.aio,
         Driver(s, h, NoBlock), FileOK(s, d), s.up, ~io.landed, e = written(d, s, io)
  PROVE  Writes(s, d, e, io)
<1>1. s \in VhdState /\ d \in DiskState /\ FileBat(s, d) /\ io \in Tiocb /\ io.op \in AioOps
  BY IoField DEF Driver, FileOK, FileBat
<1>2. e \in DiskState
  BY <1>1, WrittenType
<1>3. CASE io.op = "data_write"
  <2>1. e = with_data(d, io.slot, sec_of(s.req[io.req].sec), io.req)
    BY <1>3 DEF written, with_data
  <2> QED BY ONLY <1>1, <1>2, <1>3, <2>1, DataWrites, Driver(s, h, NoBlock), s.up, io \in s.aio
<1>4. CASE io.op = "bitmap_write"
  <2>1. e = with_map(d, io.slot, s.bm[io.blk].shadow)
    BY <1>4 DEF written, with_map
  <2> QED BY <1>1, <1>2, <1>4, <2>1, MapWrites
<1>5. CASE io.op = "zero_bm"
  <2>1. e = with_map(d, io.slot, {})
    BY <1>5 DEF written, with_map
  <2> QED BY <1>1, <1>2, <1>5, <2>1, MapWrites
<1>6. CASE io.op = "redundant_bm"
  <2>1. e = with_map(d, io.slot, Secs)
    BY <1>6 DEF written, with_map
  <2>2. io.blk \in s.batmap /\ io.slot = s.bat[io.blk] /\ io.blk \in Blocks
    BY <1>1, <1>6, IoField DEF Driver, IoOK
  <2>3. s.bat[io.blk] # DD_BLK_UNUSED
    BY <2>2 DEF Driver, BlkOK
  <2>4. d.bat[io.blk] = s.bat[io.blk] /\ d.map[d.bat[io.blk]] = Secs
    BY <1>1, <2>2, <2>3 DEF FileBat, FileOK, FileMap
  <2> QED BY <1>1, <1>2, <1>6, <2>1, <2>2, <2>4, MapWrites
<1>7. CASE io.op = "bat"
  BY <1>1, <1>2, <1>7, BatWrites
<1>8. CASE io.op \in {"data_read", "bitmap_read"}
  <2>1. e = d
    BY <1>8 DEF written
  <2> QED BY <1>1, <1>8, <2>1 DEF Writes
<1> QED BY <1>1, <1>3, <1>4, <1>5, <1>6, <1>7, <1>8 DEF AioOps

(* The bitmap that a bitmap write or the write of zeros replaces.           *)
LEMMA LandOwn ==
  ASSUME NEW s, NEW t, NEW d, NEW e, NEW io, NEW j, Lands(s, t, io, j), Writes(s, d, e, io)
  PROVE  \A b \in Blocks : Own(t, e, b) = Own(s, d, b) /\ (Mine(t, b) <=> Mine(s, b))
  BY DEF Lands, SameBat, Own, Mine, Writes

LEMMA LandFileBat ==
  ASSUME NEW s, NEW t, NEW d, NEW e, NEW io \in s.aio, NEW j, Driver(s, NoReq, NoBlock),
         FileOK(s, d), s.up, ~io.landed, Lands(s, t, io, j), Writes(s, d, e, io)
  PROVE  FileBat(t, e)
<1>1. s \in VhdState /\ d \in DiskState /\ FileBat(s, d) /\ Unique(s) /\ IoOK(s, io)
      /\ io.blk \in Blocks
  BY IoField DEF Driver, FileOK, FileBat
<1>2. /\ SameBat(s, t) /\ t.up = s.up /\ t.batmap = s.batmap
      /\ j.op = io.op /\ j.blk = io.blk /\ j.landed /\ t.aio = (s.aio \ {io}) \cup {j}
  BY DEF Lands
<1>3. \A x, op : HasIO(t, x, op) <=> HasIO(s, x, op)
  BY LandIOs
<1>4. \A b \in Blocks : Own(t, e, b) = Own(s, d, b) /\ (Mine(t, b) <=> Mine(s, b))
  BY LandOwn
<1>5. e \in DiskState /\ e.batmap = d.batmap
  BY DEF Writes
<1>6. \A b \in Blocks : \/ e.bat[b] = d.bat[b]
                        \/ io.op = "bat" /\ b = io.blk /\ d.bat[b] = DD_BLK_UNUSED /\ e.bat[b] = s.pbw_offset
  BY DEF Writes
<1>7. io.op = "bat" => Mine(s, io.blk) /\ s.bat[io.blk] = DD_BLK_UNUSED /\ HasIO(s, io.blk, "bat")
                       /\ s.pbw_offset \in Slots
  <2>1. io.op = "bat" => Mine(s, io.blk) /\ HasIO(s, io.blk, "bat")
    BY <1>1 DEF IoOK, HasIO
  <2> QED BY <1>1, <2>1, HeldSlot
<1>8. \A b \in Blocks : \/ e.bat[b] = t.bat[b]
                        \/ /\ t.bat[b] = DD_BLK_UNUSED /\ Mine(t, b) /\ e.bat[b] = t.pbw_offset
                           /\ HasIO(t, b, "bat")
  BY <1>1, <1>2, <1>3, <1>4, <1>6, <1>7 DEF FileBat, SameBat
<1>9. ASSUME NEW b \in Blocks, NEW x \in Blocks, b # x, e.bat[b] = e.bat[x] PROVE e.bat[b] = DD_BLK_UNUSED
  <2>1. e.bat[b] # DD_BLK_UNUSED => Own(s, d, b) = e.bat[b] /\ Own(s, d, x) = e.bat[x]
    BY <1>4, <1>9 DEF Own
  <2> QED BY <1>1, <1>9, <2>1, OwnInjective
<1>10. \A b \in t.batmap \cup e.batmap : e.bat[b] # DD_BLK_UNUSED
  <2>1. t.batmap \cup e.batmap \subseteq Blocks
    BY <1>1, <1>2, <1>5 DEF VhdState, DiskState
  <2>2. \A b \in t.batmap \cup e.batmap : d.bat[b] # DD_BLK_UNUSED
    BY <1>1, <1>2, <1>5 DEF FileBat
  <2> QED BY <1>6, <2>1, <2>2
<1>11. ASSUME NEW i \in t.aio, i.op = "bat"
       PROVE  e.bat[i.blk] = IF i.landed THEN t.pbw_offset ELSE DD_BLK_UNUSED
  <2>1. CASE i = j
    <3>1. io.op = "bat" /\ i.blk = io.blk /\ i.landed
      BY <1>2, <1>11, <2>1
    <3>2. e.bat[io.blk] = s.pbw_offset
      BY <1>1, <3>1 DEF Writes
    <3> QED BY <1>2, <3>1, <3>2 DEF SameBat
  <2>2. CASE i # j
    <3>1. i \in s.aio /\ i # io
      BY <1>2, <2>2
    <3>2. d.bat[i.blk] = IF i.landed THEN s.pbw_offset ELSE DD_BLK_UNUSED
      BY <1>1, <1>11, <3>1 DEF FileBat
    <3>3. IoOK(s, i) /\ i.blk \in Blocks
      BY <1>1, <3>1, IoField DEF Driver
    <3>4. io.op # "bat"
      <4>1. SUFFICES ASSUME io.op = "bat" PROVE FALSE
        OBVIOUS
      <4>2. i.req = io.req /\ i.blk = io.blk
        BY <1>1, <1>11, <3>3, <4>1 DEF IoOK, Mine
      <4> QED BY <1>1, <1>11, <3>1, <4>1, <4>2 DEF Unique
    <3>5. e.bat[i.blk] = d.bat[i.blk]
      BY <1>6, <3>3, <3>4
    <3> QED BY <1>2, <3>2, <3>5 DEF SameBat
  <2> QED BY <2>1, <2>2
<1>12. e.batmap \subseteq t.batmap
  BY <1>1, <1>2, <1>5 DEF FileBat
<1> QED BY <1>2, <1>5, <1>8, <1>9, <1>10, <1>11, <1>12 DEF FileBat

LEMMA LandFileMap ==
  ASSUME NEW s, NEW t, NEW d, NEW e, NEW io \in s.aio, NEW j, Driver(s, NoReq, NoBlock),
         FileOK(s, d), s.up, ~io.landed, Lands(s, t, io, j), Writes(s, d, e, io),
         io.op = "bitmap_read" => t.bm[io.blk].map = map_at(d, io.slot)
  PROVE  FileMap(t, e)
<1>1. s \in VhdState /\ d \in DiskState /\ FileBat(s, d) /\ FileMap(s, d) /\ Unique(s) /\ IoOK(s, io)
      /\ io.blk \in Blocks /\ BlkOK(s, io.blk, NoBlock)
  BY IoField DEF Driver, FileOK, FileBat
<1>2. /\ SameBat(s, t) /\ t.up = s.up /\ t.batmap = s.batmap /\ t.cached = s.cached
      /\ j.op = io.op /\ j.blk = io.blk /\ j.landed /\ j.slot = io.slot
      /\ t.aio = (s.aio \ {io}) \cup {j}
  BY DEF Lands
<1>3. \A b \in Blocks : /\ t.bm[b].rd = s.bm[b].rd /\ t.bm[b].shadow = s.bm[b].shadow /\ t.bm[b].tx = s.bm[b].tx
                        /\ io.op # "bitmap_read" \/ b # io.blk => t.bm[b] = s.bm[b]
  BY DEF Lands
<1>4. \A b \in Blocks : Own(s, d, b) # DD_BLK_UNUSED =>
       e.map[Own(s, d, b)] = (IF b = io.blk /\ io.op = "bitmap_write" THEN s.bm[b].shadow
                              ELSE IF b = io.blk /\ io.op = "zero_bm" THEN {}
                              ELSE d.map[Own(s, d, b)])
  BY DEF Writes
<1>5. /\ io.op = "bitmap_write" => /\ s.bm[io.blk].wr /\ ~s.bm[io.blk].rd /\ txios(s, io.blk) = {}
                                   /\ io.blk \notin s.batmap /\ s.bm[io.blk].map \subseteq s.bm[io.blk].shadow
      /\ io.op = "bitmap_read" => s.bm[io.blk].rd /\ io.req = bm_req /\ s.bat[io.blk] # DD_BLK_UNUSED
      /\ io.op = "zero_bm" => Mine(s, io.blk) /\ io \in txios(s, io.blk)
  BY <1>1 DEF IoOK, BlkOK, txios, TxIO
<1>6. io.op = "zero_bm" => s.bat[io.blk] = DD_BLK_UNUSED /\ d.bat[io.blk] = DD_BLK_UNUSED
  <2>1. SUFFICES ASSUME io.op = "zero_bm" PROVE s.bat[io.blk] = DD_BLK_UNUSED /\ d.bat[io.blk] = DD_BLK_UNUSED
    OBVIOUS
  <2>2. s.bat[io.blk] = DD_BLK_UNUSED
    BY <1>1, <1>5, <2>1, HeldSlot
  <2>3. ~HasIO(s, io.blk, "bat")
    <3>1. ~s.started /\ io.blk \in Blocks
      BY <1>1, <2>1 DEF IoOK
    <3> QED BY <3>1 DEF HasIO, Driver, IoOK
  <2> QED BY <1>1, <2>2, <2>3 DEF FileBat
<1>7. \A b \in Blocks : s.bat[b] # DD_BLK_UNUSED => Own(s, d, b) = s.bat[b]
  BY <1>1 DEF FileBat, Own
<1>8. ASSUME NEW b \in t.batmap \cup e.batmap PROVE e.map[e.bat[b]] = Secs
  <2>1. b \in s.batmap /\ b \in Blocks
    BY <1>1, <1>2 DEF FileBat, VhdState, Writes
  <2>2. d.bat[b] # DD_BLK_UNUSED /\ d.map[d.bat[b]] = Secs /\ Own(s, d, b) = d.bat[b]
    BY <1>1, <2>1 DEF FileBat, FileMap, Own
  <2>3. e.bat[b] = d.bat[b]
    BY <2>1, <2>2 DEF Writes
  <2> QED BY <1>4, <1>5, <1>6, <2>1, <2>2, <2>3
<1>9. ASSUME NEW b \in Blocks, b \in t.cached, ~t.bm[b].rd, t.bat[b] # DD_BLK_UNUSED
      PROVE  t.bm[b].map \subseteq e.map[t.bat[b]]
  <2>1. t.bm[b] = s.bm[b] /\ b \in s.cached /\ ~s.bm[b].rd /\ s.bat[b] # DD_BLK_UNUSED /\ t.bat[b] = s.bat[b]
    BY <1>2, <1>3, <1>5, <1>9 DEF SameBat
  <2>2. s.bm[b].map \subseteq d.map[s.bat[b]] /\ Own(s, d, b) = s.bat[b]
    BY <1>1, <1>7, <2>1 DEF FileMap
  <2> QED BY <1>4, <1>5, <1>6, <2>1, <2>2
<1>10. ASSUME NEW b \in Blocks, t.bm[b].tx.upd, t.bat_tx, t.bm[b].tx.err = "ok"
       PROVE  t.bm[b].shadow \subseteq e.map[t.pbw_offset]
  <2>1. s.bm[b].tx.upd /\ s.bat_tx /\ s.bm[b].tx.err = "ok" /\ BlkOK(s, b, NoBlock)
    BY <1>2, <1>3, <1>10 DEF SameBat, Driver
  <2>2. Mine(s, b) /\ txios(s, b) = {} /\ ~s.bm[b].wr
    BY <2>1 DEF BlkOK
  <2>3. s.bat[b] = DD_BLK_UNUSED /\ s.pbw_offset \in Slots
    BY <2>2, HeldSlot
  <2>4. Own(s, d, b) = s.pbw_offset /\ Own(s, d, b) # DD_BLK_UNUSED
    BY <1>1, <2>2, <2>3 DEF FileBat, Own, Slots, DD_BLK_UNUSED
  <2>5. s.bm[b].shadow \subseteq d.map[s.pbw_offset]
    BY <1>1, <2>1 DEF FileMap
  <2> QED BY <1>2, <1>3, <1>4, <1>5, <2>2, <2>4, <2>5 DEF SameBat
<1>11. ASSUME NEW i \in t.aio, i.landed
       PROVE  /\ i.op = "bitmap_read" => t.bm[i.blk].map = e.map[i.slot]
              /\ i.op = "bitmap_write" => t.bm[i.blk].shadow \subseteq e.map[i.slot]
              /\ i.op = "zero_bm" => e.map[i.slot] = {}
  <2>1. CASE i = j
    <3>1. i.op = io.op /\ i.blk = io.blk /\ i.slot = io.slot
      BY <1>2, <2>1
    <3>2. io.op # "bat" => io.slot = Own(s, d, io.blk) /\ io.slot \in Slots
      BY <1>1, SlotIsOwn
    <3>3. io.slot \in Slots => io.slot # DD_BLK_UNUSED
      BY DEF Slots, DD_BLK_UNUSED
    <3>4. io.op = "bitmap_read" => t.bm[io.blk].map = d.map[io.slot]
      BY <3>2 DEF map_at
    <3> QED BY <1>1, <1>3, <1>4, <3>1, <3>2, <3>3, <3>4
  <2>2. CASE i # j
    <3>1. i \in s.aio /\ i # io
      BY <1>2, <2>2
    <3>2. /\ i.op = "bitmap_read" => s.bm[i.blk].map = d.map[i.slot]
          /\ i.op = "bitmap_write" => s.bm[i.blk].shadow \subseteq d.map[i.slot]
          /\ i.op = "zero_bm" => d.map[i.slot] = {}
      BY <1>1, <1>11, <3>1 DEF FileMap
    <3>3. IoOK(s, i) /\ i.blk \in Blocks /\ BlkOK(s, i.blk, NoBlock)
      BY <1>1, <3>1, IoField DEF Driver
    <3>4. i.op # "bat" => i.slot = Own(s, d, i.blk) /\ i.slot \in Slots
      BY <1>1, <3>1, SlotIsOwn
    <3>5. i.slot \in Slots => i.slot # DD_BLK_UNUSED
      BY DEF Slots, DD_BLK_UNUSED
    <3>6. i.op = io.op /\ i.blk = io.blk => i.req # io.req
      BY <1>1, <3>1 DEF Unique
    <3>7. i.op \in {"bitmap_read", "bitmap_write", "zero_bm"} /\ i.blk = io.blk => i.op # io.op
      BY <1>1, <3>3, <3>6 DEF IoOK
    <3>8. /\ i.op = "bitmap_read" => s.bm[i.blk].rd /\ ~s.bm[i.blk].wr /\ s.bat[i.blk] # DD_BLK_UNUSED
          /\ i.op = "bitmap_write" => s.bm[i.blk].wr /\ txios(s, i.blk) = {}
          /\ i.op = "zero_bm" => i \in txios(s, i.blk)
      BY <3>1, <3>3 DEF IoOK, BlkOK, txios, TxIO
    <3>9. i.op \in {"bitmap_read", "bitmap_write", "zero_bm"} => e.map[i.slot] = d.map[i.slot]
      BY <1>4, <1>5, <1>6, <3>3, <3>4, <3>5, <3>7, <3>8
    <3>10. i.op = "bitmap_read" => t.bm[i.blk] = s.bm[i.blk]
      BY <1>3, <3>3, <3>7
    <3> QED BY <1>3, <3>2, <3>3, <3>9, <3>10
  <2> QED BY <2>1, <2>2
<1> QED BY <1>8, <1>9, <1>10, <1>11 DEF FileMap

(* Nothing that was visible in the file disappears.                         *)
LEMMA LandSet ==
  ASSUME NEW s, NEW t, NEW d, NEW e, NEW io \in s.aio, NEW j, Driver(s, NoReq, NoBlock),
         FileOK(s, d), s.up, ~io.landed, Lands(s, t, io, j), Writes(s, d, e, io),
         NEW x \in Sectors, Set(s, d, x)
  PROVE  Set(t, e, x)
<1> DEFINE b == blk_of(x)
<1>1. b \in Blocks /\ BlkOK(s, b, NoBlock) /\ IoOK(s, io)
  BY Geometry DEF Driver
<1>2. /\ d.bat[b] # DD_BLK_UNUSED /\ sec_of(x) \in d.map[d.bat[b]] /\ s.bat[b] = d.bat[b]
      /\ b \in s.cached /\ ~s.bm[b].rd => sec_of(x) \in s.bm[b].map
  BY DEF Set
<1> HIDE DEF b
<1>3. Own(s, d, b) = d.bat[b] /\ e.bat[b] = d.bat[b] /\ t.bat[b] = s.bat[b]
  BY <1>1, <1>2 DEF Own, Writes, Lands, SameBat
<1>4. /\ t.cached = s.cached /\ t.bm[b].rd = s.bm[b].rd /\ t.up = s.up
      /\ io.op # "bitmap_read" \/ b # io.blk => t.bm[b] = s.bm[b]
  BY <1>1 DEF Lands
<1>5. io.op = "bitmap_read" => s.bm[io.blk].rd
  BY <1>1 DEF IoOK
<1>6. b \in t.cached /\ ~t.bm[b].rd => sec_of(x) \in t.bm[b].map
  BY <1>2, <1>4, <1>5
<1>7. sec_of(x) \in e.map[d.bat[b]]
  <2>1. CASE b = io.blk /\ io.op = "bitmap_write"
    <3>1. s.bm[b].wr
      BY <1>1, <2>1 DEF IoOK
    <3>2. b \in s.cached /\ ~s.bm[b].rd
      BY <1>1, <3>1, InitBm DEF BlkOK
    <3>3. sec_of(x) \in s.bm[b].shadow
      BY <1>1, <1>2, <3>2 DEF BlkOK
    <3> QED BY <1>1, <1>2, <1>3, <2>1, <3>3 DEF Writes
  <2>2. CASE b = io.blk /\ io.op = "zero_bm"
    <3>1. Mine(s, b)
      BY <1>1, <2>2 DEF IoOK
    <3> QED BY <1>1, <1>2, <3>1, HeldSlot
  <2>3. CASE ~(b = io.blk /\ io.op \in {"bitmap_write", "zero_bm"})
    BY <1>1, <1>2, <1>3, <2>3 DEF Writes
  <2> QED BY <2>1, <2>2, <2>3
<1> QED BY <1>2, <1>3, <1>6, <1>7 DEF Set, b

(* What is in a sector's slot is what was there or the value just written,  *)
(* which supersedes no write.                                               *)
LEMMA LandData ==
  ASSUME NEW s, NEW d, NEW c, NEW n, NEW e, NEW io \in s.aio, Driver(s, NoReq, NoBlock),
         History(s, d, c, n, NoReq), Writes(s, d, e, io),
         NEW x \in Sectors, Own(s, d, blk_of(x)) # DD_BLK_UNUSED
  PROVE  \/ e.data[Own(s, d, blk_of(x))][sec_of(x)] = d.data[Own(s, d, blk_of(x))][sec_of(x)]
         \/ /\ e.data[Own(s, d, blk_of(x))][sec_of(x)] \in c[x]
            /\ \A q \in Reqs : s.req[q].op = "write" => e.data[Own(s, d, blk_of(x))][sec_of(x)] \notin n[q]
<1>1. CASE io.op = "data_write" /\ x = s.req[io.req].sec
  <2>1. io.req \in Reqs /\ s.req[io.req].st = "io" /\ s.req[io.req].op = "write"
    BY <1>1, IoField DEF Driver, IoOK
  <2>2. io.req \in c[x]
    <3>1. io.req \in outstanding(s) /\ io.req # NoReq
      BY <2>1, NotMeta DEF outstanding
    <3>2. WriteOK(s, d, c, n, io.req, NoReq)
      BY <2>1 DEF History
    <3> QED BY <1>1, <3>1, <3>2 DEF WriteOK
  <2>3. \A q \in Reqs : s.req[q].op = "write" => io.req \notin n[q]
    <3>1. \A q \in Reqs : s.req[q].op = "write" => \A v \in n[q] : v \in Reqs => s.req[v].st = "done"
      BY DEF History, WriteOK
    <3> QED BY <2>1, <3>1
  <2>4. e.data[Own(s, d, blk_of(x))][sec_of(x)] = io.req
    BY <1>1 DEF Writes
  <2> QED BY <2>2, <2>3, <2>4
<1>2. CASE ~(io.op = "data_write" /\ x = s.req[io.req].sec)
  BY <1>2 DEF Writes
<1> QED BY <1>1, <1>2

LEMMA LandGood ==
  ASSUME NEW s, NEW t, NEW d, NEW c, NEW n, NEW e, NEW io \in s.aio, NEW j, Driver(s, NoReq, NoBlock),
         FH(s, d, c, n, NoReq), ~io.landed, Lands(s, t, io, j), Writes(s, d, e, io)
  PROVE  /\ \A x \in Sectors : Own(s, d, blk_of(x)) # DD_BLK_UNUSED /\ Good(s, d, c, x) => Good(t, e, c, x)
         /\ \A r \in Reqs : s.req[r].op = "write" /\ Fresh(s, d, c, n, r) => Fresh(t, e, c, n, r)
<1>1. s \in VhdState /\ History(s, d, c, n, NoReq)
  BY DEF Driver, FH
<1>2. \A b \in Blocks : Own(t, e, b) = Own(s, d, b)
  BY LandOwn
<1>3. \A q \in Reqs : t.req[q].sec = s.req[q].sec
  BY DEF Lands
<1>4. ASSUME NEW x \in Sectors, Own(s, d, blk_of(x)) # DD_BLK_UNUSED, Good(s, d, c, x) PROVE Good(t, e, c, x)
  <2>1. Own(t, e, blk_of(x)) = Own(s, d, blk_of(x))
    BY <1>2, Geometry
  <2>2. e.data[Own(s, d, blk_of(x))][sec_of(x)] \in c[x]
    BY <1>1, <1>4, LandData DEF Good
  <2> QED BY <2>1, <2>2 DEF Good
<1>5. ASSUME NEW r \in Reqs, s.req[r].op = "write", Fresh(s, d, c, n, r) PROVE Fresh(t, e, c, n, r)
  <2> DEFINE x == s.req[r].sec
  <2>1. x \in Sectors /\ blk_of(x) \in Blocks /\ t.req[r].sec = x
    BY <1>1, <1>3, SecField, Geometry
  <2>2. Own(s, d, blk_of(x)) # DD_BLK_UNUSED /\ d.data[Own(s, d, blk_of(x))][sec_of(x)] \in c[x] \ n[r]
    BY <1>5 DEF Fresh
  <2> HIDE DEF x
  <2>3. e.data[Own(s, d, blk_of(x))][sec_of(x)] \in c[x] \ n[r]
    BY <1>1, <1>5, <2>1, <2>2, LandData
  <2>4. Own(t, e, blk_of(x)) = Own(s, d, blk_of(x))
    BY <1>2, <2>1
  <2> QED BY <2>1, <2>2, <2>3, <2>4 DEF Fresh
<1> QED BY <1>4, <1>5

LEMMA LandGoodOK ==
  ASSUME NEW s, NEW t, NEW d, NEW c, NEW n, NEW e, NEW io \in s.aio, NEW j, Driver(s, NoReq, NoBlock),
         FH(s, d, c, n, NoReq), ~io.landed, Lands(s, t, io, j), Writes(s, d, e, io)
  PROVE  GoodOK(t, e, c)
<1> SUFFICES ASSUME NEW x \in Sectors, NEW b, b = blk_of(x)
             PROVE  /\ /\ Own(t, e, b) # DD_BLK_UNUSED /\ Zeroed(t, b)
                       /\ sec_of(x) \in e.map[Own(t, e, b)]
                       => Good(t, e, c, x)
                    /\ sec_of(x) \in t.bm[b].shadow /\ sec_of(x) \notin t.bm[b].map /\ ~t.bm[b].rd
                       => Own(t, e, b) # DD_BLK_UNUSED /\ Good(t, e, c, x)
  BY DEF GoodOK
<1>1. s \in VhdState /\ History(s, d, c, n, NoReq) /\ FileOK(s, d) /\ s.up /\ GoodOK(s, d, c)
  BY DEF Driver, FH, History
<1>2. b \in Blocks /\ IoOK(s, io) /\ BlkOK(s, b, NoBlock)
  BY Geometry DEF Driver
<1>3. Own(t, e, b) = Own(s, d, b)
  BY <1>2, LandOwn
<1>4. Own(s, d, b) # DD_BLK_UNUSED /\ Good(s, d, c, x) => Good(t, e, c, x)
  BY LandGood
<1>5. /\ t.bm[b].rd = s.bm[b].rd /\ t.bm[b].shadow = s.bm[b].shadow
      /\ io.op # "bitmap_read" \/ b # io.blk => t.bm[b] = s.bm[b]
  BY <1>2 DEF Lands
<1>6. /\ Own(s, d, b) # DD_BLK_UNUSED /\ Zeroed(s, b) /\ sec_of(x) \in d.map[Own(s, d, b)]
           => Good(s, d, c, x)
      /\ sec_of(x) \in s.bm[b].shadow /\ sec_of(x) \notin s.bm[b].map /\ ~s.bm[b].rd
           => Own(s, d, b) # DD_BLK_UNUSED /\ Good(s, d, c, x)
  BY <1>1 DEF GoodOK
<1>7. sec_of(x) \in t.bm[b].shadow /\ sec_of(x) \notin t.bm[b].map /\ ~t.bm[b].rd
           => Own(t, e, b) # DD_BLK_UNUSED /\ Good(t, e, c, x)
  <2>1. io.op = "bitmap_read" => s.bm[io.blk].rd
    BY <1>2 DEF IoOK
  <2> QED BY <1>3, <1>4, <1>5, <1>6, <2>1
<1>8. ASSUME Own(s, d, b) # DD_BLK_UNUSED, Zeroed(t, b), sec_of(x) \in e.map[Own(s, d, b)]
      PROVE  Good(t, e, c, x)
  <2>1. CASE b = io.blk /\ io.op = "zero_bm"
    BY <1>2, <1>8, <2>1 DEF Writes
  <2>2. ~(b = io.blk /\ io.op = "zero_bm") => Zeroed(s, b)
    <3>1. SUFFICES ASSUME ~(b = io.blk /\ io.op = "zero_bm"), NEW i \in s.aio, i.blk = b, i.op = "zero_bm"
                   PROVE  i.landed
      BY DEF Zeroed
    <3>2. i \in t.aio
      BY <3>1 DEF Lands
    <3> QED BY <1>8, <3>1, <3>2 DEF Zeroed
  <2>3. CASE b = io.blk /\ io.op = "bitmap_write"
    <3>1. s.bm[b].wr /\ sec_of(x) \in s.bm[b].shadow
      BY <1>2, <1>8, <2>3 DEF IoOK, Writes
    <3>2. ~s.bm[b].rd /\ b \in s.cached
      BY <1>2, <3>1, InitBm DEF BlkOK
    <3>3. CASE sec_of(x) \in s.bm[b].map
      <4>1. s.bat[b] # DD_BLK_UNUSED
        BY <1>2, <3>3 DEF BlkOK
      <4>2. sec_of(x) \in d.map[s.bat[b]] /\ d.bat[b] = s.bat[b]
        BY <1>1, <1>2, <3>2, <3>3, <4>1 DEF FileOK, FileMap, FileBat
      <4>3. Own(s, d, b) = s.bat[b]
        BY <4>1, <4>2 DEF Own
      <4> QED BY <1>4, <1>6, <1>8, <2>2, <2>3, <4>2, <4>3
    <3>4. CASE sec_of(x) \notin s.bm[b].map
      BY <1>4, <1>6, <3>1, <3>2, <3>4
    <3> QED BY <3>3, <3>4
  <2>4. CASE ~(b = io.blk /\ io.op \in {"zero_bm", "bitmap_write"})
    <3>1. e.map[Own(s, d, b)] = d.map[Own(s, d, b)]
      BY <1>2, <1>8, <2>4 DEF Writes
    <3> QED BY <1>4, <1>6, <1>8, <2>2, <2>4, <3>1
  <2> QED BY <2>1, <2>3, <2>4
<1> QED BY <1>3, <1>7, <1>8

LEMMA LandHist ==
  ASSUME NEW s, NEW t, NEW d, NEW c, NEW n, NEW e, NEW io \in s.aio, NEW j, Driver(s, NoReq, NoBlock),
         FH(s, d, c, n, NoReq), ~io.landed, Lands(s, t, io, j), Writes(s, d, e, io),
         io.op = "data_read" => t.req[io.req].val = data_at(d, io.slot, sec_of(s.req[io.req].sec))
  PROVE  History(t, e, c, n, NoReq)
<1>1. s \in VhdState /\ History(s, d, c, n, NoReq) /\ FileOK(s, d) /\ s.up /\ FileBat(s, d) /\ Unique(s)
  BY DEF Driver, FH, FileOK
<1>2. \A q \in Reqs : /\ t.req[q].st = s.req[q].st /\ t.req[q].op = s.req[q].op
                      /\ t.req[q].sec = s.req[q].sec /\ t.req[q].err = s.req[q].err
                      /\ io.op # "data_read" \/ q # io.req => t.req[q].val = s.req[q].val
  BY DEF Lands
<1>3. outstanding(t) = outstanding(s)
  BY <1>2 DEF outstanding
<1>4. \A x \in Sectors : Set(s, d, x) => Set(t, e, x)
  BY <1>1, LandSet
<1>5. /\ \A x \in Sectors : Own(s, d, blk_of(x)) # DD_BLK_UNUSED /\ Good(s, d, c, x) => Good(t, e, c, x)
      /\ \A r \in Reqs : s.req[r].op = "write" /\ Fresh(s, d, c, n, r) => Fresh(t, e, c, n, r)
  BY LandGood
<1>6. CandOK(t, c)
  <2>1. \A q \in Reqs : accepted(t.req[q]) <=> accepted(s.req[q])
    BY <1>2 DEF accepted
  <2> QED BY <1>1, <1>2, <2>1 DEF History, CandOK
<1>7. ParentOK(t, e, c)
  BY <1>1, <1>4 DEF History, ParentOK
<1>8. GoodOK(t, e, c)
  BY LandGoodOK
<1>9. ASSUME NEW r \in Reqs, t.req[r].op = "write" PROVE WriteOK(t, e, c, n, r, NoReq)
  <2>1. WriteOK(s, d, c, n, r, NoReq) /\ s.req[r].op = "write" /\ s.req[r].sec \in Sectors
    BY <1>1, <1>2, <1>9, SecField DEF History
  <2> QED BY <1>2, <1>3, <1>4, <1>5, <2>1 DEF WriteOK
<1>10. ASSUME NEW r \in Reqs, t.req[r].op = "read" PROVE ReadOK(t, c, n, r)
  <2>1. ReadOK(s, c, n, r) /\ s.req[r].op = "read"
    BY <1>1, <1>2, <1>10 DEF History
  <2>2. io.op = "data_read" => s.req[io.req].st = "io"
    BY DEF Driver, IoOK
  <2> QED BY <1>2, <1>3, <2>1, <2>2 DEF ReadOK
<1>11. ASSUME NEW i \in t.aio PROVE IoHist(t, e, c, n, i)
  <2>1. PICK o \in s.aio : /\ o.op = i.op /\ o.blk = i.blk /\ o.req = i.req /\ o.slot = i.slot
                           /\ o = i \/ (o = io /\ i = j)
    BY <1>11 DEF Lands
  <2>2. IoHist(s, d, c, n, o) /\ IoOK(s, o) /\ o.blk \in Blocks
        /\ (o.op \in {"data_read", "data_write"} => o.req \in Reqs)
    BY <1>1, <2>1, IoField DEF History, Driver
  <2>3. CASE i.op = "data_read"
    <3> DEFINE x == s.req[i.req].sec
    <3>1. /\ i.req \in Reqs /\ x \in Sectors /\ t.req[i.req].sec = x /\ Good(s, d, c, x)
          /\ s.req[i.req].st = "io" /\ s.req[i.req].op = "read" /\ i.blk = blk_of(x)
          /\ o.landed => s.req[i.req].val \in n[i.req]
      BY <1>1, <1>2, <2>1, <2>2, <2>3, SecField DEF IoHist, IoOK
    <3>2. o.slot = Own(s, d, i.blk) /\ o.slot \in Slots
      BY <1>1, <2>1, <2>3, SlotIsOwn
    <3>3. Own(s, d, blk_of(x)) # DD_BLK_UNUSED
      BY <3>1, <3>2 DEF Slots, DD_BLK_UNUSED
    <3>4. Good(t, e, c, x)
      BY <1>5, <3>1, <3>3
    <3>5. i.landed => t.req[i.req].val \in n[i.req]
      <4>1. CASE o = io
        <5>1. t.req[i.req].val = d.data[o.slot][sec_of(x)]
          BY <2>1, <2>3, <3>2, <4>1 DEF data_at
        <5>2. t.req[i.req].val \in c[x]
          BY <3>1, <3>2, <5>1 DEF Good
        <5>3. ReadOK(s, c, n, i.req) /\ i.req \in outstanding(s)
          BY <1>1, <3>1 DEF History, outstanding
        <5> QED BY <5>2, <5>3 DEF ReadOK
      <4>2. CASE o # io
        <5>1. o = i /\ i \in s.aio /\ i # io
          BY <2>1, <4>2
        <5>2. ~(io.op = "data_read" /\ i.req = io.req)
          <6>1. SUFFICES ASSUME io.op = "data_read", i.req = io.req PROVE FALSE
            OBVIOUS
          <6>2. io.blk = blk_of(x)
            BY <6>1 DEF Driver, IoOK
          <6> QED BY <1>1, <2>3, <3>1, <5>1, <6>1, <6>2 DEF Unique
        <5> QED BY <1>2, <3>1, <5>1, <5>2
      <4> QED BY <4>1, <4>2
    <3> QED BY <2>3, <3>1, <3>4, <3>5 DEF IoHist
  <2>4. CASE i.op = "data_write"
    <3> DEFINE x == s.req[i.req].sec
    <3>1. /\ i.req \in Reqs /\ x \in Sectors /\ t.req[i.req].sec = x
          /\ s.req[i.req].op = "write" /\ i.blk = blk_of(x)
          /\ o.landed => Fresh(s, d, c, n, i.req)
          /\ i.req \notin s.bm[i.blk].tx.reqs \cup s.bm[i.blk].queue => Set(s, d, x)
      BY <1>1, <1>2, <2>1, <2>2, <2>4, SecField DEF IoHist, IoOK
    <3>2. t.bm[i.blk].tx = s.bm[i.blk].tx /\ t.bm[i.blk].queue = s.bm[i.blk].queue
      BY <2>1, <2>2 DEF Lands
    <3>3. i.landed => Fresh(t, e, c, n, i.req)
      <4>1. CASE o = i
        BY <1>5, <3>1, <4>1
      <4>2. CASE o = io /\ i = j
        <5>1. io.op = "data_write" /\ io.req = i.req /\ blk_of(x) \in Blocks /\ io.blk = i.blk
          BY <2>1, <2>4, <3>1, <4>2, Geometry
        <5>2. Own(s, d, blk_of(x)) # DD_BLK_UNUSED
          BY <1>1, <3>1, <5>1, SlotIsOwn DEF Slots, DD_BLK_UNUSED
        <5>3. e.data[Own(s, d, blk_of(x))][sec_of(x)] = io.req
          BY <3>1, <5>1, <5>2 DEF Writes
        <5>4. WriteOK(s, d, c, n, i.req, NoReq) /\ i.req \in outstanding(s) /\ i.req # NoReq
              /\ s.req[i.req].st = "io"
          BY <1>1, <2>1, <2>2, <2>4, <3>1, NotMeta DEF History, IoOK, outstanding
        <5>5. i.req \in c[x] \ n[i.req]
          BY <3>1, <5>4 DEF WriteOK
        <5>6. Own(t, e, blk_of(x)) = Own(s, d, blk_of(x))
          BY <5>1, LandOwn
        <5> QED BY <3>1, <5>1, <5>2, <5>3, <5>5, <5>6 DEF Fresh
      <4> QED BY <2>1, <4>1, <4>2
    <3> QED BY <1>4, <2>4, <3>1, <3>2, <3>3 DEF IoHist
  <2> QED BY <2>3, <2>4 DEF IoHist
<1>12. c \in [Sectors -> SUBSET Values] /\ n \in [Reqs -> SUBSET Values]
  BY <1>1 DEF History
<1> QED BY <1>6, <1>7, <1>8, <1>9, <1>10, <1>11, <1>12 DEF History

(* An I/O that reaches the file, in whatever order, keeps the invariant;    *)
(* no entry of the BAT in the file changes but from unused.                 *)
LEMMA Landed ==
  ASSUME NEW s, NEW io \in s.aio, NEW d, NEW c, NEW n, NEW t, NEW e, Driver(s, NoReq, NoBlock),
         FH(s, d, c, n, NoReq), ~io.landed, t = arrived(d, s, io), e = written(d, s, io)
  PROVE  /\ Driver(t, NoReq, NoBlock) /\ FH(t, e, c, n, NoReq)
         /\ \A b \in Blocks : d.bat[b] # DD_BLK_UNUSED => e.bat[b] = d.bat[b]
<1> DEFINE j == landing(io)
<1>1. s \in VhdState /\ d \in DiskState /\ FileOK(s, d) /\ s.up
  BY DEF Driver, FH, FileOK, FileBat
<1>2. /\ Lands(s, t, io, j) /\ t \in VhdState
      /\ io.op = "data_read" =>
           t.req[io.req].val = data_at(d, io.slot, sec_of(s.req[io.req].sec))
      /\ io.op = "bitmap_read" => t.bm[io.blk].map = map_at(d, io.slot)
  BY <1>1, LandEffect
<1>3. Writes(s, d, e, io)
  BY <1>1, WriteEffect
<1> HIDE DEF j
<1>4. Driver(t, NoReq, NoBlock)
  BY <1>2, LandDriver
<1>5. FileBat(t, e)
  BY <1>1, <1>2, <1>3, LandFileBat
<1>6. FileMap(t, e)
  BY <1>1, <1>2, <1>3, LandFileMap
<1>7. History(t, e, c, n, NoReq)
  BY <1>2, <1>3, LandHist
<1>8. t.up
  BY <1>1, <1>2 DEF Lands
<1>9. \A b \in Blocks : d.bat[b] # DD_BLK_UNUSED => e.bat[b] = d.bat[b]
  BY <1>3 DEF Writes
<1> QED BY <1>4, <1>5, <1>6, <1>7, <1>8, <1>9 DEF FH, FileOK

(* A driver that has just been opened, or is closed.                        *)
Blank(t) ==
  /\ t \in VhdState /\ t.aio = {} /\ t.cached = {} /\ t.vfree = VReqs /\ outstanding(t) = {}
  /\ ~t.locked /\ ~t.started /\ ~t.bat_tx /\ t.bat_err = "ok"
  /\ \A b \in Blocks : t.bm[b] = init_vhd_bitmap

LEMMA BlankDriver ==
  ASSUME NEW t, Blank(t),
         \A b \in Blocks : t.bat[b] < t.next_db,
         \A b, x \in Blocks : b # x /\ t.bat[b] = t.bat[x] => t.bat[b] = DD_BLK_UNUSED,
         \A b \in t.batmap : t.bat[b] # DD_BLK_UNUSED
  PROVE  Driver(t, NoReq, NoBlock)
<1>1. BatOK(t, NoBlock)
  BY DEF Blank, BatOK
<1>2. \A x, op : ~HasIO(t, x, op)
  BY DEF Blank, HasIO
<1>3. \A b \in Blocks : txios(t, b) = {} /\ Cardinality(txios(t, b)) = 0
  BY FS_EmptySet DEF Blank, txios
<1>4. ASSUME NEW b \in Blocks PROVE BlkOK(t, b, NoBlock)
  <2>1. t.bm[b] = init_vhd_bitmap /\ b \notin t.cached /\ ~bitmap_in_use(t.bm[b])
    BY InitBm DEF Blank, bitmap_in_use
  <2> QED BY <2>1, InitBm DEF BlkOK
<1>5. \A b \in Blocks : TxOK(t, b) /\ MemOK(t, b)
  BY <1>3, InitBm DEF TxOK, MemOK, Blank
<1>6. \A r \in Reqs : ReqOK(t, r, NoReq)
  BY NotMeta DEF ReqOK, Blank, outstanding
<1>7. CountOK(t)
  <2>1. Redundant(t) = {} /\ t.vfree = VReqs /\ VReqs \in Nat /\ CacheSize \in Nat
    BY ConstantsAssumption DEF Blank, Redundant
  <2>2. Cardinality({}) = 0 /\ IsFiniteSet({})
    BY FS_EmptySet
  <2>3. outstanding(t) = {} /\ t.aio = {} /\ t.cached = {}
    BY DEF Blank
  <2> QED BY <2>1, <2>2, <2>3 DEF CountOK
<1> QED BY <1>1, <1>4, <1>5, <1>6, <1>7 DEF Driver, Blank, Unique

(* find_next_free_block is above every entry.                               *)
LEMMA NextFree ==
  ASSUME NEW bat \in [Blocks -> Entries], NEW b \in Blocks
  PROVE  bat[b] < find_next_free_block(bat)
<1> DEFINE S == {n \in Slots : \E x \in Blocks : bat[x] >= n}
<1>1. find_next_free_block(bat) = Cardinality(S) /\ find_next_free_block(bat) \in Nat
  BY NextFreeType DEF find_next_free_block
<1>2. bat[b] \in Entries
  OBVIOUS
<1>3. CASE bat[b] = DD_BLK_UNUSED
  BY <1>1, <1>3 DEF DD_BLK_UNUSED
<1>4. CASE bat[b] \in Slots
  <2>1. 0 .. bat[b] \subseteq S
    BY <1>4, ConstantsAssumption DEF Slots
  <2>2. IsFiniteSet(S)
    <3>1. IsFiniteSet(0 .. NSlots - 1)
      BY FS_Interval, ConstantsAssumption
    <3> QED BY <3>1, FS_Subset DEF Slots
  <2>3. Cardinality(0 .. bat[b]) = bat[b] + 1 /\ bat[b] \in Nat
    <3>1. bat[b] \in Int /\ 0 <= bat[b]
      BY <1>4, ConstantsAssumption DEF Slots
    <3> QED BY <3>1, FS_Interval
  <2> HIDE DEF S
  <2>4. Cardinality(0 .. bat[b]) <= Cardinality(S)
    BY <2>1, <2>2, FS_Subset
  <2> QED BY <1>1, <2>3, <2>4
<1> QED BY <1>2, <1>3, <1>4 DEF Entries

LEMMA InitializeEffect ==
  ASSUME NEW p \in BOOLEAN, NEW bat \in [Blocks -> Entries], NEW batmap \in SUBSET Blocks,
         NEW req \in [Reqs -> Request], NEW t, \A r \in Reqs : req[r].st \in {"free", "done"},
         t = vhd_initialize(p, bat, batmap, req)
  PROVE  /\ Blank(t) /\ t.up /\ t.bat = bat /\ t.batmap = batmap /\ t.req = req
         /\ \A b \in Blocks : t.bat[b] < t.next_db
<1>1. t \in VhdState
  BY InitializeType
<1>2. /\ t.aio = {} /\ t.cached = {} /\ t.vfree = VReqs /\ ~t.locked /\ ~t.started /\ ~t.bat_tx
      /\ t.bat_err = "ok" /\ \A b \in Blocks : t.bm[b] = init_vhd_bitmap
      /\ t.up /\ t.bat = bat /\ t.batmap = batmap /\ t.req = req
      /\ t.next_db = find_next_free_block(bat)
  BY DEF vhd_initialize
<1>3. outstanding(t) = {}
  BY <1>2 DEF outstanding
<1>4. \A b \in Blocks : bat[b] < find_next_free_block(bat)
  BY NextFree
<1> QED BY <1>1, <1>2, <1>3, <1>4 DEF Blank

shut(s) == [s EXCEPT !.up = FALSE]

LEMMA ShutEffect ==
  ASSUME NEW s, NEW t, Blank(s), t = shut(s)
  PROVE  Blank(t) /\ ~t.up /\ t.bat = s.bat /\ t.batmap = s.batmap /\ t.req = s.req /\ t.next_db = s.next_db
<1>1. s \in VhdState
  BY DEF Blank
<1>2. t \in VhdState
  BY <1>1 DEF shut, VhdState
<1>3. /\ ~t.up /\ t.bat = s.bat /\ t.batmap = s.batmap /\ t.req = s.req /\ t.next_db = s.next_db
      /\ t.aio = s.aio /\ t.cached = s.cached /\ t.vfree = s.vfree /\ t.locked = s.locked
      /\ t.started = s.started /\ t.bat_tx = s.bat_tx /\ t.bat_err = s.bat_err /\ t.bm = s.bm
  BY <1>1 DEF shut, VhdState
<1>4. outstanding(t) = outstanding(s)
  BY <1>3 DEF outstanding
<1> QED BY <1>2, <1>3, <1>4 DEF Blank

(* A bitmap that is being zeroed is not in the file's BAT yet.              *)
LEMMA ZeroingUnused ==
  ASSUME NEW s, NEW d, Driver(s, NoReq, NoBlock), FileBat(s, d), s.up, NEW io \in s.aio, io.op = "zero_bm"
  PROVE  d.bat[io.blk] = DD_BLK_UNUSED /\ s.bat[io.blk] = DD_BLK_UNUSED
<1>1. io.blk \in Blocks /\ IoOK(s, io)
  BY IoField DEF Driver
<1>2. Mine(s, io.blk) /\ ~s.started
  BY <1>1 DEF IoOK
<1>3. s.bat[io.blk] = DD_BLK_UNUSED
  BY <1>1, <1>2, HeldSlot
<1>4. ~HasIO(s, io.blk, "bat")
  BY <1>2 DEF HasIO, Driver, IoOK
<1> QED BY <1>1, <1>3, <1>4 DEF FileBat

LEMMA BlankHist ==
  ASSUME NEW s, NEW t, NEW d, NEW e, NEW c, NEW n, Blank(t), Driver(s, NoReq, NoBlock), FileOK(s, d),
         History(s, d, c, n, NoReq), t.up => t.bat = d.bat,
         e.bat = d.bat, e.map = d.map, e.data = d.data,
         \A r \in Reqs : \/ t.req[r] = s.req[r]
                         \/ /\ r \in outstanding(s) /\ t.req[r].st = "done" /\ t.req[r].err = "EIO"
                            /\ t.req[r].op = s.req[r].op /\ t.req[r].sec = s.req[r].sec
  PROVE  History(t, e, c, n, NoReq)
<1>1. s \in VhdState /\ t.aio = {} /\ t.cached = {} /\ outstanding(t) = {} /\ ~t.locked
      /\ \A b \in Blocks : t.bm[b] = init_vhd_bitmap
  BY DEF Driver, Blank
<1>2. \A b \in Blocks : Own(t, e, b) = d.bat[b]
  BY <1>1 DEF Own, Mine
<1>3. \A b \in Blocks : d.bat[b] # DD_BLK_UNUSED => Own(s, d, b) = d.bat[b]
  BY DEF Own
<1>4. \A b \in Blocks : d.bat[b] # DD_BLK_UNUSED => Zeroed(s, b)
  <2>1. CASE s.up
    BY <2>1, ZeroingUnused DEF Zeroed, FileOK
  <2>2. CASE ~s.up
    BY <2>2 DEF Zeroed, FileOK, FileBat
  <2> QED BY <2>1, <2>2
<1>5. \A x \in Sectors : Set(s, d, x) => Set(t, e, x) /\ d.bat[blk_of(x)] # DD_BLK_UNUSED
  BY <1>1 DEF Set
<1>6. CandOK(t, c)
  <2>1. \A q \in Reqs : accepted(s.req[q]) => accepted(t.req[q])
    BY DEF accepted
  <2> QED BY <2>1 DEF History, CandOK
<1>7. ParentOK(t, e, c)
  BY <1>5 DEF History, ParentOK
<1>8. GoodOK(t, e, c)
  <2> SUFFICES ASSUME NEW x \in Sectors, NEW b, b = blk_of(x)
               PROVE  /\ /\ Own(t, e, b) # DD_BLK_UNUSED /\ Zeroed(t, b)
                         /\ sec_of(x) \in e.map[Own(t, e, b)]
                         => Good(t, e, c, x)
                      /\ sec_of(x) \in t.bm[b].shadow /\ sec_of(x) \notin t.bm[b].map /\ ~t.bm[b].rd
                         => Own(t, e, b) # DD_BLK_UNUSED /\ Good(t, e, c, x)
    BY DEF GoodOK
  <2>1. b \in Blocks
    BY Geometry
  <2>2. t.bm[b].shadow = {}
    BY <1>1, <2>1, InitBm
  <2>3. Own(s, d, b) # DD_BLK_UNUSED /\ Zeroed(s, b) /\ sec_of(x) \in d.map[Own(s, d, b)]
           => Good(s, d, c, x)
    BY DEF History, GoodOK
  <2>4. d.bat[b] # DD_BLK_UNUSED /\ Good(s, d, c, x) => Good(t, e, c, x)
    BY <1>2, <1>3, <2>1 DEF Good
  <2> QED BY <1>2, <1>3, <1>4, <2>1, <2>2, <2>3, <2>4
<1>9. ASSUME NEW r \in Reqs, t.req[r].op = "write" PROVE WriteOK(t, e, c, n, r, NoReq)
  <2>1. WriteOK(s, d, c, n, r, NoReq) /\ s.req[r].sec \in Sectors /\ t.req[r].sec = s.req[r].sec
    BY <1>1, <1>9, SecField DEF History
  <2>2. r \notin outstanding(t) /\ t.req[r].st # "finished"
    BY <1>1 DEF outstanding
  <2>3. ASSUME t.req[r].st = "done", t.req[r].err = "ok" PROVE Fresh(t, e, c, n, r) /\ Set(t, e, t.req[r].sec)
    <3>1. s.req[r].st = "done" /\ s.req[r].err = "ok"
      BY <2>3
    <3>2. Fresh(s, d, c, n, r) /\ Set(s, d, s.req[r].sec)
      BY <2>1, <3>1 DEF WriteOK
    <3>3. blk_of(s.req[r].sec) \in Blocks /\ d.bat[blk_of(s.req[r].sec)] # DD_BLK_UNUSED
          /\ Set(t, e, s.req[r].sec)
      BY <1>5, <2>1, <3>2, Geometry
    <3>4. Own(t, e, blk_of(s.req[r].sec)) = Own(s, d, blk_of(s.req[r].sec))
      BY <1>2, <1>3, <3>3
    <3> QED BY <2>1, <3>2, <3>3, <3>4 DEF Fresh
  <2>4. ASSUME NEW v \in n[r], v \in Reqs PROVE t.req[v].st = "done" /\ t.req[v].err # "EBUSY"
    <3>1. s.req[v].st = "done" /\ s.req[v].err # "EBUSY"
      BY <2>1, <2>4 DEF WriteOK
    <3> QED BY <2>4, <3>1
  <2> QED BY <2>2, <2>3, <2>4 DEF WriteOK
<1>10. ASSUME NEW r \in Reqs, t.req[r].op = "read" PROVE ReadOK(t, c, n, r)
  <2>1. ReadOK(s, c, n, r)
    BY <1>10 DEF History
  <2> QED BY <1>1, <2>1 DEF ReadOK
<1> QED BY <1>1, <1>6, <1>7, <1>8, <1>9, <1>10 DEF History

unused == [b \in Blocks |-> DD_BLK_UNUSED]
dead(s) == shut(vhd_initialize(s.prealloc, unused, {}, unanswered(s)))

(* The process is gone; a close writes the batmap first.                    *)
LEMMA Dies ==
  ASSUME NEW s, NEW t, NEW d, NEW e \in DiskState, NEW c, NEW n,
         Driver(s, NoReq, NoBlock), FH(s, d, c, n, NoReq), t = dead(s),
         e.bat = d.bat, e.map = d.map, e.data = d.data, e.batmap \subseteq s.batmap
  PROVE  Driver(t, NoReq, NoBlock) /\ FileOK(t, e) /\ History(t, e, c, n, NoReq)
<1>1. s \in VhdState /\ FileOK(s, d) /\ s.up /\ History(s, d, c, n, NoReq)
  BY DEF Driver, FH
<1>2. \A r \in Reqs : unanswered(s)[r] \in Request
  <2> SUFFICES ASSUME NEW r \in Reqs PROVE unanswered(s)[r] \in Request
    OBVIOUS
  <2>1. s.req[r] \in Request /\ [s.req[r] EXCEPT !.st = "done", !.err = "EIO"] \in Request
    BY <1>1, ReqField, RequestTypes DEF Errors
  <2> QED BY <2>1 DEF unanswered
<1>3. \A r \in Reqs : \/ unanswered(s)[r] = s.req[r] /\ r \notin outstanding(s)
                      \/ /\ r \in outstanding(s) /\ unanswered(s)[r].st = "done" /\ unanswered(s)[r].err = "EIO"
                         /\ unanswered(s)[r].op = s.req[r].op /\ unanswered(s)[r].sec = s.req[r].sec
  <2> SUFFICES ASSUME NEW r \in Reqs
               PROVE  \/ unanswered(s)[r] = s.req[r] /\ r \notin outstanding(s)
                      \/ /\ r \in outstanding(s) /\ unanswered(s)[r].st = "done" /\ unanswered(s)[r].err = "EIO"
                         /\ unanswered(s)[r].op = s.req[r].op /\ unanswered(s)[r].sec = s.req[r].sec
    OBVIOUS
  <2>1. s.req[r] \in Request
    BY <1>1, ReqField
  <2> QED BY <2>1 DEF unanswered, Request
<1>4. \A r \in Reqs : unanswered(s)[r].st \in {"free", "done"}
  <2> SUFFICES ASSUME NEW r \in Reqs PROVE unanswered(s)[r].st \in {"free", "done"}
    OBVIOUS
  <2>1. s.req[r] \in Request
    BY <1>1, ReqField
  <2> QED BY <1>3, <2>1 DEF outstanding, Request
<1>5. unanswered(s) \in [Reqs -> Request]
  BY <1>2 DEF unanswered
<1>6. unused \in [Blocks -> Entries] /\ s.prealloc \in BOOLEAN
  BY <1>1, Zero DEF unused, VhdState
<1> DEFINE q == unanswered(s)
<1> HIDE DEF q
<1>7. /\ Blank(t) /\ ~t.up /\ t.bat = unused /\ t.batmap = {} /\ t.req = q
      /\ \A b \in Blocks : t.bat[b] < t.next_db
  <2> DEFINE i == vhd_initialize(s.prealloc, unused, {}, unanswered(s))
  <2>1. {} \in SUBSET Blocks
    OBVIOUS
  <2>2. /\ Blank(i) /\ i.up /\ i.bat = unused /\ i.batmap = {} /\ i.req = unanswered(s)
        /\ \A b \in Blocks : i.bat[b] < i.next_db
    BY <1>4, <1>5, <1>6, <2>1, InitializeEffect
  <2>3. t = shut(i)
    BY DEF dead
  <2> HIDE DEF i
  <2> QED BY <2>2, <2>3, ShutEffect DEF q
<1>8. Driver(t, NoReq, NoBlock)
  <2>1. \A b \in Blocks : t.bat[b] = DD_BLK_UNUSED
    BY <1>7 DEF unused
  <2> QED BY <1>7, <2>1, BlankDriver
<1>9. FileOK(t, e)
  <2>1. FileBat(s, d) /\ FileMap(s, d)
    BY <1>1 DEF FileOK
  <2>2. /\ t.aio = {} /\ ~t.locked /\ t.cached = {} /\ outstanding(t) = {}
        /\ \A b \in Blocks : t.bm[b] = init_vhd_bitmap
    BY <1>7 DEF Blank
  <2>3. FileBat(t, e)
    BY <1>7, <2>1, <2>2 DEF FileBat
  <2>4. FileMap(t, e)
    BY <1>7, <2>1, <2>2, InitBm DEF FileMap
  <2> QED BY <2>3, <2>4 DEF FileOK
<1>10. History(t, e, c, n, NoReq)
  BY <1>1, <1>3, <1>7, BlankHist DEF q
<1> QED BY <1>8, <1>9, <1>10

(* The image is opened again.                                               *)
LEMMA Opens ==
  ASSUME NEW s, NEW t, NEW d, NEW c, NEW n, Driver(s, NoReq, NoBlock), ~s.up, FileOK(s, d),
         History(s, d, c, n, NoReq), t = vhd_initialize(s.prealloc, d.bat, d.batmap, s.req)
  PROVE  Driver(t, NoReq, NoBlock) /\ FileOK(t, d) /\ History(t, d, c, n, NoReq)
<1>1. s \in VhdState /\ d \in DiskState /\ FileBat(s, d) /\ FileMap(s, d) /\ outstanding(s) = {}
  BY DEF Driver, FileOK, FileBat
<1>2. \A r \in Reqs : s.req[r].st \in {"free", "done"}
  <2> SUFFICES ASSUME NEW r \in Reqs PROVE s.req[r].st \in {"free", "done"}
    OBVIOUS
  <2>1. s.req[r] \in Request
    BY <1>1, ReqField
  <2> QED BY <1>1, <2>1 DEF outstanding, Request
<1>3. s.prealloc \in BOOLEAN /\ d.bat \in [Blocks -> Entries] /\ d.batmap \in SUBSET Blocks
      /\ s.req \in [Reqs -> Request]
  BY <1>1 DEF VhdState, DiskState
<1>4. /\ Blank(t) /\ t.up /\ t.bat = d.bat /\ t.batmap = d.batmap /\ t.req = s.req
      /\ \A b \in Blocks : t.bat[b] < t.next_db
  <2> DEFINE B == d.bat
             M == d.batmap
             Q == s.req
             P == s.prealloc
  <2>1. /\ P \in BOOLEAN /\ B \in [Blocks -> Entries] /\ M \in SUBSET Blocks /\ Q \in [Reqs -> Request]
        /\ t = vhd_initialize(P, B, M, Q) /\ \A r \in Reqs : Q[r].st \in {"free", "done"}
    BY <1>2, <1>3
  <2> HIDE DEF B, M, Q, P
  <2>2. /\ Blank(t) /\ t.up /\ t.bat = B /\ t.batmap = M /\ t.req = Q
        /\ \A b \in Blocks : t.bat[b] < t.next_db
    BY ONLY <2>1, InitializeEffect
  <2> QED BY <2>2 DEF B, M, Q
<1>5. Driver(t, NoReq, NoBlock)
  <2>1. \A b, x \in Blocks : b # x /\ t.bat[b] = t.bat[x] => t.bat[b] = DD_BLK_UNUSED
    BY <1>1, <1>4 DEF FileBat
  <2>2. \A b \in t.batmap : t.bat[b] # DD_BLK_UNUSED
    BY <1>1, <1>4 DEF FileBat
  <2> QED BY <1>4, <2>1, <2>2, BlankDriver
<1>6. FileOK(t, d)
  <2>1. /\ t.aio = {} /\ ~t.locked /\ t.cached = {} /\ outstanding(t) = {}
        /\ \A b \in Blocks : t.bm[b] = init_vhd_bitmap
    BY <1>4 DEF Blank
  <2>2. FileBat(t, d)
    BY <1>1, <1>4, <2>1 DEF FileBat
  <2>3. FileMap(t, d)
    BY <1>1, <1>4, <2>1, InitBm DEF FileMap
  <2> QED BY <2>2, <2>3 DEF FileOK
<1>7. History(t, d, c, n, NoReq)
  BY <1>4, BlankHist
<1> QED BY <1>5, <1>6, <1>7

(* A request that is being submitted is in no history yet.                  *)
NewTo(s, c, n, r) ==
  /\ \A y \in Sectors : r \notin c[y]
  /\ \A q \in Reqs : s.req[q].op = "write" => r \notin n[q]

OthersRest(s, t, r) == \A q \in Reqs : q # r => t.req[q] = s.req[q]

(* Nothing but requests and the list of those that wait changes.            *)
Quiet(s, t) ==
  /\ View(s, t) /\ t.batmap = s.batmap /\ t.bat_tx = s.bat_tx /\ t.aio = s.aio
  /\ \A b \in Blocks : t.bm[b].tx = s.bm[b].tx /\ t.bm[b].queue = s.bm[b].queue

(* What the history asks of the request r that is being submitted.          *)
Submits(t, c, n, r, g) ==
  /\ t.req[r].op = "write" =>
       /\ r \in outstanding(t) => g = r
       /\ t.req[r].st \in {"finished", "done"} => t.req[r].err # "ok"
       /\ \A v \in n[r] : v \in Reqs => t.req[v].st = "done" /\ t.req[v].err # "EBUSY"
  /\ t.req[r].op = "read" =>
       /\ r \in outstanding(t) => c[t.req[r].sec] \subseteq n[r]
       /\ t.req[r].st = "done" /\ t.req[r].err = "ok" => t.req[r].val \in n[r]

LEMMA SubmitHist ==
  ASSUME NEW s, NEW t \in VhdState, NEW h, NEW k, NEW d, NEW c, NEW n, NEW n2 \in [Reqs -> SUBSET Values],
         NEW r \in Reqs, NEW g \in {r, NoReq}, NEW g2 \in {r, NoReq},
         Driver(s, h, k), FH(s, d, c, n, g), Loose(s, r), NewTo(s, c, n, r), Quiet(s, t),
         OthersRest(s, t, r), \A q \in Reqs : q # r => n2[q] = n[q], Submits(t, c, n2, r, g2)
  PROVE  FH(t, d, c, n2, g2)
<1>1. s \in VhdState /\ View(s, t) /\ FileOK(s, d) /\ s.up /\ History(s, d, c, n, g)
  BY DEF Driver, Quiet, FH
<1>2. t.aio = s.aio /\ t.batmap = s.batmap /\ t.bat_tx = s.bat_tx
      /\ \A b \in Blocks : t.bm[b].tx = s.bm[b].tx /\ t.bm[b].queue = s.bm[b].queue
  BY DEF Quiet
<1>3. FileOK(t, d)
  <2>1. \A b \in Blocks : t.bm[b].tx.upd /\ t.bat_tx /\ t.bm[b].tx.err = "ok"
                             => s.bm[b].tx.upd /\ s.bat_tx /\ s.bm[b].tx.err = "ok"
    BY <1>2
  <2> QED BY <1>1, <1>2, <2>1, FileFrame
<1>4. \A q \in Reqs : q # r => t.req[q] = s.req[q]
  BY DEF OthersRest
<1>5. \A q \in Reqs : q # r => (Fresh(t, d, c, n2, q) <=> Fresh(s, d, c, n, q))
  <2> SUFFICES ASSUME NEW q \in Reqs, q # r PROVE Fresh(t, d, c, n2, q) <=> Fresh(s, d, c, n, q)
    OBVIOUS
  <2>1. Fresh(t, d, c, n, q) <=> Fresh(s, d, c, n, q)
    BY <1>1, <1>4, CalmFresh
  <2>2. n2[q] = n[q]
    OBVIOUS
  <2> QED BY <2>1, <2>2 DEF Fresh
<1>6. \A x \in Sectors : Set(t, d, x) <=> Set(s, d, x)
  BY <1>1, ViewSame
<1>7. \A x \in Sectors : Good(t, d, c, x) <=> Good(s, d, c, x)
  BY <1>1, ViewSame
<1>8. \A q \in Reqs : q # r => (q \in outstanding(t) <=> q \in outstanding(s))
  BY <1>4 DEF outstanding
<1>9. CandOK(t, c)
  <2>1. \A x \in Sectors : \A v \in c[x] : v # r
    BY DEF NewTo
  <2> QED BY <1>1, <1>4, <2>1 DEF CandOK, History
<1>10. ASSUME NEW q \in Reqs, t.req[q].op = "write" PROVE WriteOK(t, d, c, n2, q, g2)
  <2>1. CASE q = r
    BY <1>10, <2>1 DEF WriteOK, Submits
  <2>2. CASE q # r
    <3>1. WriteOK(s, d, c, n, q, g) /\ s.req[q].op = "write" /\ t.req[q] = s.req[q] /\ n2[q] = n[q]
      BY <1>1, <1>4, <1>10, <2>2 DEF History
    <3>2. \A v \in n[q] : v \in Reqs => t.req[v] = s.req[v]
      BY <1>4, <3>1 DEF NewTo
    <3>3. s.req[q].sec \in Sectors
      BY <1>1, SecField
    <3>4. q # g /\ q # g2
      BY <2>2, NotMeta
    <3> QED BY <1>5, <1>6, <1>8, <2>2, <3>1, <3>2, <3>3, <3>4 DEF WriteOK
  <2> QED BY <2>1, <2>2
<1>11. ASSUME NEW q \in Reqs, t.req[q].op = "read" PROVE ReadOK(t, c, n2, q)
  <2>1. CASE q = r
    BY <1>11, <2>1 DEF ReadOK, Submits
  <2>2. CASE q # r
    <3>1. ReadOK(s, c, n, q) /\ t.req[q] = s.req[q] /\ n2[q] = n[q]
      BY <1>1, <1>4, <1>11, <2>2 DEF History
    <3> QED BY <1>8, <2>2, <3>1 DEF ReadOK
  <2> QED BY <2>1, <2>2
<1>12. ASSUME NEW io \in t.aio PROVE IoHist(t, d, c, n2, io)
  <2>1. io \in s.aio /\ IoHist(s, d, c, n, io) /\ io.blk \in Blocks /\ io.req # r
        /\ (io.op \in Data => io.req \in Reqs)
    BY <1>1, <1>2, IoField DEF History, Loose, Data
  <2>2. io.op \in Data => s.req[io.req].sec \in Sectors /\ t.req[io.req] = s.req[io.req] /\ n2[io.req] = n[io.req]
    BY <1>1, <1>4, <2>1, SecField
  <2>3. t.bm[io.blk].tx = s.bm[io.blk].tx /\ t.bm[io.blk].queue = s.bm[io.blk].queue
    BY <1>2, <2>1
  <2> QED BY <1>5, <1>6, <1>7, <2>1, <2>2, <2>3 DEF IoHist, Data
<1>13. t.up /\ c \in [Sectors -> SUBSET Values]
  BY <1>1 DEF View, History
<1>14. GoodOK(t, d, c) /\ ParentOK(t, d, c)
  <2>1. ParentOK(t, d, c)
    BY <1>1, <1>6 DEF ParentOK, History
  <2>2. GoodOK(t, d, c)
    <3>1. \A b \in Blocks : Own(t, d, b) = Own(s, d, b)
      BY <1>1, ViewSame
    <3>2. \A b \in Blocks : Zeroed(t, b) <=> Zeroed(s, b)
      BY <1>2 DEF Zeroed
    <3>3. \A x \in Sectors : blk_of(x) \in Blocks
      BY Geometry
    <3>4. \A b \in Blocks : t.bm[b].map = s.bm[b].map /\ t.bm[b].shadow = s.bm[b].shadow
                            /\ t.bm[b].rd = s.bm[b].rd
      BY <1>1 DEF View
    <3>5. GoodOK(s, d, c)
      BY <1>1 DEF History
    <3> QED BY ONLY <1>7, <3>1, <3>2, <3>3, <3>4, <3>5 DEF GoodOK
  <2> QED BY <2>1, <2>2
<1> QED BY <1>3, <1>9, <1>10, <1>11, <1>12, <1>13, <1>14 DEF FH, History

(* The driver queues I/O and changes no request.                            *)
Queues(s, t, d, c) ==
  /\ View(s, t) /\ t.req = s.req /\ t.batmap = s.batmap /\ t.bat_tx = s.bat_tx /\ s.aio \subseteq t.aio
  /\ \A b \in Blocks :
       /\ t.bm[b].tx.upd = s.bm[b].tx.upd /\ t.bm[b].tx.err = s.bm[b].tx.err
       /\ \A r \in Reqs : r \in s.bm[b].tx.reqs \cup s.bm[b].queue
                            => r \in t.bm[b].tx.reqs \cup t.bm[b].queue
  /\ \A io \in t.aio : io \notin s.aio =>
       /\ ~io.landed /\ io.op # "bat"
       /\ io.op = "data_read" => Good(s, d, c, s.req[io.req].sec)
       /\ io.op = "data_write" => Listed(t, io) \/ Set(s, d, s.req[io.req].sec)

LEMMA QueueHist ==
  ASSUME NEW s, NEW t, NEW h, NEW k, NEW h2, NEW k2, NEW d, NEW c, NEW n, NEW g,
         Driver(s, h, k), Driver(t, h2, k2), FH(s, d, c, n, g), Queues(s, t, d, c)
  PROVE  FH(t, d, c, n, g)
<1>1. s \in VhdState /\ t \in VhdState /\ View(s, t) /\ FileOK(s, d) /\ s.up /\ History(s, d, c, n, g)
      /\ t.req = s.req
  BY DEF Driver, Queues, FH
<1>2. FileOK(t, d)
  <2>1. t.batmap = s.batmap
    BY DEF Queues
  <2>2. \A b \in Blocks : t.bm[b].tx.upd /\ t.bat_tx /\ t.bm[b].tx.err = "ok"
                             => s.bm[b].tx.upd /\ s.bat_tx /\ s.bm[b].tx.err = "ok"
    BY DEF Queues
  <2>3. \A io \in t.aio : io \in s.aio \/ (~io.landed /\ (io.op = "bat" => d.bat[io.blk] = DD_BLK_UNUSED))
    BY DEF Queues
  <2>4. \A io \in s.aio : io.op = "bat" => io \in t.aio
    BY DEF Queues
  <2> QED BY <1>1, <2>1, <2>2, <2>3, <2>4, FileFrame
<1>3. \A x \in Sectors : Set(t, d, x) <=> Set(s, d, x)
  BY <1>1, ViewSame
<1>4. \A x \in Sectors : Good(t, d, c, x) <=> Good(s, d, c, x)
  BY <1>1, ViewSame
<1>5. \A b \in Blocks : Own(t, d, b) = Own(s, d, b)
  BY <1>1, ViewSame
<1>6. GoodOK(t, d, c)
  <2>1. \A b \in Blocks : Zeroed(t, b) => Zeroed(s, b)
    BY DEF Zeroed, Queues
  <2>2. \A x \in Sectors : blk_of(x) \in Blocks
    BY Geometry
  <2>3. \A b \in Blocks : t.bm[b].map = s.bm[b].map /\ t.bm[b].shadow = s.bm[b].shadow
                          /\ t.bm[b].rd = s.bm[b].rd
    BY <1>1 DEF View
  <2>4. GoodOK(s, d, c)
    BY <1>1 DEF History
  <2> QED BY ONLY <1>4, <1>5, <2>1, <2>2, <2>3, <2>4 DEF GoodOK
<1>7. \A b \in Blocks : SlotKept(s, t, d, b)
  BY <1>5 DEF SlotKept
<1>8. \A r \in Reqs : ReqMoves(s, t, d, c, n, r)
  BY <1>1, <1>3, ReqRests
<1>9. ASSUME NEW io \in t.aio, io.op \in Data
      PROVE  \/ /\ io \in s.aio
                /\ Listed(s, io) => Listed(t, io) \/ io.op = "data_read"
                                                  \/ Set(t, d, t.req[io.req].sec)
             \/ /\ ~io.landed
                /\ io.op = "data_read" => Good(t, d, c, t.req[io.req].sec)
                /\ io.op = "data_write" => Listed(t, io) \/ Set(t, d, t.req[io.req].sec)
  <2>1. io.req \in Reqs /\ io.blk \in Blocks /\ s.req[io.req].sec \in Sectors
    BY <1>1, <1>9, IoField, SecField DEF Data
  <2>2. CASE io \in s.aio
    BY <2>1, <2>2 DEF Queues, Listed
  <2>3. CASE io \notin s.aio
    BY <1>1, <1>3, <1>4, <2>1, <2>3 DEF Queues
  <2> QED BY <2>2, <2>3
<1>10. History(t, d, c, n, g)
  BY <1>1, <1>3, <1>6, <1>7, <1>8, <1>9, HistStep
<1> QED BY <1>1, <1>2, <1>10 DEF FH, View

(* The request r is among the candidates, and a read that is under way may  *)
(* see it.                                                                  *)
grown(c, x, r)    == [c EXCEPT ![x] = @ \cup {r}]
widened(s, n, x, r) ==
  [q \in Reqs |-> IF q # r /\ q \in outstanding(s) /\ s.req[q].op = "read" /\ s.req[q].sec = x
                  THEN n[q] \cup {r} ELSE n[q]]

LEMMA GrowHist ==
  ASSUME NEW s \in VhdState, NEW d, NEW c, NEW n, NEW r \in Reqs, NEW x, NEW c2, NEW n2,
         \A io \in s.aio : IoOK(s, io),
         History(s, d, c, n, r), s.req[r].op = "write", r \in outstanding(s), x = s.req[r].sec,
         c2 = grown(c, x, r), n2 = widened(s, n, x, r)
  PROVE  History(s, d, c2, n2, NoReq)
<1>1. c \in [Sectors -> SUBSET Values] /\ n \in [Reqs -> SUBSET Values] /\ x \in Sectors /\ r \in Values
  BY SecField DEF History, Values
<1>2. c2 \in [Sectors -> SUBSET Values] /\ c2[x] = c[x] \cup {r} /\ \A y \in Sectors : y # x => c2[y] = c[y]
  BY <1>1 DEF grown
<1>3. n2 \in [Reqs -> SUBSET Values]
  BY <1>1 DEF widened
<1>4. \A q \in Reqs : s.req[q].op = "write" => n2[q] = n[q]
  BY DEF widened
<1>5. \A q \in Reqs : n[q] \subseteq n2[q]
  BY DEF widened
<1>6. \A y \in Sectors : c[y] \subseteq c2[y]
  BY <1>2
<1>7. CandOK(s, c2)
  <2>1. accepted(s.req[r])
    BY DEF accepted, outstanding
  <2>2. CandOK(s, c)
    BY DEF History
  <2> QED BY <1>2, <2>1, <2>2 DEF CandOK
<1>8. \A y \in Sectors : Good(s, d, c, y) => Good(s, d, c2, y)
  BY <1>6 DEF Good
<1>9. GoodOK(s, d, c2)
  BY <1>8 DEF GoodOK, History
<1>10. ParentOK(s, d, c2)
  BY <1>6 DEF ParentOK, History
<1>11. \A q \in Reqs : s.req[q].op = "write" /\ Fresh(s, d, c, n, q) => Fresh(s, d, c2, n2, q)
  <2> SUFFICES ASSUME NEW q \in Reqs, s.req[q].op = "write", Fresh(s, d, c, n, q) PROVE Fresh(s, d, c2, n2, q)
    OBVIOUS
  <2>1. s.req[q].sec \in Sectors /\ n2[q] = n[q]
    BY <1>4, SecField
  <2> QED BY <1>6, <2>1 DEF Fresh
<1>12. ASSUME NEW q \in Reqs, s.req[q].op = "write" PROVE WriteOK(s, d, c2, n2, q, NoReq)
  <2>1. WriteOK(s, d, c, n, q, r) /\ n2[q] = n[q] /\ s.req[q].sec \in Sectors
    BY <1>4, <1>12, SecField DEF History
  <2> QED BY <1>2, <1>6, <1>11, <1>12, <2>1 DEF WriteOK
<1>13. ASSUME NEW q \in Reqs, s.req[q].op = "read" PROVE ReadOK(s, c2, n2, q)
  <2>1. ReadOK(s, c, n, q) /\ s.req[q].sec \in Sectors /\ q # r /\ n[q] \subseteq n2[q]
    BY <1>5, <1>13, SecField DEF History
  <2>2. ASSUME q \in outstanding(s) PROVE c2[s.req[q].sec] \subseteq n2[q]
    <3>1. CASE s.req[q].sec = x
      <4>1. n2[q] = n[q] \cup {r}
        BY <1>13, <2>1, <2>2, <3>1 DEF widened
      <4> QED BY <1>2, <2>1, <2>2, <3>1, <4>1 DEF ReadOK
    <3>2. CASE s.req[q].sec # x
      BY <1>2, <2>1, <2>2, <3>2 DEF ReadOK
    <3> QED BY <3>1, <3>2
  <2> QED BY <2>1, <2>2 DEF ReadOK
<1>14. ASSUME NEW io \in s.aio PROVE IoHist(s, d, c2, n2, io)
  <2>1. IoHist(s, d, c, n, io) /\ (io.op \in Data => io.req \in Reqs)
    BY IoField DEF History, Data
  <2>2. io.op \in Data => s.req[io.req].sec \in Sectors /\ n[io.req] \subseteq n2[io.req]
    BY <1>5, <2>1, SecField
  <2>3. CASE io.op = "data_read"
    BY <1>8, <2>1, <2>2, <2>3 DEF IoHist, Data
  <2>4. CASE io.op = "data_write"
    <3>1. io.landed => Fresh(s, d, c2, n2, io.req)
      <4>1. SUFFICES ASSUME io.landed PROVE Fresh(s, d, c2, n2, io.req)
        OBVIOUS
      <4>2. Fresh(s, d, c, n, io.req) /\ io.req \in Reqs /\ s.req[io.req].sec \in Sectors
        BY <2>1, <2>2, <2>4, <4>1 DEF IoHist, Data
      <4>3. s.req[io.req].op = "write"
        BY <2>4 DEF IoOK
      <4> QED BY <1>11, <4>2, <4>3
    <3> QED BY <2>1, <2>4, <3>1 DEF IoHist
  <2> QED BY <2>1, <2>3, <2>4 DEF IoHist
<1> QED BY <1>2, <1>3, <1>7, <1>9, <1>10, <1>12, <1>13, <1>14 DEF History

(* A bitmap that no transaction uses comes or goes.                         *)
LEMMA TurnRest ==
  ASSUME NEW s, NEW t, NEW b \in Blocks, NEW h, NEW d, NEW c, NEW n, NEW g,
         Driver(s, h, NoBlock), Driver(t, h, NoBlock), FH(s, d, c, n, g), Turns(s, t, b, d), t.req = s.req,
         t.bm[b].rd \/ t.bm[b].shadow = t.bm[b].map,
         s.bm[b].tx = init_tx, s.bm[b].queue = {},
         \A io \in t.aio : io.op \in Data => io \in s.aio
  PROVE  FH(t, d, c, n, g)
<1>1. s \in VhdState /\ t \in VhdState /\ FileOK(s, d) /\ s.up /\ History(s, d, c, n, g)
  BY DEF Driver, FH
<1>2. \A x \in Sectors : Set(s, d, x) => Set(t, d, x)
  BY <1>1, TurnFile
<1>3. \A r \in Reqs : ReqMoves(s, t, d, c, n, r)
  BY <1>1, <1>2, ReqRests
<1>4. ASSUME NEW io \in t.aio, io.op \in Data PROVE io \in s.aio /\ (Listed(s, io) => Listed(t, io))
  <2>1. io \in s.aio /\ io.blk \in Blocks
    BY <1>1, <1>4, IoField
  <2>2. io.blk = b => ~Listed(s, io)
    BY InitBm DEF Listed
  <2>3. io.blk # b => t.bm[io.blk] = s.bm[io.blk]
    BY <2>1 DEF Turns
  <2> QED BY <2>1, <2>2, <2>3 DEF Listed
<1> QED BY <1>3, <1>4, TurnHist

LEMMA EvictHist ==
  ASSUME NEW s, NEW t, NEW h, NEW v \in s.cached, NEW d, NEW c, NEW n, NEW g,
         Driver(s, h, NoBlock), ~s.bm[v].locked, t = evict(s, v), FH(s, d, c, n, g)
  PROVE  Driver(t, h, NoBlock) /\ FH(t, d, c, n, g)
<1>1. s \in VhdState /\ v \in Blocks
  BY DEF Driver, VhdState
<1>2. Driver(t, h, NoBlock)
  BY EvictDriver
<1>3. /\ SameBat(s, t) /\ t.up = s.up /\ t.batmap = s.batmap /\ t.aio = s.aio /\ t.req = s.req
      /\ t.cached = s.cached \ {v} /\ t.bm[v] = init_vhd_bitmap
      /\ \A x \in Blocks : x # v => t.bm[x] = s.bm[x]
  BY <1>1, EvictEffect
<1>4. s.bm[v].tx = init_tx /\ ~s.bm[v].rd /\ ~s.bm[v].wr /\ s.bm[v].queue = {}
  BY <1>1, Idle
<1>5. Turns(s, t, v, d)
  <2>1. \A i \in t.aio : i.blk = v /\ i.landed => i.op # "bitmap_read" /\ i.op # "bitmap_write"
    BY <1>3, <1>4 DEF Driver, IoOK
  <2> QED BY <1>3, <2>1, InitBm DEF Turns
<1>6. t.bm[v].shadow = t.bm[v].map
  BY <1>3, InitBm
<1> QED BY <1>1, <1>2, <1>3, <1>4, <1>5, <1>6, TurnRest

(* alloc_vhd_bitmap has made room for the bitmap of b.                      *)
Room(s, u, t, b, h, d, c, n, g) ==
  /\ Driver(u, h, NoBlock) /\ FH(u, d, c, n, g) /\ Installs(u, t, b, FREE_BITMAP)
  /\ b \notin u.cached /\ Cardinality(u.cached) < CacheSize
  /\ SameBat(s, u) /\ u.up = s.up /\ u.prealloc = s.prealloc /\ u.batmap = s.batmap
  /\ u.aio = s.aio /\ u.req = s.req /\ u.vfree = s.vfree

LEMMA MakeRoom ==
  ASSUME NEW s, NEW h, NEW b \in Blocks, NEW v, NEW t, NEW d, NEW c, NEW n, NEW g,
         Driver(s, h, NoBlock), b \notin s.cached, Evictable(s, v),
         t = install_bitmap(s, b, v), FH(s, d, c, n, g)
  PROVE  \E u : Room(s, u, t, b, h, d, c, n, g)
<1>1. s \in VhdState /\ t \in VhdState /\ Installs(s, t, b, v)
  BY InstallType, InstallEffect DEF Driver
<1>2. CASE v = FREE_BITMAP /\ Cardinality(s.cached) < CacheSize
  <2>1. Room(s, s, t, b, h, d, c, n, g)
    BY <1>1, <1>2 DEF Room, SameBat
  <2> QED BY <2>1
<1>3. CASE v \in s.cached /\ ~s.bm[v].locked
  <2> DEFINE u == evict(s, v)
  <2>1. v \in Blocks /\ v # b
    BY <1>1, <1>3 DEF VhdState
  <2>2. Driver(u, h, NoBlock) /\ u \in VhdState /\ FH(u, d, c, n, g)
    BY <1>3, EvictHist DEF Driver
  <2>3. /\ SameBat(s, u) /\ u.up = s.up /\ u.prealloc = s.prealloc /\ u.batmap = s.batmap
        /\ u.aio = s.aio /\ u.req = s.req /\ u.vfree = s.vfree
        /\ u.cached = s.cached \ {v} /\ u.bm[v] = init_vhd_bitmap
        /\ \A x \in Blocks : x # v => u.bm[x] = s.bm[x]
    BY <1>1, <2>1, EvictEffect
  <2> HIDE DEF u
  <2>4. Cardinality(u.cached) < CacheSize
    <3>1. Cardinality(u.cached) = Cardinality(s.cached) - 1
      BY <1>1, <1>3, <2>3, CachedFinite, FS_RemoveElement
    <3>2. Cardinality(s.cached) \in Nat /\ CacheSize \in Nat /\ Cardinality(s.cached) <= CacheSize
      BY <1>1, CachedFinite, ConstantsAssumption DEF Driver, CountOK
    <3> QED BY <3>1, <3>2
  <2>5. b \notin u.cached
    BY <2>3
  <2>6. FREE_BITMAP \notin u.cached /\ FREE_BITMAP \notin Blocks
    BY <2>2 DEF FREE_BITMAP, VhdState, Blocks
  <2>7. SameBat(u, t)
    BY <1>1, <2>3 DEF SameBat, Installs
  <2>8. Installs(u, t, b, FREE_BITMAP)
    BY <1>1, <2>1, <2>3, <2>6, <2>7 DEF Installs
  <2>9. Room(s, u, t, b, h, d, c, n, g)
    BY <2>2, <2>3, <2>4, <2>5, <2>8 DEF Room
  <2> QED BY <2>9
<1> QED BY <1>2, <1>3 DEF Evictable

LEMMA RoomEffect ==
  ASSUME NEW u \in VhdState, NEW t, NEW b \in Blocks, Installs(u, t, b, FREE_BITMAP)
  PROVE  /\ SameBat(u, t) /\ t.up = u.up /\ t.prealloc = u.prealloc /\ t.batmap = u.batmap
         /\ t.aio = u.aio /\ t.req = u.req /\ t.vfree = u.vfree
         /\ t.cached = u.cached \cup {b} /\ t.bm[b] = init_vhd_bitmap
         /\ \A x \in Blocks : x # b => t.bm[x] = u.bm[x]
<1>1. FREE_BITMAP \notin u.cached /\ FREE_BITMAP \notin Blocks
  BY DEF FREE_BITMAP, VhdState, Blocks
<1> QED BY <1>1 DEF Installs

(* The bitmap of a block that has no slot yet enters the cache.             *)
LEMMA InstallHist ==
  ASSUME NEW s, NEW h, NEW b \in Blocks, NEW v, NEW t, NEW d, NEW c, NEW n, NEW g,
         Driver(s, h, NoBlock), b \notin s.cached, s.bat[b] = DD_BLK_UNUSED, Evictable(s, v),
         t = install_bitmap(s, b, v), FH(s, d, c, n, g)
  PROVE  /\ Driver(t, h, NoBlock) /\ FH(t, d, c, n, g) /\ b \in t.cached
         /\ SameBat(s, t) /\ t.prealloc = s.prealloc /\ t.req = s.req /\ t.vfree = s.vfree
<1>1. PICK u : Room(s, u, t, b, h, d, c, n, g)
  BY MakeRoom
<1>2. u \in VhdState /\ t \in VhdState /\ Driver(u, h, NoBlock) /\ FH(u, d, c, n, g)
      /\ Installs(u, t, b, FREE_BITMAP) /\ b \notin u.cached /\ Cardinality(u.cached) < CacheSize
  BY <1>1, InstallType DEF Room, Driver
<1>3. /\ SameBat(u, t) /\ t.up = u.up /\ t.prealloc = u.prealloc /\ t.batmap = u.batmap
      /\ t.aio = u.aio /\ t.req = u.req /\ t.vfree = u.vfree
      /\ t.cached = u.cached \cup {b} /\ t.bm[b] = init_vhd_bitmap
      /\ \A x \in Blocks : x # b => t.bm[x] = u.bm[x]
  BY <1>2, RoomEffect
<1>4. u.bat[b] = DD_BLK_UNUSED
  BY <1>1 DEF Room, SameBat
<1>5. BlkOK(u, b, NoBlock)
  BY <1>2 DEF Driver
<1>6. u.bm[b] = init_vhd_bitmap /\ b \notin u.batmap
  BY <1>2, <1>4, <1>5 DEF BlkOK
<1>7. Driver(t, h, NoBlock)
  BY <1>2, <1>6, AdmitDriver
<1>8. Turns(u, t, b, d)
  <2>1. \A i \in t.aio : i.blk = b /\ i.landed => i.op # "bitmap_read" /\ i.op # "bitmap_write"
    BY <1>2, <1>3, <1>6, InitBm DEF Driver, IoOK
  <2> QED BY <1>3, <1>4, <2>1, InitBm DEF Turns
<1>9. FH(t, d, c, n, g)
  <2>1. t.bm[b].shadow = t.bm[b].map /\ u.bm[b].tx = init_tx /\ u.bm[b].queue = {}
    BY <1>3, <1>6, InitBm
  <2> QED BY <1>2, <1>3, <1>7, <1>8, <2>1, TurnRest
<1>10. /\ SameBat(s, t) /\ t.prealloc = s.prealloc /\ t.req = s.req /\ t.vfree = s.vfree
  BY <1>1, <1>3 DEF Room, SameBat
<1> QED BY <1>3, <1>7, <1>9, <1>10

(* The read of a bitmap is scheduled.                                       *)
LEMMA BitmapReadHist ==
  ASSUME NEW s, NEW b \in Blocks, NEW v, NEW i, NEW t \in VhdState, NEW d, NEW c, NEW n, NEW g,
         Driver(s, NoReq, NoBlock), b \notin s.cached, b \notin s.batmap, s.bat[b] # DD_BLK_UNUSED,
         Evictable(s, v), i = install_bitmap(s, b, v), ReadsBitmap(i, t, b), FH(s, d, c, n, g)
  PROVE  /\ Driver(t, NoReq, NoBlock) /\ FH(t, d, c, n, g) /\ t.bm[b].rd /\ t.req = s.req /\ t.vfree = s.vfree
<1>1. PICK u : Room(s, u, i, b, NoReq, d, c, n, g)
  BY MakeRoom
<1>2. u \in VhdState /\ i \in VhdState /\ Driver(u, NoReq, NoBlock) /\ FH(u, d, c, n, g)
      /\ Installs(u, i, b, FREE_BITMAP) /\ b \notin u.cached /\ Cardinality(u.cached) < CacheSize
  BY <1>1, InstallType DEF Room, Driver
<1>3. /\ SameBat(u, i) /\ i.up = u.up /\ i.prealloc = u.prealloc /\ i.batmap = u.batmap
      /\ i.aio = u.aio /\ i.req = u.req /\ i.vfree = u.vfree
      /\ i.cached = u.cached \cup {b} /\ i.bm[b] = init_vhd_bitmap
      /\ \A x \in Blocks : x # b => i.bm[x] = u.bm[x]
  BY <1>2, RoomEffect
<1>4. u.bat[b] # DD_BLK_UNUSED /\ b \notin u.batmap /\ i.bat[b] # DD_BLK_UNUSED
  BY <1>1, <1>3 DEF Room, SameBat
<1>5. u.bm[b] = init_vhd_bitmap
  BY <1>2 DEF Driver, BlkOK
<1>6. Driver(i, NoReq, NoBlock)
  BY <1>2, <1>4, AdmitDriver
<1>7. Driver(t, NoReq, NoBlock)
  BY <1>3, <1>4, <1>6, BitmapReadDriver
<1>8. /\ SameBat(i, t) /\ t.up = i.up /\ t.batmap = i.batmap
      /\ t.cached = i.cached /\ \A x \in Blocks : x # b => t.bm[x] = i.bm[x]
      /\ t.req = i.req /\ t.vfree = i.vfree
  BY DEF ReadsBitmap, OnlyBlk
<1>9. t.bm[b].rd /\ t.bm[b].tx = init_tx
  BY InitBm DEF ReadsBitmap, init_vhd_bitmap
<1>10. /\ \A io \in t.aio : io \in u.aio \/ (~io.landed /\ io.op = "bitmap_read")
       /\ \A io \in u.aio : io \in t.aio
  BY <1>3 DEF ReadsBitmap
<1>11. Turns(u, t, b, d)
  <2>1. \A io \in t.aio : io.blk = b /\ io.landed => io.op # "bitmap_read" /\ io.op # "bitmap_write"
    BY <1>2, <1>5, <1>10, InitBm DEF Driver, IoOK
  <2>2. SameBat(u, t)
    BY <1>3, <1>8 DEF SameBat
  <2> QED BY <1>3, <1>8, <1>9, <1>10, <2>1, <2>2, InitBm DEF Turns
<1>12. FH(t, d, c, n, g)
  <2>1. u.bm[b].tx = init_tx /\ u.bm[b].queue = {}
    BY <1>5, InitBm
  <2>2. \A io \in t.aio : io.op \in Data => io \in u.aio
    BY <1>10 DEF Data
  <2> QED BY <1>2, <1>3, <1>7, <1>8, <1>9, <1>11, <2>1, <2>2, TurnRest
<1>13. t.req = s.req /\ t.vfree = s.vfree
  BY <1>1, <1>3, <1>8 DEF Room
<1> QED BY <1>7, <1>9, <1>12, <1>13

(* What the file and the history see of an allocation: the block b gets the *)
(* next slot, and the I/O j is queued.                                      *)
Claims(s, t, b, j) ==
  /\ t.up = s.up /\ t.batmap = s.batmap /\ t.cached = s.cached /\ t.req = s.req /\ t.bat = s.bat
  /\ \A x \in Blocks : x # b => t.bm[x] = s.bm[x]
  /\ t.locked /\ t.pbw_blk = b /\ t.pbw_offset = s.next_db /\ ~t.bat_tx
  /\ t.bm[b].map = s.bm[b].map /\ t.bm[b].shadow = s.bm[b].shadow /\ t.bm[b].rd = s.bm[b].rd
  /\ t.aio = s.aio \cup {j}
  /\ j.blk = b /\ ~j.landed /\ j.op \in {"zero_bm", "bat"}

new_io(op, b, q, x) == [op |-> op, blk |-> b, req |-> q, slot |-> x, landed |-> FALSE]

LEMMA AllocClaims ==
  ASSUME NEW s \in VhdState, NEW t, NEW b \in Blocks, NEW op \in {"zero_bm", "bat"}, NEW q, NEW j,
         Allocates(s, t, b, op, q), j = new_io(op, b, q, s.next_db)
  PROVE  Claims(s, t, b, j) /\ j.op = op
<1>1. j.op = op /\ j.blk = b /\ ~j.landed /\ t.aio = s.aio \cup {j}
  BY DEF Allocates, new_io
<1>2. s.bm[b] \in Bitmap
  BY BmField
<1>3. t.bm[b].map = s.bm[b].map /\ t.bm[b].shadow = s.bm[b].shadow /\ t.bm[b].rd = s.bm[b].rd
  BY <1>2 DEF Allocates, Bitmap
<1>4. /\ t.up = s.up /\ t.batmap = s.batmap /\ t.cached = s.cached /\ t.req = s.req /\ t.bat = s.bat
      /\ \A x \in Blocks : x # b => t.bm[x] = s.bm[x]
      /\ t.locked /\ t.pbw_blk = b /\ t.pbw_offset = s.next_db /\ ~t.bat_tx
  BY DEF Allocates
<1> QED BY <1>1, <1>3, <1>4 DEF Claims

(* With the lock on the BAT free, the file has the driver's BAT.            *)
LEMMA UnlockedBat ==
  ASSUME NEW s, NEW d, NEW h, NEW k, Driver(s, h, k), FileBat(s, d), s.up, ~s.locked
  PROVE  /\ \A x \in Blocks : d.bat[x] = s.bat[x] /\ Own(s, d, x) = s.bat[x] /\ ~Mine(s, x)
         /\ \A io \in s.aio : io.op # "bat" /\ io.op # "zero_bm"
<1>1. \A x \in Blocks : ~Mine(s, x)
  BY DEF Mine
<1>2. \A x \in Blocks : d.bat[x] = s.bat[x]
  BY <1>1 DEF FileBat
<1>3. s \in VhdState
  BY DEF Driver
<1>4. \A io \in s.aio : io.op # "bat" /\ io.op # "zero_bm"
  BY <1>1, <1>3, IoField DEF Driver, IoOK
<1> QED BY <1>1, <1>2, <1>4 DEF Own

LEMMA ClaimFile ==
  ASSUME NEW s, NEW t \in VhdState, NEW h, NEW b \in Blocks, NEW j, NEW d,
         Driver(s, h, NoBlock), FileOK(s, d), s.up, ~s.locked, s.bat[b] = DD_BLK_UNUSED,
         Claims(s, t, b, j)
  PROVE  FileOK(t, d)
<1>1. s \in VhdState /\ FileBat(s, d) /\ FileMap(s, d) /\ d \in DiskState
  BY DEF Driver, FileOK, FileBat
<1>2. /\ \A x \in Blocks : d.bat[x] = s.bat[x] /\ ~Mine(s, x)
      /\ \A io \in s.aio : io.op # "bat" /\ io.op # "zero_bm"
  BY <1>1, UnlockedBat
<1>3. \A io \in s.aio : io.blk # b /\ io.blk \in Blocks
  BY <1>1, <1>2, NoSlotNoIO, IoField
<1>4. FileBat(t, d)
  <2>1. t.up /\ t.bat = s.bat /\ t.batmap = s.batmap
    BY DEF Claims
  <2>2. \A io \in t.aio : io.op = "bat" =>
           d.bat[io.blk] = IF io.landed THEN t.pbw_offset ELSE DD_BLK_UNUSED
    BY <1>2 DEF Claims
  <2> QED BY <1>1, <1>2, <2>1, <2>2 DEF FileBat
<1>5. FileMap(t, d)
  <2>1. t.batmap = s.batmap /\ t.bat = s.bat /\ t.cached = s.cached /\ ~t.bat_tx
    BY DEF Claims
  <2>2. \A x \in Blocks : x # b => t.bm[x] = s.bm[x]
    BY DEF Claims
  <2>3. \A x \in t.batmap \cup d.batmap : d.map[d.bat[x]] = Secs
    BY <1>1, <2>1 DEF FileMap
  <2>4. \A x \in Blocks : x \in t.cached /\ ~t.bm[x].rd /\ t.bat[x] # DD_BLK_UNUSED
                           => t.bm[x].map \subseteq d.map[t.bat[x]]
    BY <1>1, <2>1, <2>2 DEF FileMap
  <2>5. \A io \in t.aio : io.landed => io \in s.aio /\ t.bm[io.blk] = s.bm[io.blk]
    BY <1>3, <2>2 DEF Claims
  <2>6. \A io \in t.aio : io.landed =>
       /\ io.op = "bitmap_read" => t.bm[io.blk].map = d.map[io.slot]
       /\ io.op = "bitmap_write" => t.bm[io.blk].shadow \subseteq d.map[io.slot]
       /\ io.op = "zero_bm" => d.map[io.slot] = {}
    BY <1>1, <2>5 DEF FileMap
  <2> QED BY <2>1, <2>3, <2>4, <2>6 DEF FileMap
<1> QED BY <1>4, <1>5 DEF FileOK

LEMMA ClaimHist ==
  ASSUME NEW s, NEW t \in VhdState, NEW h, NEW b \in Blocks, NEW j, NEW d, NEW c, NEW n, NEW g,
         Driver(s, h, NoBlock), FH(s, d, c, n, g), ~s.locked, s.bat[b] = DD_BLK_UNUSED,
         s.next_db \in Slots, j.op = "bat" => d.map[s.next_db] = {}, Claims(s, t, b, j)
  PROVE  FH(t, d, c, n, g)
<1>1. /\ s \in VhdState /\ s.up /\ FileOK(s, d) /\ History(s, d, c, n, g) /\ FileBat(s, d)
      /\ d \in DiskState
  BY DEF Driver, FH, FileOK, FileBat
<1>2. /\ \A x \in Blocks : d.bat[x] = s.bat[x] /\ Own(s, d, x) = s.bat[x] /\ ~Mine(s, x)
      /\ \A io \in s.aio : io.op # "bat" /\ io.op # "zero_bm"
  BY <1>1, UnlockedBat
<1>3. \A io \in s.aio : io.blk # b /\ io.blk \in Blocks
  BY <1>1, <1>2, NoSlotNoIO, IoField
<1>4. s.bm[b].map = {} /\ s.bm[b].shadow = {}
  BY <1>2, NoSlotNoIO
<1>5. /\ t.up = s.up /\ t.cached = s.cached /\ t.req = s.req /\ t.bat = s.bat
      /\ \A x \in Blocks : x # b => t.bm[x] = s.bm[x]
      /\ t.bm[b].shadow = {}
      /\ t.aio = s.aio \cup {j} /\ j.blk = b /\ ~j.landed /\ j.op \in {"zero_bm", "bat"}
  BY <1>4 DEF Claims
<1>6. /\ \A x \in Blocks : x # b => Own(t, d, x) = Own(s, d, x)
      /\ Own(s, d, b) = DD_BLK_UNUSED /\ Own(t, d, b) = s.next_db
  <2>1. \A x \in Blocks : Mine(t, x) <=> x = b
    BY DEF Claims, Mine
  <2>2. t.pbw_offset = s.next_db
    BY DEF Claims
  <2> QED BY <1>2, <2>1, <2>2 DEF Own
<1>7. \A x \in Sectors : blk_of(x) \in Blocks
  BY Geometry
<1>8. \A x \in Sectors : Set(t, d, x) <=> Set(s, d, x)
  <2> SUFFICES ASSUME NEW x \in Sectors PROVE Set(t, d, x) <=> Set(s, d, x)
    OBVIOUS
  <2>1. CASE blk_of(x) = b
    BY <1>2, <2>1 DEF Set
  <2>2. CASE blk_of(x) # b
    BY <1>5, <1>7, <2>2 DEF Set
  <2> QED BY <2>1, <2>2
<1>9. \A x \in Sectors : blk_of(x) # b => (Good(t, d, c, x) <=> Good(s, d, c, x))
  BY <1>6, <1>7 DEF Good
<1>10. ASSUME NEW r \in Reqs, Fresh(s, d, c, n, r) PROVE Fresh(t, d, c, n, r)
  <2>1. blk_of(s.req[r].sec) \in Blocks
    BY <1>1, ReqField
  <2>2. Own(s, d, blk_of(s.req[r].sec)) # DD_BLK_UNUSED
    BY <1>10 DEF Fresh
  <2>3. Own(t, d, blk_of(s.req[r].sec)) = Own(s, d, blk_of(s.req[r].sec))
    BY <1>6, <2>1, <2>2
  <2> QED BY <1>5, <1>10, <2>3 DEF Fresh
<1>11. outstanding(t) = outstanding(s)
  BY <1>5 DEF outstanding
<1>12. GoodOK(t, d, c)
  <2> SUFFICES ASSUME NEW x \in Sectors
               PROVE  /\ /\ Own(t, d, blk_of(x)) # DD_BLK_UNUSED /\ Zeroed(t, blk_of(x))
                         /\ sec_of(x) \in d.map[Own(t, d, blk_of(x))]
                         => Good(t, d, c, x)
                      /\ /\ sec_of(x) \in t.bm[blk_of(x)].shadow
                         /\ sec_of(x) \notin t.bm[blk_of(x)].map /\ ~t.bm[blk_of(x)].rd
                         => Own(t, d, blk_of(x)) # DD_BLK_UNUSED /\ Good(t, d, c, x)
    BY DEF GoodOK
  <2>1. CASE blk_of(x) = b
    <3>1. j.op = "zero_bm" => ~Zeroed(t, b)
      BY <1>5 DEF Zeroed
    <3>2. j.op = "bat" => sec_of(x) \notin d.map[Own(t, d, b)]
      BY <1>6
    <3> QED BY <1>5, <2>1, <3>1, <3>2
  <2>2. CASE blk_of(x) # b
    <3>1. Zeroed(t, blk_of(x)) => Zeroed(s, blk_of(x))
      BY <1>5, <2>2 DEF Zeroed
    <3>2. Own(t, d, blk_of(x)) = Own(s, d, blk_of(x)) /\ t.bm[blk_of(x)] = s.bm[blk_of(x)]
      BY <1>5, <1>6, <1>7, <2>2
    <3>3. Good(t, d, c, x) <=> Good(s, d, c, x)
      BY <1>9, <2>2
    <3>4. GoodOK(s, d, c)
      BY <1>1 DEF History
    <3> QED BY <3>1, <3>2, <3>3, <3>4 DEF GoodOK
  <2> QED BY <2>1, <2>2
<1>13. CandOK(t, c) /\ ParentOK(t, d, c)
  BY <1>1, <1>5, <1>8 DEF History, CandOK, ParentOK
<1>14. ASSUME NEW r \in Reqs, t.req[r].op = "write" PROVE WriteOK(t, d, c, n, r, g)
  <2>1. WriteOK(s, d, c, n, r, g) /\ s.req[r].sec \in Sectors
    BY <1>1, <1>5, <1>14, SecField DEF History
  <2> QED BY <2>1, <1>5, <1>8, <1>10, <1>11 DEF WriteOK
<1>15. \A r \in Reqs : t.req[r].op = "read" => ReadOK(t, c, n, r)
  BY <1>1, <1>5, <1>11 DEF History, ReadOK
<1>16. ASSUME NEW io \in t.aio PROVE IoHist(t, d, c, n, io)
  <2>1. CASE io \in s.aio
    <3>1. IoHist(s, d, c, n, io) /\ io.blk \in Blocks /\ io.blk # b
      BY <1>1, <1>3, <2>1 DEF History
    <3>2. io.op \in Data => io.req \in Reqs
      BY <1>1, <2>1, IoField DEF Data
    <3>3. io.op \in Data => s.req[io.req].sec \in Sectors /\ blk_of(s.req[io.req].sec) = io.blk
      BY <1>1, <2>1, <3>2, SecField DEF Driver, IoOK, Data
    <3>4. t.bm[io.blk] = s.bm[io.blk]
      BY <1>5, <3>1
    <3> QED BY <3>1, <3>2, <3>3, <3>4, <1>5, <1>8, <1>9, <1>10 DEF IoHist, Data
  <2>2. CASE io = j
    BY <1>5, <2>2 DEF IoHist
  <2> QED BY <1>5, <2>1, <2>2
<1>17. c \in [Sectors -> SUBSET Values] /\ n \in [Reqs -> SUBSET Values]
  BY <1>1 DEF History
<1>18. History(t, d, c, n, g)
  BY <1>12, <1>13, <1>14, <1>15, <1>16, <1>17 DEF History
<1>19. FileOK(t, d)
  BY <1>1, ClaimFile
<1> QED BY <1>1, <1>5, <1>18, <1>19 DEF FH

(* A block gets the next slot.                                              *)
LEMMA AllocHist ==
  ASSUME NEW s, NEW t \in VhdState, NEW h, NEW b \in Blocks, NEW op, NEW q, NEW d, NEW c, NEW n, NEW g,
         Driver(s, h, NoBlock), h \in Reqs => blk_of(s.req[h].sec) = b, FH(s, d, c, n, g),
         ~s.locked, b \in s.cached, s.bat[b] = DD_BLK_UNUSED, s.next_db \in Slots,
         \/ op = "zero_bm" /\ q = zero_req /\ ~s.prealloc
         \/ op = "bat" /\ q = bat_req /\ s.prealloc /\ d.map[s.next_db] = {},
         Allocates(s, t, b, op, q)
  PROVE  Driver(t, h, NoBlock) /\ FH(t, d, c, n, g)
<1>1. s \in VhdState
  BY DEF Driver
<1>2. op \in {"zero_bm", "bat"}
  OBVIOUS
<1> DEFINE j == new_io(op, b, q, s.next_db)
<1>3. Claims(s, t, b, j) /\ j.op = op
  BY <1>1, <1>2, AllocClaims
<1> HIDE DEF j
<1>4. FH(t, d, c, n, g)
  BY <1>3, ClaimHist
<1>5. Driver(t, h, NoBlock)
  BY AllocDriver
<1> QED BY <1>4, <1>5

(* allocate_block zeroes a slot that no block owns.                         *)
LEMMA ZeroedEffect ==
  ASSUME NEW d \in DiskState, NEW Z, NEW e, e = zeroed(d, Z)
  PROVE  /\ e \in DiskState /\ e.bat = d.bat /\ e.batmap = d.batmap
         /\ \A x \in Slots : x \notin Z => e.map[x] = d.map[x] /\ e.data[x] = d.data[x]
         /\ \A x \in Slots : x \in Z => e.map[x] = {}
<1>1. /\ e.bat = d.bat /\ e.batmap = d.batmap
      /\ e.map = [x \in Slots |-> IF x \in Z THEN {} ELSE d.map[x]]
      /\ e.data = [x \in Slots |-> IF x \in Z THEN [k \in Secs |-> Junk] ELSE d.data[x]]
      /\ e = [bat |-> e.bat, batmap |-> e.batmap, map |-> e.map, data |-> e.data]
  BY DEF zeroed, DiskState
<1>2. /\ d.bat \in [Blocks -> Entries] /\ d.batmap \in SUBSET Blocks
      /\ d.map \in [Slots -> SUBSET Secs] /\ d.data \in [Slots -> [Secs -> Values]]
  BY DEF DiskState
<1>3. [k \in Secs |-> Junk] \in [Secs -> Values]
  BY DEF Values
<1>4. e.map \in [Slots -> SUBSET Secs]
  BY <1>1, <1>2
<1>5. e.data \in [Slots -> [Secs -> Values]]
  BY <1>1, <1>2, <1>3
<1>6. e \in DiskState
  BY <1>1, <1>2, <1>4, <1>5 DEF DiskState
<1> QED BY <1>1, <1>6

LEMMA ZeroSlotHist ==
  ASSUME NEW s, NEW h, NEW d, NEW e, NEW c, NEW n, NEW g, NEW Z,
         Driver(s, h, NoBlock), FH(s, d, c, n, g), ~s.locked, Z \subseteq {s.next_db}, e = zeroed(d, Z)
  PROVE  FH(s, e, c, n, g)
<1>1. /\ s \in VhdState /\ s.up /\ FileBat(s, d) /\ FileMap(s, d) /\ History(s, d, c, n, g)
      /\ d \in DiskState
  BY DEF Driver, FH, FileOK, FileBat
<1>2. /\ \A x \in Blocks : d.bat[x] = s.bat[x] /\ Own(s, d, x) = s.bat[x] /\ ~Mine(s, x)
      /\ \A io \in s.aio : io.op # "bat" /\ io.op # "zero_bm"
  BY <1>1, UnlockedBat
<1>3. /\ e \in DiskState /\ e.bat = d.bat /\ e.batmap = d.batmap
      /\ \A x \in Slots : x \notin Z => e.map[x] = d.map[x] /\ e.data[x] = d.data[x]
  BY <1>1, ZeroedEffect
<1>4. \A x \in Blocks : s.bat[x] \notin Z
  <2>1. \A x \in Blocks : s.bat[x] < s.next_db /\ s.bat[x] \in Int
    BY <1>1, BatField, ConstantsAssumption DEF Driver, BatOK, Entries, Slots, DD_BLK_UNUSED
  <2> QED BY <1>1, <2>1 DEF VhdState
<1>5. \A x \in Blocks : s.bat[x] # DD_BLK_UNUSED =>
         s.bat[x] \in Slots /\ e.map[s.bat[x]] = d.map[s.bat[x]] /\ e.data[s.bat[x]] = d.data[s.bat[x]]
  BY <1>1, <1>3, <1>4, BatField DEF Entries
<1>6. \A x \in Blocks : Own(s, e, x) = Own(s, d, x)
  BY <1>3 DEF Own
<1>7. \A x \in Sectors : blk_of(x) \in Blocks
  BY Geometry
<1>8. FileBat(s, e)
  BY <1>1, <1>3 DEF FileBat
<1>9. FileMap(s, e)
  <2>1. \A x \in s.batmap \cup d.batmap : x \in Blocks /\ d.bat[x] # DD_BLK_UNUSED
    BY <1>1 DEF FileBat, VhdState, DiskState
  <2>2. \A x \in s.batmap \cup e.batmap : e.map[e.bat[x]] = Secs
    BY <1>1, <1>2, <1>3, <1>5, <2>1 DEF FileMap
  <2>3. \A x \in Blocks : x \in s.cached /\ ~s.bm[x].rd /\ s.bat[x] # DD_BLK_UNUSED
                           => s.bm[x].map \subseteq e.map[s.bat[x]]
    BY <1>1, <1>5 DEF FileMap
  <2>4. ~s.bat_tx
    BY DEF Driver, BatOK
  <2>5. \A io \in s.aio : io.slot \in Slots /\ io.slot \notin Z
    BY <1>1, <1>2, <1>4, SlotIsOwn, IoField
  <2>6. \A io \in s.aio : io.landed =>
       /\ io.op = "bitmap_read" => s.bm[io.blk].map = e.map[io.slot]
       /\ io.op = "bitmap_write" => s.bm[io.blk].shadow \subseteq e.map[io.slot]
       /\ io.op = "zero_bm" => e.map[io.slot] = {}
    BY <1>1, <1>3, <2>5 DEF FileMap
  <2> QED BY <2>2, <2>3, <2>4, <2>6 DEF FileMap
<1>10. \A x \in Sectors : Set(s, e, x) <=> Set(s, d, x)
  BY <1>2, <1>3, <1>5, <1>7 DEF Set
<1>11. \A x \in Sectors : Own(s, d, blk_of(x)) # DD_BLK_UNUSED => (Good(s, e, c, x) <=> Good(s, d, c, x))
  BY <1>2, <1>5, <1>6, <1>7 DEF Good
<1>12. ASSUME NEW r \in Reqs PROVE Fresh(s, e, c, n, r) <=> Fresh(s, d, c, n, r)
  <2>1. blk_of(s.req[r].sec) \in Blocks
    BY <1>1, ReqField
  <2> QED BY <1>2, <1>5, <1>6, <2>1 DEF Fresh
<1>13. GoodOK(s, e, c)
  <2>1. GoodOK(s, d, c)
    BY <1>1 DEF History
  <2> SUFFICES ASSUME NEW x \in Sectors
               PROVE  /\ /\ Own(s, e, blk_of(x)) # DD_BLK_UNUSED /\ Zeroed(s, blk_of(x))
                         /\ sec_of(x) \in e.map[Own(s, e, blk_of(x))]
                         => Good(s, e, c, x)
                      /\ /\ sec_of(x) \in s.bm[blk_of(x)].shadow
                         /\ sec_of(x) \notin s.bm[blk_of(x)].map /\ ~s.bm[blk_of(x)].rd
                         => Own(s, e, blk_of(x)) # DD_BLK_UNUSED /\ Good(s, e, c, x)
    BY DEF GoodOK
  <2>2. Own(s, e, blk_of(x)) = Own(s, d, blk_of(x)) /\ Own(s, d, blk_of(x)) = s.bat[blk_of(x)]
    BY <1>2, <1>6, <1>7
  <2>3. s.bat[blk_of(x)] # DD_BLK_UNUSED => e.map[s.bat[blk_of(x)]] = d.map[s.bat[blk_of(x)]]
    BY <1>5, <1>7
  <2> QED BY <1>11, <2>1, <2>2, <2>3 DEF GoodOK
<1>14. CandOK(s, c) /\ ParentOK(s, e, c)
  BY <1>1, <1>10 DEF History, ParentOK
<1>15. ASSUME NEW r \in Reqs, s.req[r].op = "write" PROVE WriteOK(s, e, c, n, r, g)
  <2>1. WriteOK(s, d, c, n, r, g) /\ s.req[r].sec \in Sectors
    BY <1>1, <1>15, SecField DEF History
  <2> QED BY <2>1, <1>10, <1>12 DEF WriteOK
<1>16. \A r \in Reqs : s.req[r].op = "read" => ReadOK(s, c, n, r)
  BY <1>1 DEF History
<1>17. ASSUME NEW io \in s.aio PROVE IoHist(s, e, c, n, io)
  <2>1. IoHist(s, d, c, n, io) /\ io.blk \in Blocks
    BY <1>1, IoField DEF History
  <2>2. io.op \in Data => io.req \in Reqs
    BY <1>1, IoField DEF Data
  <2>3. io.op \in Data => s.req[io.req].sec \in Sectors /\ blk_of(s.req[io.req].sec) = io.blk
    BY <1>1, <2>2, SecField DEF Driver, IoOK, Data
  <2>4. io.op = "data_read" => Own(s, d, io.blk) # DD_BLK_UNUSED
    BY <1>2, <2>1 DEF Driver, IoOK
  <2> QED BY <2>1, <2>2, <2>3, <2>4, <1>10, <1>11, <1>12 DEF IoHist, Data
<1>18. c \in [Sectors -> SUBSET Values] /\ n \in [Reqs -> SUBSET Values]
  BY <1>1 DEF History
<1>19. History(s, e, c, n, g)
  BY <1>13, <1>14, <1>15, <1>16, <1>17, <1>18 DEF History
<1> QED BY <1>1, <1>8, <1>9, <1>19 DEF FH, FileOK

-----------------------------------------------------------------------------
(* The entry points.  The request r that a client submits is first one that *)
(* the driver does not know (Offered), then one for which a vhd_request has *)
(* been taken (Held), and in the end on a list, in the aio layer or         *)
(* answered (Leaves).                                                       *)

Same(s, t, r) == OthersRest(s, t, r) /\ t.req[r].op = s.req[r].op /\ t.req[r].sec = s.req[r].sec

Asks(s, c, n, r) ==
  /\ NewTo(s, c, n, r)
  /\ s.req[r].op = "write" =>
       \A v \in n[r] : v \in Reqs => s.req[v].st = "done" /\ s.req[v].err # "EBUSY"
  /\ s.req[r].op = "read" => c[s.req[r].sec] \subseteq n[r]

Offered(s, d, c, n, r) ==
  /\ Driver(s, NoReq, NoBlock) /\ FH(s, d, c, n, r) /\ Loose(s, r) /\ Asks(s, c, n, r)
  /\ s.req[r].st = "free" /\ s.req[r].err = "ok"

Held(s, d, c, n, r) == Driver(s, r, NoBlock) /\ FH(s, d, c, n, r) /\ Asks(s, c, n, r)

Leaves(s, t, d, e, c, n, r) ==
  /\ Driver(t, NoReq, NoBlock) /\ FH(t, e, c, n, r) /\ Same(s, t, r) /\ e.bat = d.bat
  /\ t.req[r].st # "free"

LEMMA AsksKept ==
  ASSUME NEW s, NEW t, NEW c, NEW n, NEW r \in Reqs, Asks(s, c, n, r), Same(s, t, r)
  PROVE  Asks(t, c, n, r)
<1>1. /\ \A q \in Reqs : q # r => t.req[q] = s.req[q]
      /\ t.req[r].op = s.req[r].op /\ t.req[r].sec = s.req[r].sec
  BY DEF Same, OthersRest
<1>2. \A q \in Reqs : t.req[q].op = s.req[q].op
  BY <1>1
<1>3. NewTo(t, c, n, r)
  BY <1>2 DEF Asks, NewTo
<1>4. t.req[r].op = "write" => r \notin n[r]
  BY <1>3 DEF NewTo
<1> QED BY <1>1, <1>3, <1>4 DEF Asks

(* Nothing is known of a request but that a vhd_request is in use for it.   *)
LEMMA HeldLoose ==
  ASSUME NEW s, NEW r \in Reqs, Driver(s, r, NoBlock)
  PROVE  Loose(s, r) /\ s.req[r].st = "io" /\ s.req[r].err # "EBUSY"
<1>1. s \in VhdState /\ ReqOK(s, r, r) /\ \A b \in Blocks : MemOK(s, b)
  BY DEF Driver
<1>2. /\ s.req[r].st = "io" /\ s.req[r].err # "EBUSY" /\ \A io \in s.aio : io.req # r
      /\ r \notin s.bm[blk_of(s.req[r].sec)].tx.reqs \cup s.bm[blk_of(s.req[r].sec)].queue
  BY <1>1 DEF ReqOK
<1>3. ASSUME NEW b \in Blocks PROVE r \notin s.bm[b].waiting \cup s.bm[b].tx.reqs \cup s.bm[b].queue
  <2>1. r \notin s.bm[b].waiting
    BY <1>1, <1>2 DEF MemOK
  <2>2. r \in s.bm[b].tx.reqs \cup s.bm[b].queue => blk_of(s.req[r].sec) = b
    BY <1>1 DEF MemOK
  <2> QED BY <1>2, <2>1, <2>2
<1> QED BY <1>2, <1>3 DEF Loose

LEMMA OnlyReqQuiet ==
  ASSUME NEW s, NEW t, NEW r, OnlyReq(s, t, r)
  PROVE  Quiet(s, t) /\ OthersRest(s, t, r)
  BY DEF OnlyReq, Quiet, View, OthersRest, SameBat, Mine

LEMMA FHType ==
  ASSUME NEW s, NEW d, NEW c, NEW n, NEW g, FH(s, d, c, n, g)
  PROVE  n \in [Reqs -> SUBSET Values] /\ c \in [Sectors -> SUBSET Values] /\ d \in DiskState
  BY DEF FH, History, FileOK, FileBat

(* An answer that is given at once: a refusal, or what the parent image or  *)
(* the BAT says.                                                            *)
Answers(s, t, n, r) ==
  /\ t \in VhdState /\ OnlyReq(s, t, r) /\ t.req[r].st = "done"
  /\ t.req[r].op = s.req[r].op /\ t.req[r].sec = s.req[r].sec
  /\ s.req[r].op = "write" => t.req[r].err # "ok"
  /\ s.req[r].op = "read" /\ t.req[r].err = "ok" => t.req[r].val \in n[r]

LEMMA AnswerHist ==
  ASSUME NEW s, NEW t, NEW h, NEW d, NEW c, NEW n, NEW r \in Reqs,
         Driver(s, h, NoBlock), Loose(s, r), FH(s, d, c, n, r), Asks(s, c, n, r), Answers(s, t, n, r)
  PROVE  FH(t, d, c, n, r) /\ Same(s, t, r)
<1>1. t \in VhdState /\ Quiet(s, t) /\ OthersRest(s, t, r)
  BY OnlyReqQuiet DEF Answers
<1>2. Same(s, t, r)
  BY <1>1 DEF Same, Answers
<1>3. Asks(t, c, n, r)
  BY <1>2, AsksKept
<1>4. r \notin outstanding(t)
  BY DEF Answers, outstanding
<1>5. Submits(t, c, n, r, r)
  BY <1>3, <1>4 DEF Submits, Asks, Answers
<1>6. n \in [Reqs -> SUBSET Values] /\ NewTo(s, c, n, r)
  BY FHType DEF Asks
<1>7. FH(t, d, c, n, r)
  BY <1>1, <1>5, <1>6, SubmitHist
<1> QED BY <1>2, <1>7

LEMMA AnswerNow ==
  ASSUME NEW s, NEW t, NEW d, NEW c, NEW n, NEW r \in Reqs, Offered(s, d, c, n, r),
         Answers(s, t, n, r), t.vfree = s.vfree
  PROVE  Leaves(s, t, d, d, c, n, r)
<1>1. Driver(s, NoReq, NoBlock) /\ FH(s, d, c, n, r) /\ Loose(s, r) /\ Asks(s, c, n, r)
  BY DEF Offered
<1>2. FH(t, d, c, n, r) /\ Same(s, t, r)
  BY <1>1, AnswerHist
<1>3. /\ t \in VhdState /\ OnlyReq(s, t, r) /\ t.req[r].st \in {"free", "done", "io"}
      /\ t.req[r].st = "io" <=> NoReq = r
  BY NotMeta DEF Answers
<1>4. s.vfree \in Int /\ s.vfree >= 0
  BY <1>1 DEF Driver, VhdState, CountOK
<1>5. /\ t.vfree >= 0 /\ NoReq # r
      /\ t.vfree = s.vfree + (IF NoReq = r THEN 1 ELSE 0) - (IF NoReq = r THEN 1 ELSE 0)
  BY <1>4, NotMeta
<1>6. Driver(t, NoReq, NoBlock)
  BY <1>1, <1>3, <1>5, LooseStep
<1> QED BY <1>2, <1>6 DEF Leaves, Answers

(* The "fail" label: the vhd_request is given back.                         *)
LEMMA AnswerHeld ==
  ASSUME NEW s, NEW t, NEW d, NEW c, NEW n, NEW r \in Reqs, Held(s, d, c, n, r),
         Answers(s, t, n, r), t.vfree = s.vfree + 1
  PROVE  Leaves(s, t, d, d, c, n, r)
<1>1. Driver(s, r, NoBlock) /\ FH(s, d, c, n, r) /\ Asks(s, c, n, r)
  BY DEF Held
<1>2. Loose(s, r)
  BY <1>1, HeldLoose
<1>3. FH(t, d, c, n, r) /\ Same(s, t, r)
  BY <1>1, <1>2, AnswerHist
<1>4. /\ t \in VhdState /\ OnlyReq(s, t, r) /\ t.req[r].st \in {"free", "done", "io"}
      /\ t.req[r].st = "io" <=> NoReq = r
  BY NotMeta DEF Answers
<1>5. s.vfree \in Int /\ s.vfree >= 0
  BY <1>1 DEF Driver, VhdState, CountOK
<1>6. /\ t.vfree >= 0 /\ NoReq # r
      /\ t.vfree = s.vfree + (IF r = r THEN 1 ELSE 0) - (IF NoReq = r THEN 1 ELSE 0)
  BY <1>5, NotMeta
<1>7. Driver(t, NoReq, NoBlock)
  BY <1>1, <1>2, <1>4, <1>6, LooseStep
<1> QED BY <1>3, <1>7 DEF Leaves, Answers

(* A vhd_request is taken for r.                                            *)
LEMMA TakeEffect ==
  ASSUME NEW s \in VhdState, NEW r \in Reqs, NEW a, a = alloc_vhd_request(s, r, "io")
  PROVE  /\ a \in VhdState /\ OnlyReq(s, a, r) /\ a.vfree = s.vfree - 1
         /\ a.req[r].st = "io" /\ a.req[r].op = s.req[r].op /\ a.req[r].sec = s.req[r].sec
         /\ a.req[r].err = s.req[r].err
<1> DEFINE q == [s.req[r] EXCEPT !.st = "io"]
           w == with_req(s, r, q)
<1>1. a = [w EXCEPT !.vfree = @ - 1]
  BY DEF alloc_vhd_request
<1>2. q.st = "io" /\ q.op = s.req[r].op /\ q.sec = s.req[r].sec /\ q.err = s.req[r].err /\ q \in Request
  BY ReqField DEF Request
<1> HIDE DEF q
<1>3. OnlyReq(s, w, r) /\ w.req[r] = q /\ w.vfree = s.vfree /\ w \in VhdState
  BY <1>2, WithReq, UpdReq
<1> HIDE DEF w
<1>4. /\ OnlyReq(w, a, r) /\ a.vfree = w.vfree - 1 /\ a.req = w.req
  BY <1>1, <1>3 DEF VhdState, OnlyReq, SameBat
<1>5. a \in VhdState
  BY VreqType
<1>6. OnlyReq(s, a, r)
  BY <1>3, <1>4 DEF OnlyReq, SameBat
<1> QED BY <1>2, <1>3, <1>4, <1>5, <1>6

LEMMA Take ==
  ASSUME NEW s, NEW d, NEW c, NEW n, NEW r \in Reqs, NEW a, Offered(s, d, c, n, r),
         s.vfree # 0, a = alloc_vhd_request(s, r, "io")
  PROVE  /\ Held(a, d, c, n, r) /\ Same(s, a, r) /\ OnlyReq(s, a, r)
         /\ a.vfree = s.vfree - 1
<1>1. Driver(s, NoReq, NoBlock) /\ FH(s, d, c, n, r) /\ Loose(s, r) /\ Asks(s, c, n, r) /\ s \in VhdState
  BY DEF Offered, Driver
<1>2. /\ a \in VhdState /\ OnlyReq(s, a, r) /\ a.vfree = s.vfree - 1
      /\ a.req[r].st = "io" /\ a.req[r].op = s.req[r].op /\ a.req[r].sec = s.req[r].sec
      /\ a.req[r].err = s.req[r].err
  BY <1>1, TakeEffect
<1>3. Quiet(s, a) /\ OthersRest(s, a, r)
  BY <1>2, OnlyReqQuiet
<1>4. Same(s, a, r)
  BY <1>2, <1>3 DEF Same
<1>5. Asks(a, c, n, r)
  BY <1>1, <1>4, AsksKept
<1>6. Submits(a, c, n, r, r)
  BY <1>2, <1>5 DEF Submits, Asks
<1>7. n \in [Reqs -> SUBSET Values] /\ NewTo(s, c, n, r)
  BY <1>1, FHType DEF Asks
<1>8. FH(a, d, c, n, r)
  BY <1>1, <1>2, <1>3, <1>6, <1>7, SubmitHist
<1>9. s.vfree \in Int /\ s.vfree >= 0
  BY <1>1 DEF Driver, VhdState, CountOK
<1>10. /\ a.vfree >= 0 /\ NoReq # r
       /\ a.vfree = s.vfree + (IF NoReq = r THEN 1 ELSE 0) - (IF r = r THEN 1 ELSE 0)
  BY <1>2, <1>9, NotMeta
<1>11. a.req[r].err # "EBUSY"
  BY <1>2 DEF Offered
<1>12. Driver(a, r, NoBlock)
  BY <1>1, <1>2, <1>10, <1>11, LooseStep
<1> QED BY <1>2, <1>4, <1>5, <1>8, <1>12 DEF Held

(* read_bitmap_cache says that a sector is in its block's slot, or that it  *)
(* is not.                                                                  *)
InSlot(s, x) ==
  LET b == blk_of(x)
  IN  /\ s.bat[b] # DD_BLK_UNUSED
      /\ b \in s.batmap \/ (b \in s.cached /\ ~s.bm[b].rd /\ sec_of(x) \in s.bm[b].map)

InParent(s, x) ==
  LET b == blk_of(x)
  IN  \/ s.bat[b] = DD_BLK_UNUSED
      \/ b \in s.cached /\ ~s.bm[b].rd /\ sec_of(x) \notin s.bm[b].map

(* It is right about the file.                                              *)
LEMMA InSlotSet ==
  ASSUME NEW s, NEW h, NEW d, NEW c, NEW n, NEW g, NEW x \in Sectors,
         Driver(s, h, NoBlock), FH(s, d, c, n, g), InSlot(s, x)
  PROVE  Set(s, d, x) /\ Good(s, d, c, x)
<1> DEFINE b == blk_of(x)
<1>1. b \in Blocks /\ sec_of(x) \in Secs
  BY Geometry
<1>2. /\ s \in VhdState /\ s.up /\ FileBat(s, d) /\ FileMap(s, d) /\ GoodOK(s, d, c) /\ BlkOK(s, b, NoBlock)
      /\ \A io \in s.aio : IoOK(s, io)
  BY <1>1 DEF Driver, FH, FileOK, History
<1>3. /\ s.bat[b] # DD_BLK_UNUSED
      /\ b \in s.batmap \/ (b \in s.cached /\ ~s.bm[b].rd /\ sec_of(x) \in s.bm[b].map)
  BY DEF InSlot
<1> HIDE DEF b
<1>4. d.bat[b] = s.bat[b]
  BY <1>1, <1>2, <1>3 DEF FileBat
<1>5. sec_of(x) \in d.map[d.bat[b]]
  BY <1>1, <1>2, <1>3, <1>4 DEF FileMap
<1>6. b \in s.cached /\ ~s.bm[b].rd => sec_of(x) \in s.bm[b].map
  BY <1>1, <1>2, <1>3 DEF BlkOK
<1>7. Set(s, d, x)
  BY <1>3, <1>4, <1>5, <1>6 DEF Set, b
<1>8. Zeroed(s, b)
  <2>1. ~Mine(s, b)
    BY <1>1, <1>3, HeldSlot
  <2> QED BY <1>2, <2>1 DEF Zeroed, IoOK
<1>9. Own(s, d, b) = d.bat[b] /\ Own(s, d, b) # DD_BLK_UNUSED
  BY <1>3, <1>4 DEF Own
<1>10. Good(s, d, c, x)
  BY <1>2, <1>5, <1>8, <1>9 DEF GoodOK, b
<1> QED BY <1>7, <1>10

LEMMA InParentCand ==
  ASSUME NEW s, NEW d, NEW c, NEW n, NEW g, NEW x \in Sectors, FH(s, d, c, n, g), InParent(s, x)
  PROVE  Parent \in c[x]
<1>1. ~Set(s, d, x)
  BY DEF InParent, Set, FH
<1> QED BY <1>1 DEF FH, History, ParentOK

(* The data of the request in hand is read or written in place.             *)
LEMMA PlainLeaves ==
  ASSUME NEW s, NEW d, NEW c, NEW n, NEW r \in Reqs, NEW b, NEW op \in Data, NEW t,
         Held(s, d, c, n, r), blk_of(s.req[r].sec) = b, InSlot(s, s.req[r].sec),
         op = "data_read" => s.req[r].op = "read",
         op = "data_write" => s.req[r].op = "write",
         t = queue_tiocb(s, op, b, r, s.bat[b])
  PROVE  Leaves(s, t, d, d, c, n, r)
<1>1. Driver(s, r, NoBlock) /\ FH(s, d, c, n, r) /\ s \in VhdState
  BY DEF Held, Driver
<1>2. s.req[r].sec \in Sectors /\ b \in Blocks /\ s.bat[b] # DD_BLK_UNUSED
  BY <1>1, SecField, Geometry DEF InSlot
<1>3. Set(s, d, s.req[r].sec) /\ Good(s, d, c, s.req[r].sec)
  BY <1>1, <1>2, InSlotSet
<1>4. Driver(t, NoReq, NoBlock)
  BY <1>1, <1>2, PlainDriver
<1> DEFINE j == new_io(op, b, r, s.bat[b])
<1>5. j.op = op /\ j.req = r /\ ~j.landed
  BY DEF new_io
<1>6. /\ SameBat(s, t) /\ t.up = s.up /\ t.batmap = s.batmap /\ t.cached = s.cached /\ t.bm = s.bm
      /\ t.req = s.req /\ t.aio = s.aio \cup {j}
  BY <1>1, QueueEffect DEF new_io
<1> HIDE DEF j
<1>7. View(s, t) /\ t.bat_tx = s.bat_tx
  BY <1>6 DEF View, SameBat, Mine
<1>8. Queues(s, t, d, c)
  BY <1>3, <1>5, <1>6, <1>7 DEF Queues, Data
<1>9. FH(t, d, c, n, r)
  BY <1>1, <1>4, <1>8, QueueHist
<1>10. Same(s, t, r) /\ t.req[r].st # "free"
  BY <1>1, <1>6, HeldLoose DEF Same, OthersRest
<1> QED BY <1>4, <1>9, <1>10 DEF Leaves

(* The request in hand joins the transaction of its block.                  *)
LEMMA JoinLeaves ==
  ASSUME NEW s, NEW d, NEW c, NEW n, NEW r \in Reqs, NEW b, NEW slot \in Slots, NEW t,
         Held(s, d, c, n, r), blk_of(s.req[r].sec) = b, s.req[r].op = "write",
         b \in s.cached, ~s.bm[b].rd, s.bat[b] = DD_BLK_UNUSED => Mine(s, b),
         slot = s.bat[b] \/ (Mine(s, b) /\ slot = s.pbw_offset),
         t = queue_tiocb(join_transaction(s, b, r), "data_write", b, r, slot)
  PROVE  Leaves(s, t, d, d, c, n, r)
<1>1. Driver(s, r, NoBlock) /\ FH(s, d, c, n, r) /\ s \in VhdState
  BY DEF Held, Driver
<1>2. b \in Blocks
  BY <1>1, ReqField
<1>3. Driver(t, NoReq, NoBlock)
  BY <1>1, <1>2, JoinDriver
<1> DEFINE w == join_transaction(s, b, r)
           m == Joining(s.bm[b], r)
           j == new_io("data_write", b, r, slot)
<1>4. j.op = "data_write" /\ j.req = r /\ ~j.landed /\ j.blk = b
  BY DEF new_io
<1>5. w = with_bm(s, b, m) /\ w \in VhdState
  BY <1>1, <1>2, JoinEffect
<1>6. OnlyBlk(s, w, b) /\ w.bm[b] = m /\ w.req = s.req /\ w.aio = s.aio
  BY <1>1, <1>2, <1>5, WithBm
<1>7. s.bm[b] \in Bitmap /\ s.bm[b].tx \in Tx
  BY <1>1, <1>2, BmField
<1>8. /\ m.rd = s.bm[b].rd /\ m.map = s.bm[b].map /\ m.shadow = s.bm[b].shadow
      /\ m.tx.upd = s.bm[b].tx.upd /\ m.tx.err = s.bm[b].tx.err
      /\ m.tx.reqs \cup m.queue = s.bm[b].tx.reqs \cup s.bm[b].queue \cup {r}
  BY <1>7, JoinFields DEF Bitmap, Tx
<1> HIDE DEF m
<1>9. /\ SameBat(w, t) /\ t.up = w.up /\ t.batmap = w.batmap /\ t.cached = w.cached /\ t.bm = w.bm
      /\ t.req = w.req /\ t.aio = w.aio \cup {j}
  BY <1>5, QueueEffect DEF new_io
<1> HIDE DEF w, j
<1>10. View(s, t) /\ t.bat_tx = s.bat_tx /\ t.req = s.req /\ t.batmap = s.batmap /\ t.aio = s.aio \cup {j}
  BY <1>6, <1>8, <1>9 DEF View, OnlyBlk, SameBat, Mine
<1>11. Listed(t, j)
  BY <1>4, <1>6, <1>8, <1>9 DEF Listed
<1>12. \A x \in Blocks :
       /\ t.bm[x].tx.upd = s.bm[x].tx.upd /\ t.bm[x].tx.err = s.bm[x].tx.err
       /\ \A q \in Reqs : q \in s.bm[x].tx.reqs \cup s.bm[x].queue
                            => q \in t.bm[x].tx.reqs \cup t.bm[x].queue
  BY <1>6, <1>8, <1>9 DEF OnlyBlk
<1>13. Queues(s, t, d, c)
  BY <1>4, <1>10, <1>11, <1>12 DEF Queues
<1>14. FH(t, d, c, n, r)
  BY <1>1, <1>3, <1>13, QueueHist
<1>15. Same(s, t, r) /\ t.req[r].st # "free"
  BY <1>1, <1>10, HeldLoose DEF Same, OthersRest
<1> QED BY <1>3, <1>14, <1>15 DEF Leaves

(* The write of a full block's first sector also rewrites its bitmap, if a  *)
(* vhd_request is left.                                                     *)
LEMMA RedundantLeaves ==
  ASSUME NEW s, NEW d, NEW c, NEW n, NEW r \in Reqs, NEW b, NEW t,
         Held(s, d, c, n, r), blk_of(s.req[r].sec) = b, s.req[r].op = "write",
         s.bat[b] # DD_BLK_UNUSED, b \in s.batmap,
         t = queue_tiocb(schedule_redundant_bm_write(s, b, r), "data_write", b, r, s.bat[b])
  PROVE  Leaves(s, t, d, d, c, n, r)
<1>1. Driver(s, r, NoBlock) /\ FH(s, d, c, n, r) /\ s \in VhdState /\ b \in Blocks
  BY ReqField DEF Held, Driver
<1>2. InSlot(s, s.req[r].sec)
  BY DEF InSlot
<1> DEFINE p == queue_tiocb(s, "data_write", b, r, s.bat[b])
<1>3. Leaves(s, p, d, d, c, n, r)
  BY <1>2, PlainLeaves DEF Data
<1>4. CASE s.vfree = 0
  BY <1>3, <1>4 DEF schedule_redundant_bm_write
<1>5. CASE s.vfree # 0
  <2> DEFINE j == new_io("redundant_bm", b, r, s.bat[b])
             i == new_io("data_write", b, r, s.bat[b])
  <2>1. p = [s EXCEPT !.aio = @ \cup {i}]
    BY DEF queue_tiocb, new_io
  <2>2. t = [s EXCEPT !.vfree = @ - 1, !.aio = @ \cup {j} \cup {i}]
    BY <1>1, <1>5 DEF queue_tiocb, new_io, schedule_redundant_bm_write, VhdState
  <2>3. /\ j.op = "redundant_bm" /\ j.req = r /\ ~j.landed /\ j.blk = b /\ j.slot = s.bat[b]
        /\ i.op = "data_write"
    BY DEF new_io
  <2>4. s.bat[b] \in Entries
    BY <1>1, BatField
  <2>5. j \in Tiocb
    BY <1>1, <2>4 DEF new_io, Tiocb, AioOps
  <2> HIDE DEF i, j
  <2>6. /\ OnlyBlk(p, t, b) /\ t.bm = p.bm /\ t.req = p.req /\ t.aio = p.aio \cup {j}
        /\ t.vfree = p.vfree - 1 /\ p.vfree = s.vfree /\ p.aio = s.aio \cup {i}
        /\ p.req = s.req /\ p.bat = s.bat /\ p.batmap = s.batmap
    <3>1. /\ SameBat(s, p) /\ p.up = s.up /\ p.prealloc = s.prealloc /\ p.batmap = s.batmap
          /\ p.cached = s.cached /\ p.bm = s.bm /\ p.req = s.req /\ p.vfree = s.vfree
          /\ p.aio = s.aio \cup {i}
      BY <1>1, QueueEffect DEF i, new_io
    <3> HIDE DEF p
    <3>2. /\ SameBat(s, t) /\ t.up = s.up /\ t.prealloc = s.prealloc /\ t.batmap = s.batmap
          /\ t.cached = s.cached /\ t.bm = s.bm /\ t.req = s.req
      BY <1>1, <2>2 DEF VhdState, SameBat
    <3>3. t.vfree = s.vfree - 1 /\ t.aio = (s.aio \cup {j}) \cup {i}
      BY <1>1, <2>2 DEF VhdState
    <3>4. t.aio = p.aio \cup {j}
      BY <3>1, <3>3
    <3> QED BY <3>1, <3>2, <3>3, <3>4 DEF OnlyBlk, SameBat
  <2>7. p \in VhdState /\ t \in VhdState
    <3>1. p \in VhdState
      BY <1>3 DEF Leaves, Driver
    <3>2. schedule_redundant_bm_write(s, b, r) \in VhdState
      BY <1>1, RedundantType
    <3>3. t \in VhdState
      BY <1>1, <2>4, <3>2, DataAio DEF AioOps
    <3> QED BY <3>1, <3>3
  <2> HIDE DEF p
  <2>8. Loose(s, r) /\ s.req[r].st = "io"
    BY <1>1, HeldLoose
  <2>9. \A k \in p.aio : k.op = "redundant_bm" => k.req # r
    BY <2>3, <2>6, <2>8 DEF Loose
  <2>10. IoOK(p, j)
    BY <2>3, <2>6, <2>8 DEF IoOK, accepted
  <2>11. Driver(p, NoReq, NoBlock) /\ FH(p, d, c, n, r) /\ Same(s, p, r)
    BY <1>3 DEF Leaves
  <2>12. j \notin p.aio /\ t.bm[b] = p.bm[b] /\ p.vfree # 0
    BY <1>5, <2>3, <2>6, <2>9
  <2>13. Driver(t, NoReq, NoBlock)
    BY <2>3, <2>5, <2>6, <2>7, <2>9, <2>10, <2>11, <2>12, RedundantDriver
  <2>14. Calm(p, t, d)
    BY <1>1, <2>3, <2>6, <2>12, RedundantCalm
  <2>15. FH(t, d, c, n, r)
    <3>1. p.up /\ FileOK(p, d) /\ History(p, d, c, n, r)
      BY <2>11 DEF FH
    <3>2. FileOK(t, d) /\ History(t, d, c, n, r)
      BY <2>7, <2>11, <2>14, <3>1, CalmHist
    <3>3. t.up
      BY <2>6, <3>1 DEF OnlyBlk
    <3> QED BY <3>2, <3>3 DEF FH
  <2>16. Same(s, t, r) /\ t.req[r].st # "free"
    BY <2>6, <2>8, <2>11 DEF Same, OthersRest
  <2> QED BY <2>13, <2>15, <2>16 DEF Leaves
<1> QED BY <1>4, <1>5

(* A request the driver has not accepted is on no list and has no I/O.      *)
LEMMA Unaccepted ==
  ASSUME NEW s, NEW h, NEW k, NEW r \in Reqs, Driver(s, h, k), ~accepted(s.req[r])
  PROVE  Loose(s, r)
<1>1. /\ s \in VhdState /\ (\A b \in Blocks : MemOK(s, b)) /\ \A io \in s.aio : IoOK(s, io)
  BY DEF Driver
<1>2. s.req[r].st \in {"free", "done"}
  BY <1>1, ReqField DEF accepted, Request
<1>3. ASSUME NEW io \in s.aio PROVE io.req # r
  <2>1. io.op \in AioOps /\ IoOK(s, io)
    BY <1>1, IoField
  <2> QED BY <1>2, <2>1, NotMeta DEF IoOK, AioOps
<1>4. ASSUME NEW b \in Blocks PROVE r \notin s.bm[b].waiting \cup s.bm[b].tx.reqs \cup s.bm[b].queue
  BY <1>1, <1>2 DEF MemOK
<1> QED BY <1>2, <1>3, <1>4 DEF Loose

LEMMA AnswerEffect ==
  ASSUME NEW s \in VhdState, NEW r \in Reqs, NEW e \in Errors, NEW t, t = td_complete_request(s, r, e)
  PROVE  /\ t \in VhdState /\ OnlyReq(s, t, r) /\ t.vfree = s.vfree
         /\ t.req[r].st = "done" /\ t.req[r].err = e
         /\ t.req[r].op = s.req[r].op /\ t.req[r].sec = s.req[r].sec
<1> DEFINE q == [s.req[r] EXCEPT !.st = "done", !.err = e]
<1>1. t = with_req(s, r, q)
  BY DEF td_complete_request
<1>2. q.st = "done" /\ q.op = s.req[r].op /\ q.sec = s.req[r].sec /\ q.err = e
  BY ReqField DEF Request
<1> HIDE DEF q
<1>3. OnlyReq(s, t, r) /\ t.req[r] = q /\ t.vfree = s.vfree
  BY <1>1, WithReq
<1>4. t \in VhdState
  BY CompleteType
<1> QED BY <1>2, <1>3, <1>4

LEMMA ForwardEffect ==
  ASSUME NEW s \in VhdState, NEW r \in Reqs, NEW t, t = td_forward_request(s, r)
  PROVE  /\ t \in VhdState /\ OnlyReq(s, t, r) /\ t.vfree = s.vfree
         /\ t.req[r].st = "done" /\ t.req[r].err = "ok" /\ t.req[r].val = Parent
         /\ t.req[r].op = s.req[r].op /\ t.req[r].sec = s.req[r].sec
<1> DEFINE q == [s.req[r] EXCEPT !.st = "done", !.err = "ok", !.val = Parent]
<1>1. t = with_req(s, r, q)
  BY DEF td_forward_request
<1>2. q.st = "done" /\ q.op = s.req[r].op /\ q.sec = s.req[r].sec /\ q.err = "ok" /\ q.val = Parent
  BY ReqField DEF Request
<1> HIDE DEF q
<1>3. OnlyReq(s, t, r) /\ t.req[r] = q /\ t.vfree = s.vfree
  BY <1>1, WithReq
<1>4. t \in VhdState
  BY CompleteType
<1> QED BY <1>2, <1>3, <1>4

(* A request is refused, or answered without I/O.                           *)
LEMMA RefuseNow ==
  ASSUME NEW s, NEW d, NEW c, NEW n, NEW r \in Reqs, NEW e \in Errors, NEW t, Offered(s, d, c, n, r),
         e # "ok" \/ s.req[r].op = "status", t = td_complete_request(s, r, e)
  PROVE  Leaves(s, t, d, d, c, n, r)
<1>1. s \in VhdState
  BY DEF Offered, Driver
<1>2. Answers(s, t, n, r) /\ t.vfree = s.vfree
  BY <1>1, AnswerEffect DEF Answers
<1> QED BY <1>2, AnswerNow

LEMMA ForwardNow ==
  ASSUME NEW s, NEW d, NEW c, NEW n, NEW r \in Reqs, NEW t, Offered(s, d, c, n, r),
         s.req[r].op # "write", InParent(s, s.req[r].sec), t = td_forward_request(s, r)
  PROVE  Leaves(s, t, d, d, c, n, r)
<1>1. s \in VhdState /\ FH(s, d, c, n, r) /\ Asks(s, c, n, r)
  BY DEF Offered, Driver
<1>2. Parent \in c[s.req[r].sec]
  BY <1>1, InParentCand, SecField
<1>3. s.req[r].op = "read" => Parent \in n[r]
  BY <1>1, <1>2 DEF Asks
<1>4. Answers(s, t, n, r) /\ t.vfree = s.vfree
  BY <1>1, <1>3, ForwardEffect DEF Answers
<1> QED BY <1>4, AnswerNow

(* A request waits for the bitmap that is being read.                       *)
waits_for(m, r) == [m EXCEPT !.locked = TRUE, !.waiting = @ \cup {r}]

LEMMA WaitEffect ==
  ASSUME NEW s \in VhdState, NEW b \in Blocks, NEW r \in Reqs, NEW t, s.vfree # 0,
         t = __vhd_queue_request(s, b, r)
  PROVE  Waits(s, t, b, r) /\ t \in VhdState
<1> DEFINE m == waits_for(s.bm[b], r)
           w == with_bm(s, b, m)
           q == [w.req[r] EXCEPT !.st = "waiting"]
           p == with_req(w, r, q)
<1>1. s.bm[b] \in Bitmap
  BY BmField
<1>2. /\ m.locked /\ m.rd = s.bm[b].rd /\ m.wr = s.bm[b].wr /\ m.map = s.bm[b].map
      /\ m.shadow = s.bm[b].shadow /\ m.tx = s.bm[b].tx /\ m.queue = s.bm[b].queue
      /\ m.waiting = s.bm[b].waiting \cup {r} /\ m \in Bitmap
  BY <1>1 DEF waits_for, Bitmap
<1>3. t = [p EXCEPT !.vfree = @ - 1]
  BY DEF __vhd_queue_request, alloc_vhd_request, waits_for
<1> HIDE DEF m
<1>4. /\ OnlyBlk(s, w, b) /\ w.bm[b] = m /\ w.req = s.req /\ w.vfree = s.vfree /\ w.aio = s.aio
      /\ w \in VhdState
  BY <1>2, WithBm, UpdBm
<1>5. q.st = "waiting" /\ q.op = s.req[r].op /\ q.sec = s.req[r].sec /\ q.err = s.req[r].err /\ q \in Request
  BY <1>4, ReqField DEF Request
<1> HIDE DEF w, q
<1>6. OnlyReq(w, p, r) /\ p.req[r] = q /\ p.vfree = w.vfree /\ p \in VhdState
  BY <1>4, <1>5, WithReq, UpdReq
<1> HIDE DEF p
<1>7. /\ OnlyReq(p, t, r) /\ t.req = p.req /\ t.vfree = p.vfree - 1
  BY <1>3, <1>6 DEF VhdState, OnlyReq, SameBat
<1>8. t \in VhdState
  <2>1. p.vfree - 1 \in Int
    BY <1>6 DEF VhdState
  <2> QED BY <1>3, <1>6, <2>1, UpdFields
<1>9. OnlyBlk(s, t, b) /\ t.bm[b] = m
  BY <1>4, <1>6, <1>7 DEF OnlyBlk, OnlyReq, SameBat
<1>10. t.aio = s.aio /\ \A x \in Reqs : x # r => t.req[x] = s.req[x]
  BY <1>4, <1>6, <1>7 DEF OnlyReq
<1>11. t.req[r] = q /\ t.vfree = s.vfree - 1
  BY <1>4, <1>6, <1>7
<1> QED BY <1>2, <1>5, <1>8, <1>9, <1>10, <1>11 DEF Waits

LEMMA WaitLeaves ==
  ASSUME NEW s, NEW d, NEW c, NEW n, NEW r \in Reqs, NEW b, NEW t, Offered(s, d, c, n, r),
         blk_of(s.req[r].sec) = b, s.bm[b].rd, t = __vhd_queue_request(s, b, r)
  PROVE  Leaves(s, t, d, d, c, n, r)
<1>1. /\ Driver(s, NoReq, NoBlock) /\ FH(s, d, c, n, r) /\ Loose(s, r) /\ Asks(s, c, n, r)
      /\ s \in VhdState /\ s.req[r].st # "io" /\ s.req[r].err # "EBUSY"
  BY DEF Offered, Driver
<1>2. b \in Blocks
  BY <1>1, ReqField
<1>3. CASE s.vfree = 0
  BY <1>3, RefuseNow DEF __vhd_queue_request, Errors
<1>4. CASE s.vfree # 0
  <2>1. Waits(s, t, b, r) /\ t \in VhdState
    BY <1>1, <1>2, <1>4, WaitEffect
  <2>2. Driver(t, NoReq, NoBlock)
    BY <1>1, <1>4, <2>1, WaitDriver
  <2>3. OthersRest(s, t, r) /\ t.req[r].st = "waiting" /\ Same(s, t, r)
    BY <2>1 DEF Waits, OthersRest, Same
  <2>4. Quiet(s, t)
    BY <2>1, ZenonT(40) DEF Waits, Quiet, View, OnlyBlk, SameBat, Mine
  <2>5. Asks(t, c, n, r)
    BY <1>1, <2>3, AsksKept
  <2>6. Submits(t, c, n, r, r)
    BY <2>3, <2>5 DEF Submits, Asks
  <2>7. n \in [Reqs -> SUBSET Values] /\ NewTo(s, c, n, r)
    BY <1>1, FHType DEF Asks
  <2>8. FH(t, d, c, n, r)
    BY <1>1, <2>1, <2>3, <2>4, <2>6, <2>7, SubmitHist
  <2> QED BY <2>2, <2>3, <2>8 DEF Leaves
<1> QED BY <1>3, <1>4

(* The bitmap is read first.                                                *)
reading == [init_vhd_bitmap EXCEPT !.locked = TRUE, !.rd = TRUE]

LEMMA ReadsEffect ==
  ASSUME NEW s \in VhdState, NEW b \in Blocks, NEW v, NEW i, NEW t,
         i = install_bitmap(s, b, v), t = schedule_bitmap_read(s, b, v)
  PROVE  ReadsBitmap(i, t, b) /\ t \in VhdState
<1> DEFINE w == with_bm(i, b, reading)
<1>1. i \in VhdState /\ i.bat = s.bat
  BY InstallType, InstallEffect DEF Installs, SameBat
<1>2. t = queue_tiocb(w, "bitmap_read", b, bm_req, i.bat[b])
  BY <1>1 DEF schedule_bitmap_read, reading
<1>3. reading \in Bitmap
  BY FreshBitmap DEF reading, Bitmap
<1>4. w \in VhdState /\ OnlyBlk(i, w, b) /\ w.bm[b] = reading /\ w.req = i.req /\ w.vfree = i.vfree /\ w.aio = i.aio
  BY <1>1, <1>3, UpdBm, WithBm
<1> HIDE DEF w
<1>5. /\ SameBat(w, t) /\ t.up = w.up /\ t.prealloc = w.prealloc /\ t.batmap = w.batmap /\ t.cached = w.cached
      /\ t.bm = w.bm /\ t.req = w.req /\ t.vfree = w.vfree
      /\ t.aio = w.aio \cup {[op |-> "bitmap_read", blk |-> b, req |-> bm_req,
                              slot |-> i.bat[b], landed |-> FALSE]}
  BY <1>2, <1>4, QueueEffect
<1>6. OnlyBlk(i, t, b)
  BY <1>4, <1>5 DEF OnlyBlk, SameBat
<1>7. t \in VhdState
  BY <1>1, <1>2, <1>4, MetaAio, BatField DEF MetaOps, MetaReqs
<1> QED BY <1>4, <1>5, <1>6, <1>7 DEF ReadsBitmap, reading

LEMMA ReadAndWaitLeaves ==
  ASSUME NEW s, NEW d, NEW c, NEW n, NEW r \in Reqs, NEW b, NEW v, NEW t, Offered(s, d, c, n, r),
         blk_of(s.req[r].sec) = b, b \notin s.cached, b \notin s.batmap, s.bat[b] # DD_BLK_UNUSED,
         v = NO_BITMAP \/ Evictable(s, v), t = read_and_wait(s, b, r, v)
  PROVE  Leaves(s, t, d, d, c, n, r)
<1>1. /\ Driver(s, NoReq, NoBlock) /\ FH(s, d, c, n, r) /\ Asks(s, c, n, r)
      /\ s \in VhdState /\ s.req[r].st = "free" /\ s.req[r].err = "ok" /\ b \in Blocks
  BY ReqField DEF Offered, Driver
<1>2. CASE v = NO_BITMAP
  BY <1>2, RefuseNow DEF read_and_wait, Errors
<1>3. CASE v # NO_BITMAP
  <2> DEFINE i == install_bitmap(s, b, v)
             u == schedule_bitmap_read(s, b, v)
  <2>1. t = __vhd_queue_request(u, b, r)
    BY <1>3 DEF read_and_wait
  <2>2. ReadsBitmap(i, u, b) /\ u \in VhdState
    BY <1>1, ReadsEffect
  <2> HIDE DEF u
  <2>3. Evictable(s, v)
    BY <1>3
  <2>4. /\ Driver(u, NoReq, NoBlock) /\ FH(u, d, c, n, r) /\ u.bm[b].rd /\ u.req = s.req
    BY <1>1, <2>2, <2>3, BitmapReadHist
  <2>5. Same(s, u, r)
    BY <2>4 DEF Same, OthersRest
  <2>6. Asks(u, c, n, r)
    BY <1>1, <2>5, AsksKept
  <2>7. Loose(u, r)
    BY <1>1, <2>4, Unaccepted DEF accepted
  <2>8. Offered(u, d, c, n, r)
    BY <1>1, <2>4, <2>6, <2>7 DEF Offered
  <2>9. Leaves(u, t, d, d, c, n, r)
    BY <2>1, <2>4, <2>8, WaitLeaves
  <2> QED BY <2>4, <2>9 DEF Leaves, Same, OthersRest
<1> QED BY <1>2, <1>3

LEMMA HeldSame ==
  ASSUME NEW s, NEW t, NEW d, NEW e, NEW c, NEW n, NEW r \in Reqs, Held(s, d, c, n, r),
         Driver(t, r, NoBlock), FH(t, e, c, n, r), t.req = s.req
  PROVE  Held(t, e, c, n, r)
<1>1. Same(s, t, r)
  BY DEF Same, OthersRest
<1>2. Asks(t, c, n, r)
  BY <1>1, AsksKept DEF Held
<1> QED BY <1>2 DEF Held

(* The transaction that an allocation starts.                               *)
alloc_tx(q)    == [err |-> "ok", closed |-> FALSE, started |-> 1, finished |-> 0,
                   live |-> TRUE, upd |-> FALSE, reqs |-> {q}]
zero_tx        == [err |-> "ok", closed |-> FALSE, started |-> 1, finished |-> 0,
                   live |-> TRUE, upd |-> TRUE, reqs |-> {zero_req}]
alloc_bm(m, T) == [m EXCEPT !.locked = TRUE, !.tx = T]
upd_tx(T)      == [T EXCEPT !.upd = TRUE]

LEMMA AllocTxType ==
  ASSUME NEW q \in MetaReqs
  PROVE  alloc_tx(q) \in Tx /\ zero_tx \in Tx
  BY DEF alloc_tx, zero_tx, Tx, Errors, MetaReqs

LEMMA TxEqual ==
  ASSUME NEW T \in Tx, NEW U \in Tx, T.err = U.err, T.closed = U.closed, T.started = U.started,
         T.finished = U.finished, T.live = U.live, T.upd = U.upd, T.reqs = U.reqs
  PROVE  T = U
  BY DEF Tx

LEMMA AllocTx ==
  ASSUME NEW q \in MetaReqs
  PROVE  joined(init_tx, {q}) = alloc_tx(q)
<1> DEFINE J == joined(init_tx, {q})
           T == alloc_tx(q)
<1>1. Cardinality({q}) = 1
  BY FS_Singleton
<1>2. J \in Tx /\ T \in Tx
  <2>1. {q} \in SUBSET (Reqs \cup MetaReqs) /\ Cardinality({q}) \in Nat
    BY <1>1
  <2>3. init_tx \in Tx
    BY TxTypes
  <2>2. J \in Tx
    BY <2>1, <2>3, JoinedType
  <2> QED BY <2>2, AllocTxType
<1>3. /\ J.err = "ok" /\ ~J.closed /\ J.started = 0 + Cardinality({q}) /\ J.finished = 0 /\ J.live
      /\ ~J.upd /\ J.reqs = {q}
  BY DEF joined, init_tx
<1>4. /\ T.err = "ok" /\ ~T.closed /\ T.started = 1 /\ T.finished = 0 /\ T.live
      /\ ~T.upd /\ T.reqs = {q}
  BY DEF alloc_tx
<1> HIDE DEF J, T
<1>5. J.closed \in BOOLEAN /\ J.live \in BOOLEAN /\ J.upd \in BOOLEAN
      /\ T.closed \in BOOLEAN /\ T.live \in BOOLEAN /\ T.upd \in BOOLEAN
  BY <1>2 DEF Tx
<1>6. J.started = 1
  BY <1>1, <1>3
<1>7. J = T
  BY <1>2, <1>3, <1>4, <1>5, <1>6, TxEqual
<1> QED BY <1>7 DEF J, T

LEMMA AllocTxUpd ==
  upd_tx(alloc_tx(zero_req)) = zero_tx
<1> DEFINE R == alloc_tx(zero_req)
           J == upd_tx(R)
           T == zero_tx
<1>1. R \in Tx /\ T \in Tx
  BY AllocTxType DEF MetaReqs
<1>2. /\ R.err = "ok" /\ ~R.closed /\ R.started = 1 /\ R.finished = 0 /\ R.live
      /\ R.reqs = {zero_req}
  BY DEF alloc_tx
<1>3. /\ T.err = "ok" /\ ~T.closed /\ T.started = 1 /\ T.finished = 0 /\ T.live
      /\ T.upd /\ T.reqs = {zero_req}
  BY DEF zero_tx
<1> HIDE DEF R, T
<1>4. J \in Tx
  BY <1>1, TxTypes DEF upd_tx
<1>5. /\ J.err = R.err /\ J.closed = R.closed /\ J.started = R.started /\ J.finished = R.finished
      /\ J.live = R.live /\ J.upd /\ J.reqs = R.reqs
  BY <1>1 DEF upd_tx, Tx
<1> HIDE DEF J
<1>6. J.closed \in BOOLEAN /\ J.live \in BOOLEAN /\ J.upd \in BOOLEAN
      /\ T.closed \in BOOLEAN /\ T.live \in BOOLEAN /\ T.upd \in BOOLEAN
  BY <1>1, <1>4 DEF Tx
<1>7. J = T
  BY <1>1, <1>2, <1>3, <1>4, <1>5, <1>6, TxEqual
<1> QED BY <1>7 DEF J, T, R

(* lock_bitmap and add_to_transaction.                                      *)
LEMMA EnterEffect ==
  ASSUME NEW s \in VhdState, NEW b \in Blocks, NEW q \in MetaReqs, NEW w, s.bm[b].tx = init_tx,
         w = add_to_transaction(lock_bitmap(s, b), b, q)
  PROVE  /\ w \in VhdState /\ OnlyBlk(s, w, b) /\ w.req = s.req /\ w.vfree = s.vfree /\ w.aio = s.aio
         /\ w.bm[b] = alloc_bm(s.bm[b], alloc_tx(q))
<1> DEFINE T == alloc_tx(q)
           m == alloc_bm(s.bm[b], T)
           l == [s.bm[b] EXCEPT !.locked = TRUE]
           u == with_bm(s, b, l)
           J == joined(u.bm[b].tx, {q})
           k == [u.bm[b] EXCEPT !.tx = J]
<1>1. w = with_bm(u, b, k)
  BY DEF add_to_transaction, lock_bitmap, with_tx
<1>2. s.bm[b] \in Bitmap
  BY BmField
<1>3. l.tx = init_tx /\ l \in Bitmap
  BY <1>2 DEF Bitmap
<1>4. u \in VhdState /\ OnlyBlk(s, u, b) /\ u.bm[b] = l /\ u.req = s.req /\ u.vfree = s.vfree /\ u.aio = s.aio
  BY <1>3, WithBm, UpdBm
<1>5. J = T
  BY <1>3, <1>4, AllocTx
<1>6. k = m
  BY <1>4, <1>5, <1>2 DEF alloc_bm, Bitmap
<1> HIDE DEF k, J
<1>7. /\ OnlyBlk(u, w, b) /\ w.bm[b] = k /\ w.req = u.req /\ w.vfree = u.vfree /\ w.aio = u.aio
  BY <1>1, <1>4, WithBm
<1>8. w \in VhdState
  BY LockType, AddType DEF MetaReqs
<1> HIDE DEF u
<1> QED BY <1>4, <1>6, <1>7, <1>8 DEF OnlyBlk, SameBat

(* reserve_new_block: the block gets the next slot.                         *)
reserve(s, b) == [s EXCEPT !.locked = TRUE, !.pbw_blk = b, !.pbw_offset = s.next_db]

LEMMA ReserveEffect ==
  ASSUME NEW s \in VhdState, NEW b \in Blocks, NEW t, s.next_db \in Entries, t = reserve(s, b)
  PROVE  /\ t \in VhdState /\ t.up = s.up /\ t.prealloc = s.prealloc /\ t.batmap = s.batmap /\ t.cached = s.cached
         /\ t.req = s.req /\ t.vfree = s.vfree /\ t.bat = s.bat /\ t.next_db = s.next_db
         /\ t.bm = s.bm /\ t.aio = s.aio /\ t.locked /\ t.pbw_blk = b /\ t.pbw_offset = s.next_db
         /\ t.started = s.started /\ t.bat_err = s.bat_err /\ t.bat_tx = s.bat_tx
<1>1. s.next_db \in Entries
  OBVIOUS
<1> QED BY <1>1 DEF reserve, VhdState

(* update_bat starts with a bitmap of zeros.                                *)
LEMMA ZeroAllocates ==
  ASSUME NEW s \in VhdState, NEW b \in Blocks, NEW t, s.bm[b].tx = init_tx, ~s.started,
         s.bat_err = "ok", ~s.bat_tx, s.next_db \in Entries,
         t = tx_update_bat(reserve_and_zero(s, b), b)
  PROVE  Allocates(s, t, b, "zero_bm", zero_req) /\ t \in VhdState
<1> DEFINE p == reserve(s, b)
           w == add_to_transaction(lock_bitmap(p, b), b, zero_req)
           z == queue_tiocb(w, "zero_bm", b, zero_req, s.next_db)
           T == alloc_tx(zero_req)
           m == alloc_bm(p.bm[b], T)
           U == upd_tx(z.bm[b].tx)
           k == [z.bm[b] EXCEPT !.tx = U]
           io == new_io("zero_bm", b, zero_req, s.next_db)
<1>1. t = with_bm(z, b, k)
  BY DEF tx_update_bat, reserve_and_zero, with_tx, reserve, upd_tx
<1>2. /\ p \in VhdState /\ p.up = s.up /\ p.prealloc = s.prealloc /\ p.batmap = s.batmap /\ p.cached = s.cached
      /\ p.req = s.req /\ p.vfree = s.vfree /\ p.bat = s.bat /\ p.next_db = s.next_db
      /\ p.bm = s.bm /\ p.aio = s.aio /\ p.locked /\ p.pbw_blk = b /\ p.pbw_offset = s.next_db
      /\ p.started = s.started /\ p.bat_err = s.bat_err /\ p.bat_tx = s.bat_tx
  BY ReserveEffect
<1> HIDE DEF p
<1>3. p.bm[b].tx = init_tx /\ zero_req \in MetaReqs
  BY <1>2 DEF MetaReqs
<1>31. /\ T = alloc_tx(zero_req) /\ m = alloc_bm(p.bm[b], T)
       /\ w = add_to_transaction(lock_bitmap(p, b), b, zero_req)
  OBVIOUS
<1> HIDE DEF T, m, w
<1>4. /\ w \in VhdState /\ OnlyBlk(p, w, b) /\ w.req = p.req /\ w.vfree = p.vfree /\ w.aio = p.aio
      /\ w.bm[b] = m
  <2>1. /\ p \in VhdState /\ b \in Blocks /\ p.bm[b].tx = init_tx /\ zero_req \in MetaReqs
        /\ w = add_to_transaction(lock_bitmap(p, b), b, zero_req)
    BY <1>2, <1>3, <1>31
  <2>2. /\ w \in VhdState /\ OnlyBlk(p, w, b) /\ w.req = p.req /\ w.vfree = p.vfree /\ w.aio = p.aio
        /\ w.bm[b] = alloc_bm(p.bm[b], alloc_tx(zero_req))
    BY ONLY <2>1, EnterEffect
  <2> QED BY <2>2, <1>31
<1> HIDE DEF w
<1>5. /\ SameBat(w, z) /\ z.up = w.up /\ z.prealloc = w.prealloc /\ z.batmap = w.batmap /\ z.cached = w.cached
      /\ z.bm = w.bm /\ z.req = w.req /\ z.vfree = w.vfree /\ z.aio = w.aio \cup {io}
  BY <1>4, QueueEffect DEF new_io
<1>6. z \in VhdState
  BY <1>4, <1>3, MetaAio DEF MetaOps
<1> HIDE DEF z
<1>7. s.bm[b] \in Bitmap
  BY BmField
<1>8. m.tx = T /\ m = alloc_bm(s.bm[b], T)
  BY <1>2, <1>31, <1>7 DEF alloc_bm, Bitmap
<1>9. U = zero_tx
  BY <1>3, <1>4, <1>5, <1>8, <1>31, AllocTxUpd
<1>10. k = alloc_bm(s.bm[b], zero_tx)
  BY <1>4, <1>5, <1>7, <1>8, <1>9 DEF alloc_bm, Bitmap
<1> HIDE DEF k, io
<1>11. OnlyBlk(z, t, b) /\ t.bm[b] = k /\ t.req = z.req /\ t.vfree = z.vfree /\ t.aio = z.aio
  BY <1>1, <1>6, WithBm
<1>12. t \in VhdState
  <2>1. reserve_and_zero(s, b) \in VhdState
    BY ReserveType
  <2> QED BY <2>1, TxUpdateType
<1>13. /\ t.up = s.up /\ t.prealloc = s.prealloc /\ t.batmap = s.batmap /\ t.cached = s.cached
       /\ t.req = s.req /\ t.vfree = s.vfree /\ t.bat = s.bat /\ t.next_db = s.next_db
       /\ \A x \in Blocks : x # b => t.bm[x] = s.bm[x]
  BY <1>2, <1>4, <1>5, <1>11 DEF OnlyBlk, SameBat
<1>14. /\ t.locked /\ t.pbw_blk = b /\ t.pbw_offset = s.next_db /\ t.bat_err = "ok" /\ ~t.bat_tx
       /\ ~t.started
  BY <1>2, <1>4, <1>5, <1>11 DEF OnlyBlk, SameBat
<1>15. t.aio = s.aio \cup {io}
  BY <1>2, <1>4, <1>5, <1>11
<1> QED BY <1>10, <1>11, <1>12, <1>13, <1>14, <1>15 DEF Allocates, alloc_bm, zero_tx, io, new_io

(* allocate_block starts with the BAT write.                                *)
locking(s) == [s EXCEPT !.locked = TRUE]

LEMMA BatAllocates ==
  ASSUME NEW s \in VhdState, NEW b \in Blocks, NEW t, s.bm[b].tx = init_tx,
         s.pbw_blk = b, s.pbw_offset = s.next_db,
         t = add_to_transaction(schedule_bat_write(lock_bitmap(locking(s), b)), b, bat_req)
  PROVE  Allocates(s, t, b, "bat", bat_req) /\ t \in VhdState
<1> DEFINE p == locking(s)
           l == lock_bitmap(p, b)
           z == schedule_bat_write(l)
           L == [p.bm[b] EXCEPT !.locked = TRUE]
           J == joined(z.bm[b].tx, {bat_req})
           k == [z.bm[b] EXCEPT !.tx = J]
           io == new_io("bat", b, bat_req, s.next_db)
<1>1. /\ p \in VhdState /\ p.up = s.up /\ p.prealloc = s.prealloc /\ p.batmap = s.batmap /\ p.cached = s.cached
      /\ p.req = s.req /\ p.vfree = s.vfree /\ p.bat = s.bat /\ p.next_db = s.next_db
      /\ p.bm = s.bm /\ p.aio = s.aio /\ p.locked /\ p.pbw_blk = b /\ p.pbw_offset = s.next_db
  BY DEF locking, VhdState
<1> HIDE DEF p
<1>2. s.bm[b] \in Bitmap
  BY BmField
<1>3. L \in Bitmap /\ L.tx = init_tx
  BY <1>1, <1>2 DEF Bitmap
<1>4. l \in VhdState /\ OnlyBlk(p, l, b) /\ l.bm[b] = L /\ l.req = p.req /\ l.vfree = p.vfree /\ l.aio = p.aio
  BY <1>1, <1>3, WithBm, LockType DEF lock_bitmap
<1> HIDE DEF l
<1>5. /\ z \in VhdState /\ z.up = l.up /\ z.prealloc = l.prealloc /\ z.batmap = l.batmap
      /\ z.cached = l.cached /\ z.req = l.req /\ z.vfree = l.vfree /\ z.bat = l.bat
      /\ z.next_db = l.next_db /\ z.bm = l.bm
      /\ z.locked = l.locked /\ z.pbw_blk = l.pbw_blk /\ z.pbw_offset = l.pbw_offset
      /\ z.bat_err = "ok" /\ ~z.bat_tx /\ z.started /\ z.bat_buf = bat_sector(l)
      /\ z.aio = l.aio \cup {[op |-> "bat", blk |-> l.pbw_blk, req |-> bat_req,
                              slot |-> l.pbw_offset, landed |-> FALSE]}
  BY <1>4, BatWriteEffect
<1>6. l.pbw_blk = b /\ l.pbw_offset = s.next_db /\ l.bat = s.bat /\ l.locked
  BY <1>1, <1>4 DEF OnlyBlk, SameBat
<1>7. z.aio = s.aio \cup {io}
  BY <1>1, <1>4, <1>5, <1>6 DEF new_io
<1>8. t = with_bm(z, b, k)
  BY DEF add_to_transaction, with_tx, z, l, p
<1> HIDE DEF z, io
<1>9. J = alloc_tx(bat_req)
  <2>1. z.bm[b].tx = init_tx /\ bat_req \in MetaReqs
    BY <1>3, <1>4, <1>5, ZenonT(40) DEF MetaReqs
  <2> QED BY <2>1, AllocTx
<1>10. k = alloc_bm(s.bm[b], alloc_tx(bat_req))
  BY <1>1, <1>2, <1>4, <1>5, <1>9, ZenonT(40) DEF alloc_bm, Bitmap
<1> HIDE DEF k
<1>11. OnlyBlk(z, t, b) /\ t.bm[b] = k /\ t.req = z.req /\ t.vfree = z.vfree /\ t.aio = z.aio
  BY <1>5, <1>8, WithBm
<1>12. t \in VhdState
  BY <1>5, AddType DEF MetaReqs, z, l, p
<1>13. /\ t.up = s.up /\ t.prealloc = s.prealloc /\ t.batmap = s.batmap /\ t.cached = s.cached
       /\ t.req = s.req /\ t.vfree = s.vfree /\ t.bat = s.bat /\ t.next_db = s.next_db
       /\ \A x \in Blocks : x # b => t.bm[x] = s.bm[x]
  BY <1>1, <1>4, <1>5, <1>11 DEF OnlyBlk, SameBat
<1>14. /\ t.locked /\ t.pbw_blk = b /\ t.pbw_offset = s.next_db /\ t.bat_err = "ok" /\ ~t.bat_tx
       /\ t.started /\ t.bat_buf = bat_sector(l)
  BY <1>5, <1>6, <1>11 DEF OnlyBlk, SameBat
<1>15. bat_sector(l) = bat_sector(t)
  BY <1>6, <1>13, <1>14 DEF bat_sector
<1>16. t.aio = s.aio \cup {io}
  BY <1>7, <1>11
<1> QED BY <1>10, <1>11, <1>12, <1>13, <1>14, <1>15, <1>16 DEF Allocates, alloc_bm, alloc_tx, io, new_io

(* The block is being allocated, its transaction under way.                 *)
Pending(s, b) == /\ Mine(s, b) /\ b \in s.cached /\ ~s.bm[b].rd
                 /\ s.bat[b] = DD_BLK_UNUSED /\ s.pbw_offset \in Slots

LEMMA LockedPending ==
  ASSUME NEW s, NEW h, NEW b \in Blocks, Driver(s, h, NoBlock), Mine(s, b)
  PROVE  Pending(s, b)
<1>1. s.bat[b] = DD_BLK_UNUSED /\ s.pbw_offset \in Slots
  BY HeldSlot
<1>2. s.bm[b].tx.live
  BY BlkNo DEF Driver, BatOK, Mine, Allocating, Failing, Done
<1>3. BlkOK(s, b, NoBlock)
  BY DEF Driver
<1> QED BY <1>1, <1>2, <1>3, InitBm DEF BlkOK, Pending

LEMMA AllocPending ==
  ASSUME NEW s, NEW t, NEW h, NEW b \in Blocks, NEW op, NEW q, Driver(t, h, NoBlock),
         Allocates(s, t, b, op, q)
  PROVE  Pending(t, b)
<1>1. Mine(t, b)
  BY DEF Allocates, Mine
<1> QED BY <1>1, LockedPending

(* What an allocation leaves: the request is in hand, and without an error  *)
(* the block has a slot.                                                    *)
Placed(s, u, b, d, e, c, n, r, err) ==
  /\ Held(u, e, c, n, r) /\ u.req = s.req /\ e.bat = d.bat /\ err \in Errors
  /\ err = "ok" => Pending(u, b)

LEMMA PlacedSame ==
  ASSUME NEW s, NEW b, NEW d, NEW c, NEW n, NEW r, NEW err \in Errors, Held(s, d, c, n, r),
         err = "ok" => Pending(s, b)
  PROVE  Placed(s, s, b, d, d, c, n, r, err)
  BY DEF Placed

LEMMA UnlockedFacts ==
  ASSUME NEW s, NEW h, NEW b \in Blocks, Driver(s, h, NoBlock), ~s.locked, s.bat[b] = DD_BLK_UNUSED
  PROVE  s.bm[b].tx = init_tx /\ ~s.started /\ s.bat_err = "ok" /\ ~s.bat_tx
<1>1. ~Mine(s, b)
  BY DEF Mine
<1>2. s.bm[b].tx = init_tx
  BY <1>1, NoSlotNoIO
<1> QED BY <1>2 DEF Driver, BatOK

(* alloc_vhd_bitmap and install_bitmap, unless the bitmap is there.         *)
cache(s, b, v) == IF b \in s.cached THEN s ELSE install_bitmap(s, b, v)

LEMMA CacheHeld ==
  ASSUME NEW s, NEW d, NEW c, NEW n, NEW r \in Reqs, NEW b \in Blocks, NEW v, NEW t,
         Held(s, d, c, n, r), s.bat[b] = DD_BLK_UNUSED, b \in s.cached \/ Evictable(s, v),
         t = cache(s, b, v)
  PROVE  /\ Held(t, d, c, n, r) /\ t.req = s.req /\ b \in t.cached /\ SameBat(s, t)
         /\ t.prealloc = s.prealloc
<1>1. Driver(s, r, NoBlock) /\ FH(s, d, c, n, r)
  BY DEF Held
<1>2. CASE b \in s.cached
  BY <1>2 DEF cache, SameBat
<1>3. CASE b \notin s.cached
  <2>1. t = install_bitmap(s, b, v) /\ Evictable(s, v)
    BY <1>3 DEF cache
  <2>2. /\ Driver(t, r, NoBlock) /\ FH(t, d, c, n, r) /\ b \in t.cached
        /\ SameBat(s, t) /\ t.prealloc = s.prealloc /\ t.req = s.req
    BY <1>1, <1>3, <2>1, InstallHist
  <2>3. Held(t, d, c, n, r)
    BY <2>2, HeldSame
  <2> QED BY <2>2, <2>3
<1> QED BY <1>2, <1>3

(* update_bat.                                                              *)
LEMMA UpdateBatHist ==
  ASSUME NEW s, NEW d, NEW c, NEW n, NEW r \in Reqs, NEW b, NEW v, NEW R,
         Held(s, d, c, n, r), b = blk_of(s.req[r].sec), s.bat[b] = DD_BLK_UNUSED,
         s.locked => s.pbw_blk = b, ~s.prealloc, v = NO_BITMAP \/ Evictable(s, v),
         R = update_bat(s, b, v)
  PROVE  Placed(s, R.s, b, d, d, c, n, r, R.err) /\ R.zero = {}
<1>1. /\ Driver(s, r, NoBlock) /\ FH(s, d, c, n, r) /\ s \in VhdState /\ b \in Blocks
      /\ s.locked \in BOOLEAN
  BY ReqField DEF Held, Driver, VhdState
<1>2. CASE s.locked
  <2>1. R.s = s /\ R.err = "ok" /\ R.zero = {}
    BY <1>2 DEF update_bat, Result
  <2>2. Pending(s, b)
    BY <1>1, <1>2, LockedPending DEF Mine
  <2> QED BY <2>1, <2>2, PlacedSame DEF Errors
<1>3. CASE ~s.locked /\ b \notin s.cached /\ v = NO_BITMAP
  <2>1. R.s = s /\ R.err = "EBUSY" /\ R.zero = {}
    BY <1>3 DEF update_bat, Result
  <2> QED BY <2>1, PlacedSame DEF Errors
<1>4. CASE ~s.locked /\ ~(b \notin s.cached /\ v = NO_BITMAP)
  <2> DEFINE x == cache(s, b, v)
  <2>1. /\ Held(x, d, c, n, r) /\ x.req = s.req /\ b \in x.cached /\ SameBat(s, x)
        /\ x.prealloc = s.prealloc
    BY <1>1, <1>4, CacheHeld
  <2>2. R = IF file_full(s) THEN Result(x, "ENOSPC", {})
            ELSE Result(tx_update_bat(reserve_and_zero(x, b), b), "ok", {})
    BY <1>4 DEF update_bat, cache
  <2> HIDE DEF x
  <2>3. CASE file_full(s)
    <3>1. R.s = x /\ R.err = "ENOSPC" /\ R.zero = {}
      BY <2>2, <2>3 DEF Result
    <3> QED BY <2>1, <3>1 DEF Placed, Errors
  <2>4. CASE ~file_full(s)
    <3> DEFINE t == tx_update_bat(reserve_and_zero(x, b), b)
    <3>1. R.s = t /\ R.err = "ok" /\ R.zero = {}
      BY <2>2, <2>4 DEF Result
    <3>2. Driver(x, r, NoBlock) /\ FH(x, d, c, n, r) /\ x \in VhdState
      BY <2>1 DEF Held, Driver
    <3>3. ~x.locked /\ x.bat[b] = DD_BLK_UNUSED /\ x.next_db \in Slots /\ x.next_db \in Entries /\ ~x.prealloc
      BY <1>1, <1>4, <2>1, <2>4, FreeSlot DEF SameBat
    <3>4. x.bm[b].tx = init_tx /\ ~x.started /\ x.bat_err = "ok" /\ ~x.bat_tx
      BY <1>1, <3>2, <3>3, UnlockedFacts
    <3>5. Allocates(x, t, b, "zero_bm", zero_req) /\ t \in VhdState
      BY <1>1, <3>2, <3>3, <3>4, ZeroAllocates
    <3> HIDE DEF t
    <3>6. blk_of(x.req[r].sec) = b
      BY <2>1
    <3>7. Driver(t, r, NoBlock) /\ FH(t, d, c, n, r)
      BY <1>1, <2>1, <3>2, <3>3, <3>5, <3>6, AllocHist
    <3>8. Pending(t, b) /\ t.req = x.req
      <4>1. Pending(t, b)
        BY <1>1, <3>5, <3>7, AllocPending
      <4> QED BY <4>1, <3>5 DEF Allocates
    <3>9. Held(t, d, c, n, r)
      BY <2>1, <3>7, <3>8, HeldSame
    <3> QED BY <2>1, <3>1, <3>8, <3>9 DEF Placed, Errors
  <2> QED BY <2>3, <2>4
<1> QED BY <1>1, <1>2, <1>3, <1>4

(* allocate_block notes the slot before it zeroes it.                       *)
note(s, b) == [s EXCEPT !.pbw_blk = b, !.pbw_offset = s.next_db]

LEMMA NoteHeld ==
  ASSUME NEW s, NEW d, NEW c, NEW n, NEW r \in Reqs, NEW b \in Blocks, NEW p,
         Held(s, d, c, n, r), ~s.locked, s.next_db \in Entries, p = note(s, b)
  PROVE  /\ Held(p, d, c, n, r) /\ p.req = s.req /\ p.bat = s.bat /\ p.next_db = s.next_db
         /\ ~p.locked /\ p.pbw_blk = b /\ p.pbw_offset = s.next_db /\ p.cached = s.cached
         /\ p.bm = s.bm /\ p.prealloc = s.prealloc
<1>1. Driver(s, r, NoBlock) /\ FH(s, d, c, n, r) /\ s \in VhdState
  BY DEF Held, Driver
<1>2. Notes(s, p) /\ p.pbw_blk = b /\ p.pbw_offset = s.next_db
  BY <1>1 DEF Notes, note, VhdState
<1>3. p \in VhdState
  <2>1. s.next_db \in Entries
    OBVIOUS
  <2> QED BY <1>1, <2>1 DEF note, VhdState
<1>4. Driver(p, r, NoBlock)
  BY <1>1, <1>2, <1>3, NoteDriver
<1>5. FH(p, d, c, n, r)
  BY <1>1, <1>2, <1>3, NotesCalm, CalmFH
<1>6. p.req = s.req
  BY <1>2 DEF Notes
<1>7. Held(p, d, c, n, r)
  BY <1>4, <1>5, <1>6, HeldSame
<1> QED BY <1>2, <1>7 DEF Notes

just(x) == {x}

LEMMA ZeroHeld ==
  ASSUME NEW s, NEW d, NEW e, NEW c, NEW n, NEW r \in Reqs, Held(s, d, c, n, r), ~s.locked,
         s.next_db \in Slots, e = zeroed(d, just(s.next_db))
  PROVE  Held(s, e, c, n, r) /\ e.bat = d.bat /\ e.map[s.next_db] = {}
<1>1. Driver(s, r, NoBlock) /\ FH(s, d, c, n, r) /\ d \in DiskState
  BY FHType DEF Held
<1> DEFINE Z == just(s.next_db)
<1>2. s.next_db \in Z /\ Z \subseteq {s.next_db} /\ e = zeroed(d, Z)
  BY DEF just
<1> HIDE DEF Z
<1>5. /\ e.bat = d.bat
      /\ \A x \in Slots : x \in Z => e.map[x] = {}
  BY <1>1, <1>2, ZeroedEffect
<1>3. e.bat = d.bat /\ e.map[s.next_db] = {}
  BY <1>2, <1>5
<1>4. FH(s, e, c, n, r)
  BY <1>1, <1>2, ZeroSlotHist
<1> QED BY <1>1, <1>3, <1>4, HeldSame

(* allocate_block.                                                          *)
start_bat(s, b) == add_to_transaction(schedule_bat_write(lock_bitmap(locking(s), b)), b, bat_req)

LEMMA NothingZeroed ==
  ASSUME NEW d \in DiskState
  PROVE  zeroed(d, {}) = d
<1>1. [x \in Slots |-> d.map[x]] = d.map /\ [x \in Slots |-> d.data[x]] = d.data
  BY DEF DiskState
<1>2. /\ [x \in Slots |-> IF x \in {} THEN {} ELSE d.map[x]] = [x \in Slots |-> d.map[x]]
      /\ [x \in Slots |-> IF x \in {} THEN [k \in Secs |-> Junk] ELSE d.data[x]] = [x \in Slots |-> d.data[x]]
  OBVIOUS
<1> QED BY <1>1, <1>2 DEF zeroed, DiskState

LEMMA AllocateHist ==
  ASSUME NEW s, NEW d, NEW c, NEW n, NEW r \in Reqs, NEW b, NEW v, NEW w \in Errors, NEW R, NEW e,
         Held(s, d, c, n, r), b = blk_of(s.req[r].sec), s.bat[b] = DD_BLK_UNUSED,
         s.locked => s.pbw_blk = b, s.prealloc, v = NO_BITMAP \/ Evictable(s, v),
         R = allocate_block(s, b, v, w), e = zeroed(d, R.zero)
  PROVE  Placed(s, R.s, b, d, e, c, n, r, R.err)
<1>1. /\ Driver(s, r, NoBlock) /\ FH(s, d, c, n, r) /\ s \in VhdState /\ b \in Blocks
      /\ s.locked \in BOOLEAN /\ d \in DiskState
  BY ReqField, FHType DEF Held, Driver, VhdState
<1>2. zeroed(d, {}) = d
  BY <1>1, NothingZeroed
<1>3. CASE s.locked
  <2>1. R.s = s /\ R.err = (IF s.bat_err # "ok" THEN "EBUSY" ELSE "ok") /\ R.zero = {}
    BY <1>3 DEF allocate_block, Result
  <2>2. Pending(s, b)
    BY <1>1, <1>3, LockedPending DEF Mine
  <2>3. R.err \in Errors /\ e = d
    BY <1>2, <2>1 DEF Errors
  <2> QED BY <2>1, <2>2, <2>3, PlacedSame
<1>4. CASE ~s.locked /\ file_full(s)
  <2>1. R.s = s /\ R.err = "ENOSPC" /\ R.zero = {}
    BY <1>4 DEF allocate_block, Result
  <2> QED BY <1>2, <2>1, PlacedSame DEF Errors
<1>5. CASE ~s.locked /\ ~file_full(s)
  <2> DEFINE p == note(s, b)
             x == cache(p, b, v)
  <2>1. s.next_db \in Slots /\ s.next_db \in Entries
    BY <1>1, <1>5, FreeSlot
  <2>2. /\ Held(p, d, c, n, r) /\ p.req = s.req /\ p.bat = s.bat /\ p.next_db = s.next_db
        /\ ~p.locked /\ p.pbw_blk = b /\ p.pbw_offset = s.next_db /\ p.cached = s.cached
        /\ p.bm = s.bm /\ p.prealloc = s.prealloc
    <3>1. /\ Held(s, d, c, n, r) /\ b \in Blocks /\ r \in Reqs /\ ~s.locked /\ s.next_db \in Entries
          /\ p = note(s, b)
      BY <1>1, <1>5, <2>1
    <3> HIDE DEF p
    <3> QED BY ONLY <3>1, NoteHeld
  <2>3. CASE w # "ok"
    <3>1. R.s = p /\ R.err = w /\ R.zero = {}
      BY <1>5, <2>3 DEF allocate_block, Result, note
    <3> QED BY <1>2, <2>2, <2>3, <3>1 DEF Placed
  <2>4. CASE w = "ok"
    <3> DEFINE f == zeroed(d, {s.next_db})
    <3>1. Held(p, f, c, n, r) /\ f.bat = d.bat /\ f.map[p.next_db] = {}
      <4>1. f = zeroed(d, just(p.next_db)) /\ p.next_db \in Slots
        BY <2>1, <2>2 DEF just
      <4>2. Held(p, d, c, n, r) /\ ~p.locked /\ r \in Reqs
        BY <2>2
      <4> HIDE DEF p, f
      <4> QED BY ONLY <4>1, <4>2, ZeroHeld
    <3>2. R = IF b \notin s.cached /\ v = NO_BITMAP THEN Result(p, "EBUSY", {s.next_db})
              ELSE Result(start_bat(x, b), "ok", {s.next_db})
      BY <1>5, <2>2, <2>4 DEF allocate_block, start_bat, locking, cache, note
    <3> HIDE DEF p, f
    <3>3. R.zero = {s.next_db} /\ e = f
      BY <3>2 DEF Result, f
    <3>4. CASE b \notin s.cached /\ v = NO_BITMAP
      <4>1. R.s = p /\ R.err = "EBUSY"
        BY <3>2, <3>4 DEF Result
      <4> QED BY <2>2, <3>1, <3>3, <4>1 DEF Placed, Errors
    <3>5. CASE ~(b \notin s.cached /\ v = NO_BITMAP)
      <4> DEFINE t == start_bat(x, b)
      <4>1. R.s = t /\ R.err = "ok"
        BY <3>2, <3>5 DEF Result
      <4>2. b \in p.cached \/ Evictable(p, v)
        BY <2>2, <3>5 DEF Evictable
      <4>3. /\ Held(x, f, c, n, r) /\ x.req = p.req /\ b \in x.cached /\ SameBat(p, x)
            /\ x.prealloc = p.prealloc
        <5>1. /\ Held(p, f, c, n, r) /\ p.bat[b] = DD_BLK_UNUSED /\ x = cache(p, b, v)
              /\ b \in Blocks /\ r \in Reqs
          BY <1>1, <2>2, <3>1
        <5> HIDE DEF x
        <5> QED BY ONLY <4>2, <5>1, CacheHeld
      <4> HIDE DEF x
      <4>4. Driver(x, r, NoBlock) /\ FH(x, f, c, n, r) /\ x \in VhdState
        BY <4>3 DEF Held, Driver
      <4>5. /\ ~x.locked /\ x.bat[b] = DD_BLK_UNUSED /\ x.next_db \in Slots /\ x.prealloc
            /\ x.pbw_blk = b /\ x.pbw_offset = x.next_db /\ f.map[x.next_db] = {}
        BY <2>1, <2>2, <3>1, <4>3 DEF SameBat
      <4>6. x.bm[b].tx = init_tx
        BY <1>1, <4>4, <4>5, UnlockedFacts
      <4>7. Allocates(x, t, b, "bat", bat_req) /\ t \in VhdState
        BY <1>1, <4>4, <4>5, <4>6, BatAllocates DEF start_bat
      <4> HIDE DEF t
      <4>8. blk_of(x.req[r].sec) = b
        BY <2>2, <4>3
      <4>9. Driver(t, r, NoBlock) /\ FH(t, f, c, n, r)
        BY <1>1, <4>3, <4>4, <4>5, <4>7, <4>8, AllocHist
      <4>10. Pending(t, b) /\ t.req = x.req
        <5>1. Pending(t, b)
          BY <1>1, <4>7, <4>9, AllocPending
        <5> QED BY <5>1, <4>7 DEF Allocates
      <4>11. Held(t, f, c, n, r)
        BY <4>3, <4>9, <4>10, HeldSame
      <4> QED BY <2>2, <3>1, <3>3, <4>1, <4>3, <4>10, <4>11 DEF Placed, Errors
    <3> QED BY <3>4, <3>5
  <2> QED BY <2>3, <2>4
<1> QED BY <1>1, <1>3, <1>4, <1>5

LEMMA LeavesFrom ==
  ASSUME NEW s, NEW a, NEW u, NEW t, NEW d, NEW e, NEW f, NEW c, NEW n, NEW r \in Reqs,
         Same(s, a, r), u.req = a.req, e.bat = d.bat, Leaves(u, t, e, f, c, n, r)
  PROVE  Leaves(s, t, d, f, c, n, r)
  BY DEF Leaves, Same, OthersRest

LEMMA LeavesAfter ==
  ASSUME NEW s, NEW a, NEW t, NEW d, NEW c, NEW n, NEW r \in Reqs,
         Same(s, a, r), Leaves(a, t, d, d, c, n, r)
  PROVE  Leaves(s, t, d, d, c, n, r)
  BY DEF Leaves, Same, OthersRest

(* The "fail" label of schedule_data_write.                                 *)
LEMMA RefuseHeld ==
  ASSUME NEW s, NEW d, NEW c, NEW n, NEW r \in Reqs, NEW e \in Errors, NEW t, Held(s, d, c, n, r),
         e # "ok", t = refuse(s, r, e)
  PROVE  Leaves(s, t, d, d, c, n, r)
<1> DEFINE p == td_complete_request(s, r, e)
<1>1. s \in VhdState
  BY DEF Held, Driver
<1>2. /\ p \in VhdState /\ OnlyReq(s, p, r) /\ p.vfree = s.vfree
      /\ p.req[r].st = "done" /\ p.req[r].err = e
      /\ p.req[r].op = s.req[r].op /\ p.req[r].sec = s.req[r].sec
  BY <1>1, AnswerEffect
<1>3. t = free_vhd_request(p)
  BY DEF refuse
<1> HIDE DEF p
<1>4. OnlyReq(p, t, r) /\ t.req = p.req /\ t.vfree = p.vfree + 1
  BY <1>2, <1>3 DEF free_vhd_request, VhdState, OnlyReq, SameBat
<1>5. t \in VhdState
  BY <1>2, <1>3, VreqType
<1>6. OnlyReq(s, t, r)
  BY <1>2, <1>4 DEF OnlyReq, SameBat
<1>7. Answers(s, t, n, r) /\ t.vfree = s.vfree + 1
  BY <1>2, <1>4, <1>5, <1>6 DEF Answers
<1> QED BY <1>7, AnswerHeld

(* What the driver shows of a block is not changed by taking a vhd_request. *)
LEMMA OnlyReqShows ==
  ASSUME NEW s, NEW a, NEW r, NEW b, OnlyReq(s, a, r)
  PROVE  /\ a.bat = s.bat /\ a.cached = s.cached /\ a.bm = s.bm /\ a.batmap = s.batmap
         /\ a.prealloc = s.prealloc /\ a.locked = s.locked /\ a.pbw_blk = s.pbw_blk
         /\ \A v : Evictable(s, v) => Evictable(a, v)
         /\ \A x : InSlot(s, x) => InSlot(a, x)
         /\ \A x : InParent(s, x) => InParent(a, x)
  BY DEF OnlyReq, SameBat, Evictable, InSlot, InParent

LEMMA DataReadLeaves ==
  ASSUME NEW s, NEW d, NEW c, NEW n, NEW r \in Reqs, NEW t, Offered(s, d, c, n, r),
         s.req[r].op = "read", InSlot(s, s.req[r].sec), t = schedule_data_read(s, r)
  PROVE  Leaves(s, t, d, d, c, n, r)
<1>1. CASE s.vfree = 0
  BY <1>1, RefuseNow DEF schedule_data_read, Errors
<1>2. CASE s.vfree # 0
  <2> DEFINE a == alloc_vhd_request(s, r, "io")
             b == blk_of(s.req[r].sec)
  <2>1. t = queue_tiocb(a, "data_read", b, r, s.bat[b])
    BY <1>2 DEF schedule_data_read
  <2>2. Held(a, d, c, n, r) /\ Same(s, a, r) /\ OnlyReq(s, a, r)
    BY <1>2, Take
  <2> HIDE DEF a
  <2>3. a.req[r].op = "read" /\ a.req[r].sec = s.req[r].sec /\ a.bat = s.bat /\ InSlot(a, a.req[r].sec)
    BY <2>2, OnlyReqShows DEF Same
  <2>4. Leaves(a, t, d, d, c, n, r)
    BY <2>1, <2>2, <2>3, PlainLeaves DEF Data
  <2> QED BY <2>2, <2>4, LeavesAfter
<1> QED BY <1>1, <1>2

(* What an operator that can fail returns.                                  *)
LEMMA ResultParts ==
  ASSUME NEW R, NEW t, NEW e, NEW z, R = Result(t, e, z)
  PROVE  R.s = t /\ R.err = e /\ R.zero = z
  BY DEF Result

LEMMA OfferedDisk ==
  ASSUME NEW s, NEW d, NEW c, NEW n, NEW r, Offered(s, d, c, n, r)
  PROVE  zeroed(d, {}) = d /\ s \in VhdState /\ Driver(s, NoReq, NoBlock)
  BY FHType, NothingZeroed DEF Offered, Driver

(* Without a free vhd_request, a write is refused.                          *)
LEMMA NoVreqLeaves ==
  ASSUME NEW s, NEW d, NEW c, NEW n, NEW r \in Reqs, NEW R, NEW e, Offered(s, d, c, n, r),
         R = Result(td_complete_request(s, r, "EBUSY"), "EBUSY", {}), e = zeroed(d, R.zero)
  PROVE  Leaves(s, R.s, d, e, c, n, r)
<1>1. R.s = td_complete_request(s, r, "EBUSY") /\ R.zero = {}
  BY DEF Result
<1>2. e = d
  BY <1>1, OfferedDisk
<1>3. Leaves(s, R.s, d, d, c, n, r)
  BY <1>1, RefuseNow DEF Errors
<1> QED BY <1>2, <1>3

(* A write over data that is in the slot.                                   *)
LEMMA WriteSetLeaves ==
  ASSUME NEW s, NEW d, NEW c, NEW n, NEW r \in Reqs, NEW v, NEW w, NEW R, NEW e, Offered(s, d, c, n, r),
         s.req[r].op = "write", InSlot(s, s.req[r].sec),
         R = schedule_data_write(s, r, FALSE, FALSE, v, w), e = zeroed(d, R.zero)
  PROVE  Leaves(s, R.s, d, e, c, n, r)
<1>1. CASE s.vfree = 0
  <2>1. R = Result(td_complete_request(s, r, "EBUSY"), "EBUSY", {})
    BY <1>1 DEF schedule_data_write
  <2> QED BY <2>1, NoVreqLeaves
<1>2. CASE s.vfree # 0
  <2> DEFINE a == alloc_vhd_request(s, r, "io")
             b == blk_of(s.req[r].sec)
             j == IF sec_of(s.req[r].sec) = 0 /\ s.bat[b] # 0 /\ b \in s.batmap
                  THEN schedule_redundant_bm_write(a, b, r) ELSE a
             t == queue_tiocb(j, "data_write", b, r, s.bat[b])
  <2>1. R = Result(t, "ok", {})
    BY <1>2 DEF schedule_data_write, Result
  <2>2. R.s = t /\ R.zero = {} /\ e = d
    <3> HIDE DEF t
    <3>1. R.s = t /\ R.zero = {}
      BY ONLY <2>1, ResultParts
    <3> QED BY <3>1, OfferedDisk
  <2>3. Held(a, d, c, n, r) /\ Same(s, a, r) /\ OnlyReq(s, a, r)
    BY <1>2, Take
  <2> HIDE DEF a
  <2>4. /\ a.req[r].op = "write" /\ a.req[r].sec = s.req[r].sec /\ a.bat = s.bat /\ a.batmap = s.batmap
        /\ InSlot(a, a.req[r].sec)
    BY <2>3, OnlyReqShows DEF Same
  <2>5. CASE sec_of(s.req[r].sec) = 0 /\ s.bat[b] # 0 /\ b \in s.batmap
    <3>1. t = queue_tiocb(schedule_redundant_bm_write(a, b, r), "data_write", b, r, a.bat[b])
      BY <2>4, <2>5
    <3>2. a.bat[b] # DD_BLK_UNUSED /\ b \in a.batmap /\ b = blk_of(a.req[r].sec)
      BY <2>4, <2>5 DEF InSlot
    <3> HIDE DEF t, b
    <3>3. Leaves(a, t, d, d, c, n, r)
      BY <2>3, <2>4, <3>1, <3>2, RedundantLeaves
    <3> QED BY <2>2, <2>3, <3>3, LeavesAfter
  <2>6. CASE ~(sec_of(s.req[r].sec) = 0 /\ s.bat[b] # 0 /\ b \in s.batmap)
    <3>1. t = queue_tiocb(a, "data_write", b, r, a.bat[b]) /\ b = blk_of(a.req[r].sec)
      BY <2>4, <2>6
    <3> HIDE DEF t, b
    <3>2. Leaves(a, t, d, d, c, n, r)
      BY <2>3, <2>4, <3>1, PlainLeaves DEF Data
    <3> QED BY <2>2, <2>3, <3>2, LeavesAfter
  <2> QED BY <2>5, <2>6
<1> QED BY <1>1, <1>2

(* A write to a sector whose bit is clear.                                  *)
LEMMA WriteClearLeaves ==
  ASSUME NEW s, NEW d, NEW c, NEW n, NEW r \in Reqs, NEW b, NEW v, NEW w, NEW R, NEW e, Offered(s, d, c, n, r),
         s.req[r].op = "write", blk_of(s.req[r].sec) = b,
         s.bat[b] # DD_BLK_UNUSED, b \in s.cached, ~s.bm[b].rd,
         R = schedule_data_write(s, r, FALSE, TRUE, v, w), e = zeroed(d, R.zero)
  PROVE  Leaves(s, R.s, d, e, c, n, r)
<1>1. CASE s.vfree = 0
  <2>1. R = Result(td_complete_request(s, r, "EBUSY"), "EBUSY", {})
    BY <1>1 DEF schedule_data_write
  <2> QED BY <2>1, NoVreqLeaves
<1>2. CASE s.vfree # 0
  <2> DEFINE a == alloc_vhd_request(s, r, "io")
             t == queue_tiocb(join_transaction(a, b, r), "data_write", b, r, s.bat[b])
  <2>1. R = Result(t, "ok", {})
    BY <1>2 DEF schedule_data_write, Result
  <2>2. R.s = t /\ R.zero = {} /\ e = d
    <3> HIDE DEF t
    <3>1. R.s = t /\ R.zero = {}
      BY ONLY <2>1, ResultParts
    <3> QED BY <3>1, OfferedDisk
  <2>3. Held(a, d, c, n, r) /\ Same(s, a, r) /\ OnlyReq(s, a, r)
    BY <1>2, Take
  <2>4. s \in VhdState /\ b \in Blocks
    BY OfferedDisk, ReqField
  <2>5. s.bat[b] \in Slots
    BY <2>4, BatField DEF Entries
  <2>6. t = queue_tiocb(join_transaction(a, b, r), "data_write", b, r, s.bat[b])
    OBVIOUS
  <2> HIDE DEF a, t
  <2>7. /\ a.req[r].op = "write" /\ a.req[r].sec = s.req[r].sec /\ a.bat = s.bat
        /\ a.cached = s.cached /\ a.bm = s.bm
    BY <2>3, OnlyReqShows DEF Same
  <2>8. /\ Held(a, d, c, n, r) /\ b = blk_of(a.req[r].sec) /\ a.req[r].op = "write"
        /\ b \in a.cached /\ ~a.bm[b].rd /\ (a.bat[b] = DD_BLK_UNUSED => Mine(a, b))
        /\ s.bat[b] = a.bat[b] /\ s.bat[b] \in Slots /\ r \in Reqs
    BY <2>3, <2>5, <2>7
  <2>9. Leaves(a, t, d, d, c, n, r)
    BY ONLY <2>6, <2>8, JoinLeaves
  <2> QED BY <2>2, <2>3, <2>9, LeavesAfter
<1> QED BY <1>1, <1>2

(* A write to a block that has no slot yet.                                 *)
LEMMA WriteAllocLeaves ==
  ASSUME NEW s, NEW d, NEW c, NEW n, NEW r \in Reqs, NEW b, NEW v, NEW w \in Errors, NEW R, NEW e,
         Offered(s, d, c, n, r), s.req[r].op = "write", blk_of(s.req[r].sec) = b,
         s.bat[b] = DD_BLK_UNUSED, s.locked => s.pbw_blk = b, v = NO_BITMAP \/ Evictable(s, v),
         R = schedule_data_write(s, r, TRUE, TRUE, v, w), e = zeroed(d, R.zero)
  PROVE  Leaves(s, R.s, d, e, c, n, r)
<1>1. CASE s.vfree = 0
  <2>1. R = Result(td_complete_request(s, r, "EBUSY"), "EBUSY", {})
    BY <1>1 DEF schedule_data_write
  <2> QED BY <2>1, NoVreqLeaves
<1>2. CASE s.vfree # 0
  <2> DEFINE a == alloc_vhd_request(s, r, "io")
             N == IF s.prealloc THEN allocate_block(a, b, v, w) ELSE update_bat(a, b, v)
             t == queue_tiocb(join_transaction(N.s, b, r), "data_write", b, r, N.s.pbw_offset)
  <2>1. R = IF N.err # "ok" THEN Result(refuse(N.s, r, N.err), N.err, N.zero)
            ELSE Result(t, "ok", N.zero)
    BY <1>2 DEF schedule_data_write
  <2>2. R.zero = N.zero /\ R.s = IF N.err # "ok" THEN refuse(N.s, r, N.err) ELSE t
    <3> HIDE DEF t, N
    <3> QED BY ONLY <2>1, ResultParts
  <2>3. Held(a, d, c, n, r) /\ Same(s, a, r) /\ OnlyReq(s, a, r)
    BY <1>2, Take
  <2>4. s \in VhdState /\ b \in Blocks /\ zeroed(d, {}) = d
    BY OfferedDisk, ReqField
  <2>5. /\ t = queue_tiocb(join_transaction(N.s, b, r), "data_write", b, r, N.s.pbw_offset)
        /\ N = IF s.prealloc THEN allocate_block(a, b, v, w) ELSE update_bat(a, b, v)
    OBVIOUS
  <2> HIDE DEF a, t, N
  <2>6. /\ a.req[r].op = "write" /\ b = blk_of(a.req[r].sec) /\ a.bat[b] = DD_BLK_UNUSED
        /\ (a.locked => a.pbw_blk = b) /\ (v = NO_BITMAP \/ Evictable(a, v)) /\ a.prealloc = s.prealloc
    BY <2>3, OnlyReqShows DEF Same
  <2>7. Placed(a, N.s, b, d, e, c, n, r, N.err)
    <3>1. CASE s.prealloc
      <4>1. N = allocate_block(a, b, v, w) /\ e = zeroed(d, N.zero) /\ a.prealloc
        BY <2>2, <2>5, <2>6, <3>1
      <4> QED BY <2>3, <2>6, <4>1, AllocateHist
    <3>2. CASE ~s.prealloc
      <4>1. N = update_bat(a, b, v) /\ ~a.prealloc
        BY <2>5, <2>6, <3>2
      <4>2. Placed(a, N.s, b, d, d, c, n, r, N.err) /\ N.zero = {}
        BY <2>3, <2>6, <4>1, UpdateBatHist
      <4>3. e = d
        BY <2>2, <2>4, <4>2
      <4> QED BY <4>2, <4>3
    <3> QED BY <3>1, <3>2
  <2> DEFINE u == N.s
  <2>8. /\ Held(u, e, c, n, r) /\ u.req = a.req /\ e.bat = d.bat /\ N.err \in Errors
        /\ N.err = "ok" => Pending(u, b)
    BY <2>7 DEF Placed
  <2>9. CASE N.err # "ok"
    <3>1. Leaves(u, R.s, e, e, c, n, r)
      BY <2>2, <2>8, <2>9, RefuseHeld
    <3> HIDE DEF u
    <3> QED BY <2>3, <2>8, <3>1, LeavesFrom
  <2>10. CASE N.err = "ok"
    <3>1. R.s = t /\ t = queue_tiocb(join_transaction(u, b, r), "data_write", b, r, u.pbw_offset)
      BY <2>2, <2>5, <2>10
    <3> HIDE DEF u
    <3>2. /\ Held(u, e, c, n, r) /\ b = blk_of(u.req[r].sec) /\ u.req[r].op = "write"
          /\ b \in u.cached /\ ~u.bm[b].rd /\ Mine(u, b) /\ u.pbw_offset \in Slots /\ r \in Reqs
      BY <2>6, <2>8, <2>10 DEF Pending
    <3>3. Leaves(u, t, e, e, c, n, r)
      BY ONLY <3>1, <3>2, JoinLeaves
    <3> QED BY <2>3, <2>8, <3>1, <3>3, LeavesFrom
  <2> QED BY <2>9, <2>10
<1> QED BY <1>1, <1>2

(* What each answer of read_bitmap_cache means.                             *)
LEMMA CacheSays ==
  ASSUME NEW s, NEW x, NEW b, NEW op \in {"read", "write", "status"}, NEW c,
         b = blk_of(x), c = read_bitmap_cache(s, b, sec_of(x), op)
  PROVE  /\ c \in {"bat_clear", "bit_set", "not_cached", "read_pending", "bit_clear", "bat_locked"}
         /\ c = "bat_locked" => op = "write"
         /\ c = "bat_clear" => /\ s.bat[b] = DD_BLK_UNUSED
                               /\ op = "write" /\ s.locked => s.pbw_blk = b
         /\ c \in {"bat_clear", "bit_clear"} => InParent(s, x)
         /\ c = "bit_clear" => s.bat[b] # DD_BLK_UNUSED /\ b \in s.cached /\ ~s.bm[b].rd
         /\ c = "bit_set" => InSlot(s, x)
         /\ c = "not_cached" => s.bat[b] # DD_BLK_UNUSED /\ b \notin s.batmap /\ b \notin s.cached
         /\ c = "read_pending" => s.bm[b].rd
<1>1. CASE s.bat[b] = DD_BLK_UNUSED
  <2>1. c = IF op = "write" /\ s.pbw_blk # b /\ s.locked THEN "bat_locked" ELSE "bat_clear"
    BY <1>1 DEF read_bitmap_cache
  <2> QED BY <1>1, <2>1 DEF InParent
<1>2. CASE s.bat[b] # DD_BLK_UNUSED /\ b \in s.batmap
  <2>1. c = "bit_set"
    BY <1>2 DEF read_bitmap_cache
  <2> QED BY <1>2, <2>1 DEF InSlot
<1>3. CASE s.bat[b] # DD_BLK_UNUSED /\ b \notin s.batmap /\ b \notin s.cached
  <2>1. c = "not_cached"
    BY <1>3 DEF read_bitmap_cache
  <2> QED BY <1>3, <2>1
<1>4. CASE s.bat[b] # DD_BLK_UNUSED /\ b \notin s.batmap /\ b \in s.cached
  <2>1. c = IF s.bm[b].rd THEN "read_pending"
            ELSE IF sec_of(x) \in s.bm[b].map THEN "bit_set" ELSE "bit_clear"
    BY <1>4 DEF read_bitmap_cache
  <2> QED BY <1>4, <2>1 DEF InSlot, InParent
<1> QED BY <1>1, <1>2, <1>3, <1>4

(* The bump of the lru number changes nothing that is asked of the driver.  *)
LEMMA BumpEffect ==
  ASSUME NEW s \in VhdState, NEW b \in Blocks, NEW r, NEW u, u = bump(s, b)
  PROVE  u \in VhdState /\ OnlyReq(s, u, r) /\ u.req = s.req /\ u.vfree = s.vfree
<1>1. u \in VhdState
  BY TouchType
<1>2. u = s \/ u = [s EXCEPT !.mru = b]
  BY DEF bump, touch_bitmap
<1>3. CASE u = s
  BY <1>1, <1>3 DEF OnlyReq, SameBat
<1>4. CASE u = [s EXCEPT !.mru = b]
  BY <1>1, <1>4 DEF OnlyReq, SameBat, VhdState
<1> QED BY <1>2, <1>3, <1>4

LEMMA BumpOffered ==
  ASSUME NEW s, NEW d, NEW c, NEW n, NEW r \in Reqs, NEW b \in Blocks, NEW u,
         Offered(s, d, c, n, r), u = bump(s, b)
  PROVE  /\ Offered(u, d, c, n, r) /\ Same(s, u, r)
         /\ u.bat = s.bat /\ u.cached = s.cached /\ u.bm = s.bm /\ u.batmap = s.batmap
         /\ u.locked = s.locked /\ u.pbw_blk = s.pbw_blk
         /\ \A v : Evictable(s, v) => Evictable(u, v)
         /\ \A x : InSlot(s, x) => InSlot(u, x)
         /\ \A x : InParent(s, x) => InParent(u, x)
<1>1. /\ Driver(s, NoReq, NoBlock) /\ FH(s, d, c, n, r) /\ Loose(s, r) /\ Asks(s, c, n, r)
      /\ s.req[r].st = "free" /\ s.req[r].err = "ok" /\ s \in VhdState
  BY DEF Offered, Driver
<1>2. u \in VhdState /\ OnlyReq(s, u, r) /\ u.req = s.req /\ u.vfree = s.vfree
  BY <1>1, BumpEffect
<1>3. Same(s, u, r)
  BY <1>2 DEF Same, OthersRest
<1>4. Loose(u, r)
  BY <1>1, <1>2 DEF Loose, OnlyReq
<1>5. Asks(u, c, n, r)
  BY <1>1, <1>3, AsksKept
<1>6. s.vfree \in Int /\ s.vfree >= 0
  BY <1>1 DEF Driver, VhdState, CountOK
<1>7. /\ u.req[r].st \in {"free", "done", "io"} /\ (u.req[r].st = "io" <=> NoReq = r) /\ NoReq # r
      /\ u.vfree >= 0
      /\ u.vfree = s.vfree + (IF NoReq = r THEN 1 ELSE 0) - (IF NoReq = r THEN 1 ELSE 0)
  BY <1>1, <1>2, <1>6, NotMeta
<1>8. Driver(u, NoReq, NoBlock)
  BY <1>1, <1>2, <1>7, LooseStep
<1>9. Quiet(s, u) /\ OthersRest(s, u, r)
  BY <1>2, OnlyReqQuiet
<1>10. Submits(u, c, n, r, r)
  BY <1>1, <1>2, <1>5 DEF Submits, Asks, outstanding
<1>11. n \in [Reqs -> SUBSET Values] /\ NewTo(s, c, n, r)
  BY <1>1, FHType DEF Asks
<1>12. FH(u, d, c, n, r)
  BY <1>1, <1>2, <1>9, <1>10, <1>11, SubmitHist
<1>13. Offered(u, d, c, n, r)
  BY <1>1, <1>2, <1>4, <1>5, <1>8, <1>12 DEF Offered
<1> HIDE DEF Offered
<1> QED BY <1>2, <1>3, <1>13, OnlyReqShows

(* vhd_queue_read.                                                          *)
LEMMA QueueReadLeaves ==
  ASSUME NEW s, NEW d, NEW c, NEW n, NEW r \in Reqs, NEW v, NEW t, Offered(s, d, c, n, r),
         s.req[r].op = "read", v = NO_BITMAP \/ Evictable(s, v), t = vhd_queue_read(s, r, v)
  PROVE  Leaves(s, t, d, d, c, n, r)
<1> DEFINE x == s.req[r].sec
           b == blk_of(x)
           a == read_bitmap_cache(s, b, sec_of(x), "read")
           u == bump(s, b)
<1>1. s \in VhdState /\ b \in Blocks
  BY OfferedDisk, ReqField
<1>2. /\ a \in {"bat_clear", "bit_set", "not_cached", "read_pending", "bit_clear"}
      /\ a \in {"bat_clear", "bit_clear"} => InParent(s, x)
      /\ a = "bit_set" => InSlot(s, x)
      /\ a = "not_cached" => s.bat[b] # DD_BLK_UNUSED /\ b \notin s.batmap /\ b \notin s.cached
      /\ a = "read_pending" => s.bm[b].rd
  BY CacheSays
<1>3. t = CASE a \in {"bat_clear", "bit_clear"} -> td_forward_request(u, r)
            [] a = "bit_set"      -> schedule_data_read(u, r)
            [] a = "not_cached"   -> read_and_wait(u, b, r, v)
            [] a = "read_pending" -> __vhd_queue_request(u, b, r)
  BY DEF vhd_queue_read
<1>4. b = blk_of(x) /\ x = s.req[r].sec /\ u = bump(s, b)
  OBVIOUS
<1> HIDE DEF x, b, a, u
<1>5. /\ Offered(u, d, c, n, r) /\ Same(s, u, r) /\ u.req[r].op = "read" /\ u.req[r].sec = x
      /\ u.bat = s.bat /\ u.cached = s.cached /\ u.bm = s.bm /\ u.batmap = s.batmap
      /\ v = NO_BITMAP \/ Evictable(u, v)
      /\ InSlot(s, x) => InSlot(u, x)
      /\ InParent(s, x) => InParent(u, x)
  BY <1>1, <1>4, BumpOffered DEF Same
<1>6. CASE a \in {"bat_clear", "bit_clear"}
  <2>1. t = td_forward_request(u, r) /\ InParent(u, u.req[r].sec)
    BY <1>2, <1>3, <1>5, <1>6
  <2>2. Leaves(u, t, d, d, c, n, r)
    BY <1>5, <2>1, ForwardNow
  <2> QED BY <1>5, <2>2, LeavesAfter
<1>7. CASE a = "bit_set"
  <2>1. t = schedule_data_read(u, r) /\ InSlot(u, u.req[r].sec)
    BY <1>2, <1>3, <1>5, <1>7
  <2>2. Leaves(u, t, d, d, c, n, r)
    BY <1>5, <2>1, DataReadLeaves
  <2> QED BY <1>5, <2>2, LeavesAfter
<1>8. CASE a = "not_cached"
  <2>1. t = read_and_wait(u, b, r, v)
    BY <1>3, <1>8
  <2>2. /\ b = blk_of(u.req[r].sec) /\ b \notin u.cached /\ b \notin u.batmap
        /\ u.bat[b] # DD_BLK_UNUSED
    BY <1>2, <1>4, <1>5, <1>8
  <2>3. Leaves(u, t, d, d, c, n, r)
    BY <1>5, <2>1, <2>2, ReadAndWaitLeaves
  <2> QED BY <1>5, <2>3, LeavesAfter
<1>9. CASE a = "read_pending"
  <2>1. t = __vhd_queue_request(u, b, r)
    BY <1>3, <1>9
  <2>2. b = blk_of(u.req[r].sec) /\ u.bm[b].rd
    BY <1>2, <1>4, <1>5, <1>9
  <2>3. Leaves(u, t, d, d, c, n, r)
    BY <1>5, <2>1, <2>2, WaitLeaves
  <2> QED BY <1>5, <2>3, LeavesAfter
<1> QED BY <1>2, <1>6, <1>7, <1>8, <1>9

(* vhd_queue_block_status.                                                  *)
LEMMA QueueStatusLeaves ==
  ASSUME NEW s, NEW d, NEW c, NEW n, NEW r \in Reqs, NEW t, Offered(s, d, c, n, r),
         s.req[r].op = "status", t = vhd_queue_block_status(s, r)
  PROVE  Leaves(s, t, d, d, c, n, r)
<1> DEFINE x == s.req[r].sec
           b == blk_of(x)
           a == read_bitmap_cache(s, b, sec_of(x), "status")
           u == bump(s, b)
<1>1. s \in VhdState /\ b \in Blocks
  BY OfferedDisk, ReqField
<1>2. /\ a \in {"bat_clear", "bit_set", "not_cached", "read_pending", "bit_clear"}
      /\ a \in {"bat_clear", "bit_clear"} => InParent(s, x)
      /\ a = "read_pending" => s.bm[b].rd
  BY CacheSays
<1>3. t = CASE a \in {"bat_clear", "bit_clear"} -> td_forward_request(u, r)
            [] a \in {"bit_set", "not_cached"}  -> td_complete_request(u, r, "ok")
            [] a = "read_pending" -> __vhd_queue_request(u, b, r)
  BY DEF vhd_queue_block_status
<1>4. b = blk_of(x) /\ x = s.req[r].sec /\ u = bump(s, b)
  OBVIOUS
<1> HIDE DEF x, b, a, u
<1>5. /\ Offered(u, d, c, n, r) /\ Same(s, u, r) /\ u.req[r].op = "status" /\ u.req[r].sec = x
      /\ u.bm = s.bm
      /\ InParent(s, x) => InParent(u, x)
  BY <1>1, <1>4, BumpOffered DEF Same
<1>6. CASE a \in {"bat_clear", "bit_clear"}
  <2>1. t = td_forward_request(u, r) /\ InParent(u, u.req[r].sec)
    BY <1>2, <1>3, <1>5, <1>6
  <2>2. Leaves(u, t, d, d, c, n, r)
    BY <1>5, <2>1, ForwardNow
  <2> QED BY <1>5, <2>2, LeavesAfter
<1>7. CASE a \in {"bit_set", "not_cached"}
  <2>1. t = td_complete_request(u, r, "ok")
    BY <1>3, <1>7
  <2>2. Leaves(u, t, d, d, c, n, r)
    BY <1>5, <2>1, RefuseNow DEF Errors
  <2> QED BY <1>5, <2>2, LeavesAfter
<1>8. CASE a = "read_pending"
  <2>1. t = __vhd_queue_request(u, b, r)
    BY <1>3, <1>8
  <2>2. b = blk_of(u.req[r].sec) /\ u.bm[b].rd
    BY <1>2, <1>4, <1>5, <1>8
  <2>3. Leaves(u, t, d, d, c, n, r)
    BY <1>5, <2>1, <2>2, WaitLeaves
  <2> QED BY <1>5, <2>3, LeavesAfter
<1> QED BY <1>2, <1>6, <1>7, <1>8

(* vhd_queue_write.                                                         *)
LEMMA QueueWriteLeaves ==
  ASSUME NEW s, NEW d, NEW c, NEW n, NEW r \in Reqs, NEW v, NEW w \in Errors, NEW R, NEW e,
         Offered(s, d, c, n, r), s.req[r].op = "write", v = NO_BITMAP \/ Evictable(s, v),
         R = vhd_queue_write(s, r, v, w), e = zeroed(d, R.zero)
  PROVE  Leaves(s, R.s, d, e, c, n, r)
<1> DEFINE x == s.req[r].sec
           b == blk_of(x)
           a == read_bitmap_cache(s, b, sec_of(x), "write")
           u == bump(s, b)
<1>1. s \in VhdState /\ b \in Blocks
  BY OfferedDisk, ReqField
<1>2. /\ a \in {"bat_clear", "bit_set", "not_cached", "read_pending", "bit_clear", "bat_locked"}
      /\ a = "bat_clear" => s.bat[b] = DD_BLK_UNUSED /\ (s.locked => s.pbw_blk = b)
      /\ a = "bit_clear" => s.bat[b] # DD_BLK_UNUSED /\ b \in s.cached /\ ~s.bm[b].rd
      /\ a = "bit_set" => InSlot(s, x)
      /\ a = "not_cached" => s.bat[b] # DD_BLK_UNUSED /\ b \notin s.batmap /\ b \notin s.cached
      /\ a = "read_pending" => s.bm[b].rd
  BY CacheSays
<1>3. R = CASE a = "bat_locked"   -> Result(td_complete_request(u, r, "EBUSY"), "EBUSY", {})
            [] a = "bat_clear"    -> schedule_data_write(u, r, TRUE, TRUE, v, w)
            [] a = "bit_clear"    -> schedule_data_write(u, r, FALSE, TRUE, v, w)
            [] a = "bit_set"      -> schedule_data_write(u, r, FALSE, FALSE, v, w)
            [] a = "not_cached"   -> Result(read_and_wait(u, b, r, v), "ok", {})
            [] a = "read_pending" -> Result(__vhd_queue_request(u, b, r), "ok", {})
  BY DEF vhd_queue_write
<1>4. b = blk_of(x) /\ x = s.req[r].sec /\ u = bump(s, b)
  OBVIOUS
<1> HIDE DEF x, b, a, u
<1>5. /\ Offered(u, d, c, n, r) /\ Same(s, u, r) /\ u.req[r].op = "write" /\ u.req[r].sec = x
      /\ u.bat = s.bat /\ u.cached = s.cached /\ u.bm = s.bm /\ u.batmap = s.batmap
      /\ u.locked = s.locked /\ u.pbw_blk = s.pbw_blk
      /\ v = NO_BITMAP \/ Evictable(u, v)
      /\ InSlot(s, x) => InSlot(u, x)
  BY <1>1, <1>4, BumpOffered DEF Same
<1>6. ASSUME Leaves(u, R.s, d, e, c, n, r) PROVE Leaves(s, R.s, d, e, c, n, r)
  BY <1>5, <1>6, LeavesFrom
<1>7. b = blk_of(u.req[r].sec) /\ zeroed(d, {}) = d
  BY <1>4, <1>5, OfferedDisk
<1>8. CASE a = "bat_locked"
  <2>1. R = Result(td_complete_request(u, r, "EBUSY"), "EBUSY", {})
    BY <1>3, <1>8
  <2> QED BY <1>5, <1>6, <2>1, NoVreqLeaves
<1>9. CASE a = "bat_clear"
  <2>1. R = schedule_data_write(u, r, TRUE, TRUE, v, w)
    BY <1>3, <1>9
  <2>2. u.bat[b] = DD_BLK_UNUSED /\ (u.locked => u.pbw_blk = b)
    BY <1>2, <1>5, <1>9
  <2> QED BY <1>5, <1>6, <1>7, <2>1, <2>2, WriteAllocLeaves
<1>10. CASE a = "bit_clear"
  <2>1. R = schedule_data_write(u, r, FALSE, TRUE, v, w)
    BY <1>3, <1>10
  <2>2. u.bat[b] # DD_BLK_UNUSED /\ b \in u.cached /\ ~u.bm[b].rd
    BY <1>2, <1>5, <1>10
  <2> QED BY <1>5, <1>6, <1>7, <2>1, <2>2, WriteClearLeaves
<1>11. CASE a = "bit_set"
  <2>1. R = schedule_data_write(u, r, FALSE, FALSE, v, w)
    BY <1>3, <1>11
  <2>2. InSlot(u, u.req[r].sec)
    BY <1>2, <1>5, <1>11
  <2> QED BY <1>5, <1>6, <2>1, <2>2, WriteSetLeaves
<1>12. CASE a = "not_cached"
  <2>1. R = Result(read_and_wait(u, b, r, v), "ok", {})
    BY <1>3, <1>12
  <2>2. R.s = read_and_wait(u, b, r, v) /\ e = d
    BY <1>7, <2>1, ResultParts
  <2>3. b \notin u.cached /\ b \notin u.batmap /\ u.bat[b] # DD_BLK_UNUSED
    BY <1>2, <1>5, <1>12
  <2>4. Leaves(u, R.s, d, d, c, n, r)
    BY <1>5, <1>7, <2>2, <2>3, ReadAndWaitLeaves
  <2> QED BY <1>6, <2>2, <2>4
<1>13. CASE a = "read_pending"
  <2>1. R = Result(__vhd_queue_request(u, b, r), "ok", {})
    BY <1>3, <1>13
  <2>2. R.s = __vhd_queue_request(u, b, r) /\ e = d
    BY <1>7, <2>1, ResultParts
  <2>3. u.bm[b].rd
    BY <1>2, <1>5, <1>13
  <2>4. Leaves(u, R.s, d, d, c, n, r)
    BY <1>5, <1>7, <2>2, <2>3, WaitLeaves
  <2> QED BY <1>6, <2>2, <2>4
<1> QED BY <1>2, <1>8, <1>9, <1>10, <1>11, <1>12, <1>13

-----------------------------------------------------------------------------
(* A client submits a request.                                              *)

AnyOp == {"read", "write", "status"}

(* A request that was never submitted, or came back EBUSY.                  *)
submitted(s, r, op, x) == with_req(s, r, [init_vhd_request EXCEPT !.op = op, !.sec = x])

LEMMA SubmittedEffect ==
  ASSUME NEW s \in VhdState, NEW r \in Reqs, NEW op \in AnyOp,
         NEW x \in Sectors, NEW t, t = submitted(s, r, op, x)
  PROVE  /\ t \in VhdState /\ OnlyReq(s, t, r) /\ t.vfree = s.vfree
         /\ t.req[r].st = "free" /\ t.req[r].err = "ok" /\ t.req[r].op = op /\ t.req[r].sec = x
         /\ \A q \in Reqs : q # r => t.req[q] = s.req[q]
<1> DEFINE q == [init_vhd_request EXCEPT !.op = op, !.sec = x]
<1>1. /\ q \in Request /\ q.st = "free" /\ q.err = "ok" /\ q.op = op /\ q.sec = x
  BY DEF Request, AnyOp, init_vhd_request, Errors, Values
<1>2. t = with_req(s, r, q)
  BY DEF submitted
<1> HIDE DEF q
<1>3. t \in VhdState
  BY <1>1, <1>2, UpdReq
<1>4. t = [s EXCEPT !.req[r] = q]
  BY <1>2 DEF with_req
<1>5. s.req \in [Reqs -> Request]
  BY DEF VhdState
<1>6. t.req = [s.req EXCEPT ![r] = q]
  BY <1>4 DEF VhdState
<1>7. t.req[r] = q /\ \A p \in Reqs : p # r => t.req[p] = s.req[p]
  BY <1>5, <1>6
<1>8. OnlyReq(s, t, r) /\ t.vfree = s.vfree
  BY <1>4, <1>7 DEF OnlyReq, SameBat, VhdState
<1> QED BY <1>1, <1>3, <1>7, <1>8

(* What the history binds the request to.                                   *)
settled(s, c, x) == {v \in c[x] : v \notin outstanding(s)}
binding(s, c, n, r, op, x) ==
  [q \in Reqs |-> IF q # r THEN n[q] ELSE IF op = "write" THEN settled(s, c, x) ELSE c[x]]

LEMMA SubmittedOffered ==
  ASSUME NEW s, NEW d, NEW c, NEW n, NEW n2, NEW r \in Reqs, NEW op \in AnyOp,
         NEW x \in Sectors, NEW t, Driver(s, NoReq, NoBlock), FH(s, d, c, n, NoReq),
         ~accepted(s.req[r]), t = submitted(s, r, op, x), n2 = binding(s, c, n, r, op, x)
  PROVE  Offered(t, d, c, n2, r)
<1>1. s \in VhdState /\ Loose(s, r)
  BY Unaccepted DEF Driver
<1>2. /\ t \in VhdState /\ OnlyReq(s, t, r) /\ t.vfree = s.vfree
      /\ t.req[r].st = "free" /\ t.req[r].err = "ok" /\ t.req[r].op = op /\ t.req[r].sec = x
      /\ \A q \in Reqs : q # r => t.req[q] = s.req[q]
  <2>1. s \in VhdState /\ r \in Reqs /\ op \in AnyOp /\ x \in Sectors /\ t = submitted(s, r, op, x)
    BY <1>1
  <2> QED BY ONLY <2>1, SubmittedEffect
<1>3. n \in [Reqs -> SUBSET Values] /\ c \in [Sectors -> SUBSET Values]
  BY FHType
<1>4. /\ n2 \in [Reqs -> SUBSET Values] /\ (\A q \in Reqs : q # r => n2[q] = n[q])
      /\ op = "write" => n2[r] = settled(s, c, x)
      /\ op # "write" => n2[r] = c[x]
  BY <1>3 DEF binding, settled
<1>5. CandOK(s, c) /\ \A q \in Reqs : s.req[q].op = "write" => WriteOK(s, d, c, n, q, NoReq)
  BY DEF FH, History
<1>6. \A y \in Sectors : r \notin c[y]
  BY <1>5 DEF CandOK
<1>7. \A q \in Reqs : s.req[q].op = "write" => r \notin n[q]
  BY <1>5 DEF WriteOK, accepted
<1>8. NewTo(s, c, n, r)
  BY <1>6, <1>7 DEF NewTo
<1>9. \A v \in c[x] : v \in Reqs /\ v \notin outstanding(s)
                        => t.req[v].st = "done" /\ t.req[v].err # "EBUSY"
  BY <1>2, <1>5, <1>6 DEF CandOK, accepted, outstanding
<1>10. \A v \in settled(s, c, x) : v \in Reqs => t.req[v].st = "done" /\ t.req[v].err # "EBUSY"
  BY <1>9 DEF settled
<1>11. r \notin n2[r]
  BY <1>4, <1>6 DEF settled
<1>12. NewTo(t, c, n2, r)
  BY <1>2, <1>4, <1>6, <1>7, <1>11 DEF NewTo
<1>13. Asks(t, c, n2, r)
  BY <1>2, <1>4, <1>10, <1>12 DEF Asks
<1>14. Submits(t, c, n2, r, r)
  BY <1>2, <1>4, <1>10 DEF Submits, outstanding
<1>15. Quiet(s, t) /\ OthersRest(s, t, r)
  BY <1>2, OnlyReqQuiet
<1>16. FH(t, d, c, n2, r)
  BY <1>1, <1>2, <1>4, <1>8, <1>14, <1>15, SubmitHist
<1>17. s.vfree \in Int /\ s.vfree >= 0
  BY <1>1 DEF Driver, VhdState, CountOK
<1>18. /\ t.req[r].st \in {"free", "done", "io"} /\ (t.req[r].st = "io" <=> NoReq = r) /\ NoReq # r
      /\ t.vfree >= 0
      /\ t.vfree = s.vfree + (IF NoReq = r THEN 1 ELSE 0) - (IF NoReq = r THEN 1 ELSE 0)
  BY <1>2, <1>17, NotMeta
<1>19. Driver(t, NoReq, NoBlock)
  BY <1>1, <1>2, <1>18, LooseStep
<1>20. Loose(t, r)
  BY <1>1, <1>2 DEF Loose, OnlyReq
<1> QED BY <1>2, <1>13, <1>16, <1>19, <1>20 DEF Offered

(* The bounds after a write to sector x that was not refused: a read of x   *)
(* that is under way may see it.                                            *)
bound_with(s, c, n, r, x) ==
  [q \in Reqs |->
     IF q = r THEN settled(s, c, x)
     ELSE IF q \in outstanding(s) /\ s.req[q].op = "read" /\ s.req[q].sec = x
          THEN n[q] \cup {r} ELSE n[q]]

(* A write that is not refused becomes a candidate.                         *)
LEMMA AddsHist ==
  ASSUME NEW s, NEW o, NEW t, NEW d, NEW e, NEW c, NEW n, NEW n1, NEW r \in Reqs, NEW x \in Sectors,
         NEW c2, NEW n2, c \in [Sectors -> SUBSET Values],
         OthersRest(s, o, r), o.req[r].op = "write", o.req[r].sec = x,
         n1 = binding(s, c, n, r, "write", x), Leaves(o, t, d, e, c, n1, r), t.req[r].st # "done",
         c2 = grown(c, x, r), n2 = bound_with(s, c, n, r, x)
  PROVE  Driver(t, NoReq, NoBlock) /\ FH(t, e, c2, n2, NoReq) /\ e.bat = d.bat
<1>1. Driver(t, NoReq, NoBlock) /\ FH(t, e, c, n1, r) /\ Same(o, t, r) /\ e.bat = d.bat /\ t.req[r].st # "free"
  BY DEF Leaves
<1>2. t \in VhdState /\ \A io \in t.aio : IoOK(t, io)
  BY <1>1 DEF Driver
<1>3. t.req[r] \in Request
  BY <1>2 DEF VhdState
<1>4. r \in outstanding(t)
  BY <1>1, <1>3 DEF outstanding, Request
<1>5. t.req[r].op = "write" /\ x = t.req[r].sec /\ \A q \in Reqs : q # r => t.req[q] = s.req[q]
  BY <1>1 DEF Same, OthersRest
<1>7. \A q \in Reqs : q # r => (q \in outstanding(t) <=> q \in outstanding(s))
  BY <1>5 DEF outstanding
<1>8. n2 = widened(t, n1, x, r)
  <2>1. \A q \in Reqs : n2[q] = widened(t, n1, x, r)[q]
    <3> SUFFICES ASSUME NEW q \in Reqs PROVE n2[q] = widened(t, n1, x, r)[q]
      OBVIOUS
    <3>1. CASE q = r
      BY <3>1 DEF bound_with, widened, binding
    <3>2. CASE q # r
      <4>1. n1[q] = n[q]
        BY <3>2 DEF binding
      <4>2. t.req[q] = s.req[q] /\ (q \in outstanding(t) <=> q \in outstanding(s))
        BY <1>5, <1>7, <3>2
      <4> QED BY <3>2, <4>1, <4>2 DEF bound_with, widened
    <3> QED BY <3>1, <3>2
  <2>2. n2 = [q \in Reqs |-> n2[q]]
    BY DEF bound_with
  <2>3. widened(t, n1, x, r) = [q \in Reqs |-> widened(t, n1, x, r)[q]]
    BY DEF widened
  <2> QED BY <2>1, <2>2, <2>3
<1>9. t.up /\ FileOK(t, e) /\ History(t, e, c, n1, r)
  BY <1>1 DEF FH
<1>10. History(t, e, c2, n2, NoReq)
  BY <1>2, <1>4, <1>5, <1>8, <1>9, GrowHist
<1> QED BY <1>1, <1>9, <1>10 DEF FH

(* Nothing else does.                                                       *)
LEMMA NoAddsHist ==
  ASSUME NEW o, NEW t, NEW d, NEW e, NEW c, NEW n, NEW r \in Reqs, Leaves(o, t, d, e, c, n, r),
         o.req[r].op = "write" => t.req[r].st = "done"
  PROVE  Driver(t, NoReq, NoBlock) /\ FH(t, e, c, n, NoReq) /\ e.bat = d.bat
<1>1. Driver(t, NoReq, NoBlock) /\ FH(t, e, c, n, r) /\ Same(o, t, r) /\ e.bat = d.bat
  BY DEF Leaves
<1>4. t.up /\ FileOK(t, e) /\ History(t, e, c, n, r)
  BY <1>1 DEF FH
<1>5. \A q \in Reqs : t.req[q].op = "write" => (q \in outstanding(t) => q # r)
  BY <1>1 DEF Same, outstanding
<1>6. \A q \in Reqs : t.req[q].op = "write" => WriteOK(t, e, c, n, q, NoReq)
  BY <1>4, <1>5 DEF History, WriteOK
<1>7. History(t, e, c, n, NoReq)
  BY <1>4, <1>6 DEF History
<1> QED BY <1>1, <1>4, <1>7 DEF FH

LEMMA SubmitSafe ==
  ASSUME NEW s, NEW d, NEW c, NEW n, NEW r \in Reqs, NEW op \in AnyOp, NEW x \in Sectors,
         NEW o, NEW n1, NEW t, NEW e, NEW c2, NEW n2, Driver(s, NoReq, NoBlock), FH(s, d, c, n, NoReq),
         o = submitted(s, r, op, x), n1 = binding(s, c, n, r, op, x), Leaves(o, t, d, e, c, n1, r),
         \/ /\ op = "write" /\ t.req[r].st # "done"
            /\ c2 = grown(c, x, r) /\ n2 = bound_with(s, c, n, r, x)
         \/ /\ op = "write" => t.req[r].st = "done"
            /\ c2 = c /\ n2 = n1
  PROVE  Driver(t, NoReq, NoBlock) /\ FH(t, e, c2, n2, NoReq) /\ e.bat = d.bat
<1>1. s \in VhdState /\ c \in [Sectors -> SUBSET Values]
  BY FHType DEF Driver
<1>2. o.req[r].op = op /\ o.req[r].sec = x /\ OthersRest(s, o, r)
  <2>1. s \in VhdState /\ r \in Reqs /\ op \in AnyOp /\ x \in Sectors /\ o = submitted(s, r, op, x)
    BY <1>1
  <2>2. o.req[r].op = op /\ o.req[r].sec = x /\ \A q \in Reqs : q # r => o.req[q] = s.req[q]
    BY ONLY <2>1, SubmittedEffect
  <2> QED BY <2>2 DEF OthersRest
<1>3. CASE /\ op = "write" /\ t.req[r].st # "done"
           /\ c2 = grown(c, x, r) /\ n2 = bound_with(s, c, n, r, x)
  <2>1. /\ c \in [Sectors -> SUBSET Values] /\ OthersRest(s, o, r) /\ o.req[r].op = "write" /\ o.req[r].sec = x
        /\ n1 = binding(s, c, n, r, "write", x) /\ Leaves(o, t, d, e, c, n1, r) /\ t.req[r].st # "done"
        /\ c2 = grown(c, x, r) /\ n2 = bound_with(s, c, n, r, x) /\ r \in Reqs /\ x \in Sectors
    BY <1>1, <1>2, <1>3
  <2> QED BY ONLY <2>1, AddsHist, SMTT(30)
<1>4. CASE (op = "write" => t.req[r].st = "done") /\ c2 = c /\ n2 = n1
  <2>1. Leaves(o, t, d, e, c, n1, r) /\ (o.req[r].op = "write" => t.req[r].st = "done") /\ r \in Reqs
    BY <1>1, <1>2, <1>4
  <2>2. Driver(t, NoReq, NoBlock) /\ FH(t, e, c, n1, NoReq) /\ e.bat = d.bat
    BY ONLY <2>1, NoAddsHist
  <2> QED BY <1>4, <2>2
<1> QED BY <1>3, <1>4

(* remove_lru_bitmap and alloc_vhd_bitmap take a bitmap nobody needs.       *)
LEMMA VictimEvictable ==
  ASSUME NEW s, NEW v \in Victims(s)
  PROVE  v = NO_BITMAP \/ Evictable(s, v)
  BY DEF Victims, remove_lru_bitmap, Evictable

(* The history of a submission.                                             *)
LEMMA SubmittedHist ==
  ASSUME NEW r \in Reqs, NEW op \in AnyOp, NEW x \in Sectors, Submitted(r, op, x),
         cand \in [Sectors -> SUBSET Values]
  PROVE  \/ /\ op = "write" /\ vhd'.req[r].st # "done"
            /\ cand' = grown(cand, x, r) /\ bound' = bound_with(vhd, cand, bound, r, x)
         \/ /\ op = "write" => vhd'.req[r].st = "done"
            /\ cand' = cand /\ bound' = binding(vhd, cand, bound, r, op, x)
<1> DEFINE a == op = "write" /\ vhd'.req[r].st # "done"
<1>1. cand' = [cand EXCEPT ![x] = IF a THEN @ \cup {r} ELSE @]
  BY DEF Submitted
<1>2. bound' = [q \in Reqs |->
            IF q = r THEN IF op = "write" THEN Settled(x) ELSE cand[x]
            ELSE IF a /\ q \in ReadsOf(x) THEN bound[q] \cup {r} ELSE bound[q]]
  BY DEF Submitted
<1>3. CASE a
  <2>1. op = "write" /\ vhd'.req[r].st # "done"
    BY <1>3
  <2> HIDE DEF a
  <2>2. cand' = grown(cand, x, r)
    BY <1>1, <1>3 DEF grown
  <2>3. bound' = bound_with(vhd, cand, bound, r, x)
    BY <1>2, <1>3, <2>1 DEF bound_with, Settled, settled, ReadsOf
  <2> QED BY <2>1, <2>2, <2>3
<1>4. CASE ~a
  <2>1. op = "write" => vhd'.req[r].st = "done"
    BY <1>4
  <2> HIDE DEF a
  <2>2. cand' = cand
    BY <1>1, <1>4
  <2>3. bound' = binding(vhd, cand, bound, r, op, x)
    BY <1>2, <1>4 DEF binding, Settled, settled
  <2> QED BY <2>1, <2>2, <2>3
<1> QED BY <1>3, <1>4

LEMMA MaySubmitUnaccepted ==
  ASSUME NEW r \in Reqs, NEW op, NEW x, MaySubmit(r, op, x)
  PROVE  ~accepted(vhd.req[r])
  BY DEF MaySubmit, accepted

LEMMA ClientSec == ClientSecs \subseteq Sectors
  BY ConstantsAssumption DEF Sectors

(* The invariant, with the driver up.                                       *)
LEMMA IInvUp ==
  ASSUME IInv, vhd.up
  PROVE  Driver(vhd, NoReq, NoBlock) /\ FH(vhd, disk, cand, bound, NoReq) /\ vhd \in VhdState
  BY DEF IInv, FH, Driver

Kept == IInv' /\ \A b \in Blocks : disk.bat[b] # DD_BLK_UNUSED => disk'.bat[b] = disk.bat[b]

LEMMA KeptUp ==
  ASSUME Driver(vhd', NoReq, NoBlock), FH(vhd', disk', cand', bound', NoReq), crashes' \in Nat,
         disk'.bat = disk.bat
  PROVE  Kept
  BY DEF Kept, IInv, FH

LEMMA QueueReadStep ==
  ASSUME IInv, NEW r \in Reqs, NEW x \in ClientSecs, QueueRead(r, x)
  PROVE  Kept
<1>1. /\ vhd.up /\ MaySubmit(r, "read", x) /\ Submitted(r, "read", x) /\ disk' = disk /\ crashes' = crashes
  BY DEF QueueRead
<1>2. PICK v \in Victims(vhd) : vhd' = vhd_queue_read(with_request(r, "read", x), r, v)
  BY DEF QueueRead
<1>3. Driver(vhd, NoReq, NoBlock) /\ FH(vhd, disk, cand, bound, NoReq) /\ vhd \in VhdState
  BY <1>1, IInvUp
<1>4. x \in Sectors /\ "read" \in AnyOp /\ ~accepted(vhd.req[r]) /\ crashes \in Nat
  BY <1>1, ClientSec, MaySubmitUnaccepted DEF AnyOp, IInv
<1> DEFINE o == submitted(vhd, r, "read", x)
           n1 == binding(vhd, cand, bound, r, "read", x)
<1>5. o = with_request(r, "read", x)
  BY DEF submitted, with_request
<1>6. o = submitted(vhd, r, "read", x) /\ n1 = binding(vhd, cand, bound, r, "read", x)
  OBVIOUS
<1> HIDE DEF o, n1
<1>7. Offered(o, disk, cand, n1, r)
  BY <1>3, <1>4, <1>6, SubmittedOffered
<1>8. OnlyReq(vhd, o, r) /\ o.req[r].op = "read"
  BY <1>3, <1>4, <1>6, SubmittedEffect
<1>9. v = NO_BITMAP \/ Evictable(o, v)
  BY <1>8, VictimEvictable, OnlyReqShows
<1>10. Leaves(o, vhd', disk, disk, cand, n1, r)
  BY <1>2, <1>5, <1>7, <1>8, <1>9, QueueReadLeaves
<1>11. \/ /\ "read" = "write" /\ vhd'.req[r].st # "done"
          /\ cand' = grown(cand, x, r) /\ bound' = bound_with(vhd, cand, bound, r, x)
       \/ /\ "read" = "write" => vhd'.req[r].st = "done"
          /\ cand' = cand /\ bound' = n1
  BY <1>1, <1>3, <1>4, <1>6, FHType, SubmittedHist
<1>12. Driver(vhd', NoReq, NoBlock) /\ FH(vhd', disk, cand', bound', NoReq)
  BY <1>3, <1>4, <1>6, <1>10, <1>11, SubmitSafe
<1> QED BY <1>1, <1>4, <1>12, KeptUp

LEMMA QueueStatusStep ==
  ASSUME IInv, NEW r \in Reqs, NEW x \in ClientSecs, QueueStatus(r, x)
  PROVE  Kept
<1>1. /\ vhd.up /\ MaySubmit(r, "status", x) /\ Submitted(r, "status", x) /\ disk' = disk /\ crashes' = crashes
      /\ vhd' = vhd_queue_block_status(with_request(r, "status", x), r)
  BY DEF QueueStatus
<1>3. Driver(vhd, NoReq, NoBlock) /\ FH(vhd, disk, cand, bound, NoReq) /\ vhd \in VhdState
  BY <1>1, IInvUp
<1>4. x \in Sectors /\ "status" \in AnyOp /\ ~accepted(vhd.req[r]) /\ crashes \in Nat
  BY <1>1, ClientSec, MaySubmitUnaccepted DEF AnyOp, IInv
<1> DEFINE o == submitted(vhd, r, "status", x)
           n1 == binding(vhd, cand, bound, r, "status", x)
<1>5. o = with_request(r, "status", x)
  BY DEF submitted, with_request
<1>6. o = submitted(vhd, r, "status", x) /\ n1 = binding(vhd, cand, bound, r, "status", x)
  OBVIOUS
<1> HIDE DEF o, n1
<1>7. Offered(o, disk, cand, n1, r)
  BY <1>3, <1>4, <1>6, SubmittedOffered
<1>8. OnlyReq(vhd, o, r) /\ o.req[r].op = "status"
  BY <1>3, <1>4, <1>6, SubmittedEffect
<1>10. Leaves(o, vhd', disk, disk, cand, n1, r)
  BY <1>1, <1>5, <1>7, <1>8, QueueStatusLeaves
<1>11. \/ /\ "status" = "write" /\ vhd'.req[r].st # "done"
          /\ cand' = grown(cand, x, r) /\ bound' = bound_with(vhd, cand, bound, r, x)
       \/ /\ "status" = "write" => vhd'.req[r].st = "done"
          /\ cand' = cand /\ bound' = n1
  BY <1>1, <1>3, <1>4, <1>6, FHType, SubmittedHist
<1>12. Driver(vhd', NoReq, NoBlock) /\ FH(vhd', disk, cand', bound', NoReq)
  BY <1>3, <1>4, <1>6, <1>10, <1>11, SubmitSafe
<1> QED BY <1>1, <1>4, <1>12, KeptUp

LEMMA QueueWriteStep ==
  ASSUME IInv, NEW r \in Reqs, NEW x \in ClientSecs, QueueWrite(r, x)
  PROVE  Kept
<1>1. /\ vhd.up /\ MaySubmit(r, "write", x) /\ Submitted(r, "write", x) /\ crashes' = crashes
  BY DEF QueueWrite
<1>2. PICK v \in Victims(vhd), w \in {"ok"} \cup {e \in {"EIO"} : "sync" \in FailOps} :
        LET q == vhd_queue_write(with_request(r, "write", x), r, v, w)
        IN  vhd' = q.s /\ disk' = zeroed(disk, q.zero)
  BY DEF QueueWrite
<1>3. Driver(vhd, NoReq, NoBlock) /\ FH(vhd, disk, cand, bound, NoReq) /\ vhd \in VhdState
  BY <1>1, IInvUp
<1>4. x \in Sectors /\ "write" \in AnyOp /\ ~accepted(vhd.req[r]) /\ crashes \in Nat /\ w \in Errors
  BY <1>1, ClientSec, MaySubmitUnaccepted DEF AnyOp, IInv, Errors
<1> DEFINE o == submitted(vhd, r, "write", x)
           n1 == binding(vhd, cand, bound, r, "write", x)
           R == vhd_queue_write(o, r, v, w)
<1>5. o = with_request(r, "write", x)
  BY DEF submitted, with_request
<1>6. vhd' = R.s /\ disk' = zeroed(disk, R.zero)
  BY <1>2, <1>5
<1>7. /\ o = submitted(vhd, r, "write", x) /\ n1 = binding(vhd, cand, bound, r, "write", x)
      /\ R = vhd_queue_write(o, r, v, w)
  OBVIOUS
<1> HIDE DEF o, n1, R
<1>8. Offered(o, disk, cand, n1, r)
  BY <1>3, <1>4, <1>7, SubmittedOffered
<1>9. OnlyReq(vhd, o, r) /\ o.req[r].op = "write"
  BY <1>3, <1>4, <1>7, SubmittedEffect
<1>10. v = NO_BITMAP \/ Evictable(o, v)
  BY <1>9, VictimEvictable, OnlyReqShows
<1>11. Leaves(o, vhd', disk, disk', cand, n1, r)
  BY <1>4, <1>6, <1>7, <1>8, <1>9, <1>10, QueueWriteLeaves
<1>12. \/ /\ "write" = "write" /\ vhd'.req[r].st # "done"
          /\ cand' = grown(cand, x, r) /\ bound' = bound_with(vhd, cand, bound, r, x)
       \/ /\ "write" = "write" => vhd'.req[r].st = "done"
          /\ cand' = cand /\ bound' = n1
  BY <1>1, <1>3, <1>4, <1>7, FHType, SubmittedHist
<1>13. Driver(vhd', NoReq, NoBlock) /\ FH(vhd', disk', cand', bound', NoReq) /\ disk'.bat = disk.bat
  BY <1>3, <1>4, <1>7, <1>11, <1>12, SubmitSafe
<1> QED BY <1>1, <1>4, <1>13, KeptUp

(* While an I/O is in flight the driver is up.                              *)
LEMMA BusyUp ==
  ASSUME IInv, NEW io \in vhd.aio
  PROVE  vhd.up
<1>1. vhd.up \in BOOLEAN
  BY DEF IInv, Driver, VhdState
<1> QED BY <1>1 DEF IInv, FileOK, FileBat

LEMMA LandStep ==
  ASSUME IInv, NEW io \in vhd.aio, Land(io)
  PROVE  Kept
<1>1. Driver(vhd, NoReq, NoBlock) /\ FH(vhd, disk, cand, bound, NoReq)
  BY BusyUp, IInvUp
<1>2. ~io.landed /\ disk' = written(disk, vhd, io) /\ cand' = cand /\ bound' = bound /\ crashes' = crashes
  BY DEF Land
<1>3. vhd' = arrived(disk, vhd, io)
  BY DEF Land, arrived, landing
<1>4. /\ Driver(vhd', NoReq, NoBlock) /\ FH(vhd', disk', cand, bound, NoReq)
      /\ \A b \in Blocks : disk.bat[b] # DD_BLK_UNUSED => disk'.bat[b] = disk.bat[b]
  BY <1>1, <1>2, <1>3, Landed
<1>5. crashes \in Nat
  BY DEF IInv
<1> QED BY <1>2, <1>4, <1>5 DEF Kept, IInv, FH

(* The faults whose handling is proved: the write of zeros over a new       *)
(* bitmap does not fail (finish_zero_bm_write gives up the BAT entry it     *)
(* reserved while data writes to the slot are in flight), and a BAT write   *)
(* that fails has not changed the file.                                     *)
FaultsCovered == "zero_bm" \notin FailOps \cup TornOps /\ "bat" \notin TornOps

LEMMA CompleteStep ==
  ASSUME FaultsCovered, IInv, NEW io \in vhd.aio, Complete(io)
  PROVE  Kept
<1>1. Driver(vhd, NoReq, NoBlock) /\ FH(vhd, disk, cand, bound, NoReq)
  BY BusyUp, IInvUp
<1>2. Signalled(vhd') /\ disk' = disk /\ crashes' = crashes /\ crashes \in Nat
  BY DEF Complete, IInv
<1>3. PICK e \in Outcomes(io) :
        /\ io.op = "bitmap_read" /\ e = "ok" => waiters_requeuable(vhd, io.blk)
        /\ vhd' = vhd_complete([vhd EXCEPT !.aio = @ \ {io}], io, e)
  BY DEF Complete
<1>4. /\ e \in {"ok", "EIO"} /\ (e = "ok" => io.landed) /\ (io.op = "zero_bm" => e = "ok")
      /\ io.op = "bat" /\ io.landed => e = "ok"
  BY DEF Outcomes, FaultsCovered
<1>5. Driver(vhd', NoReq, NoBlock) /\ FH(vhd', disk, cand, bound, NoReq)
  BY <1>1, <1>3, <1>4, CompleteHist
<1> DEFINE A == Acked(vhd')
<1>6. A \subseteq Reqs /\ \A r \in A : vhd'.req[r].op = "write" /\ vhd'.req[r].st = "done" /\ vhd'.req[r].err = "ok"
  BY DEF Acked
<1>7. cand' = shrunk(vhd', cand, bound, A) /\ bound' = bound
  BY <1>2 DEF Signalled, Superseded, shrunk
<1> HIDE DEF A
<1>8. vhd' \in VhdState /\ History(vhd', disk, cand, bound, NoReq) /\ vhd'.up /\ FileOK(vhd', disk)
  BY <1>5 DEF Driver, FH
<1>9. History(vhd', disk, cand', bound, NoReq)
  BY <1>6, <1>7, <1>8, ShrinkHist
<1>10. FH(vhd', disk', cand', bound', NoReq)
  BY <1>2, <1>7, <1>8, <1>9 DEF FH
<1> QED BY <1>2, <1>5, <1>10, KeptUp

(* The process dies: nothing is lost but what the driver knew.              *)
LEMMA DieStep ==
  ASSUME IInv, vhd.up, Die, disk' \in DiskState, disk'.bat = disk.bat, disk'.map = disk.map,
         disk'.data = disk.data, disk'.batmap \subseteq vhd.batmap, cand' = cand, bound' = bound
  PROVE  Kept
<1>1. Driver(vhd, NoReq, NoBlock) /\ FH(vhd, disk, cand, bound, NoReq)
  BY IInvUp
<1>2. vhd' = dead(vhd) /\ crashes' = crashes + 1
  BY DEF Die, dead, shut, unused
<1>3. Driver(vhd', NoReq, NoBlock) /\ FileOK(vhd', disk') /\ History(vhd', disk', cand, bound, NoReq)
  BY <1>1, <1>2, Dies
<1>4. crashes' \in Nat
  BY <1>2 DEF IInv
<1> QED BY <1>3, <1>4 DEF Kept, IInv

LEMMA CrashStep ==
  ASSUME IInv, vhd.up, Die, UNCHANGED <<disk, cand, bound>>
  PROVE  Kept
<1>1. disk' = disk /\ cand' = cand /\ bound' = bound
  OBVIOUS
<1>2. disk \in DiskState /\ disk.batmap \subseteq vhd.batmap
  BY DEF IInv, FileOK, FileBat
<1> QED BY <1>1, <1>2, DieStep

LEMMA CloseStep ==
  ASSUME IInv, Close
  PROVE  Kept
<1>1. vhd.up /\ Die /\ cand' = cand /\ bound' = bound /\ disk' = [disk EXCEPT !.batmap = vhd.batmap]
  BY DEF Close
<1>2. disk \in DiskState /\ vhd.batmap \in SUBSET Blocks
  BY DEF IInv, FileOK, FileBat, Driver, VhdState
<1>3. /\ disk' \in DiskState /\ disk'.bat = disk.bat /\ disk'.map = disk.map
      /\ disk'.data = disk.data /\ disk'.batmap = vhd.batmap
  BY <1>1, <1>2 DEF DiskState
<1> QED BY <1>1, <1>3, DieStep

LEMMA OpenStep ==
  ASSUME IInv, Open
  PROVE  Kept
<1>1. /\ ~vhd.up /\ vhd' = vhd_initialize(vhd.prealloc, disk.bat, disk.batmap, vhd.req)
      /\ disk' = disk /\ cand' = cand /\ bound' = bound /\ crashes' = crashes
  BY DEF Open
<1>2. Driver(vhd, NoReq, NoBlock) /\ FileOK(vhd, disk) /\ History(vhd, disk, cand, bound, NoReq) /\ crashes \in Nat
  BY DEF IInv
<1>3. Driver(vhd', NoReq, NoBlock) /\ FileOK(vhd', disk) /\ History(vhd', disk, cand, bound, NoReq)
  BY <1>1, <1>2, Opens
<1> QED BY <1>1, <1>2, <1>3 DEF Kept, IInv

(* Every step of the driver keeps the invariant.                            *)
LEMMA NextKept ==
  ASSUME FaultsCovered, IInv, [Next]_vars
  PROVE  Kept
<1>1. ASSUME NEW r \in Reqs, NEW x \in ClientSecs, QueueRead(r, x) PROVE Kept
  BY <1>1, QueueReadStep
<1>2. ASSUME NEW r \in Reqs, NEW x \in ClientSecs, QueueWrite(r, x) PROVE Kept
  BY <1>2, QueueWriteStep
<1>3. ASSUME NEW r \in Reqs, NEW x \in ClientSecs, QueueStatus(r, x) PROVE Kept
  BY <1>3, QueueStatusStep
<1>4. ASSUME NEW io \in vhd.aio, Land(io) PROVE Kept
  BY <1>4, LandStep
<1>5. ASSUME NEW io \in vhd.aio, Complete(io) PROVE Kept
  BY <1>5, CompleteStep
<1>6. ASSUME NEW io \in vhd.aio, Abort(io) PROVE Kept
  <2>1. vhd.up /\ Die /\ UNCHANGED <<disk, cand, bound>>
    BY <1>6, BusyUp DEF Abort
  <2> QED BY <2>1, CrashStep
<1>7. ASSUME Crash PROVE Kept
  BY <1>7, CrashStep DEF Crash
<1>8. ASSUME Close PROVE Kept
  BY <1>8, CloseStep
<1>9. ASSUME Open PROVE Kept
  BY <1>9, OpenStep
<1>10. CASE UNCHANGED vars
  BY <1>10 DEF vars, Kept, IInv
<1> QED BY <1>1, <1>2, <1>3, <1>4, <1>5, <1>6, <1>7, <1>8, <1>9, <1>10 DEF Next, IOStep

LEMMA InitIInv ==
  ASSUME Init
  PROVE  IInv
<1> DEFINE q0 == [r \in Reqs |-> init_vhd_request]
<1>1. PICK p \in Modes : vhd = vhd_initialize(p, unused, {}, q0)
  BY DEF Init, unused
<1>2. /\ disk = [bat |-> unused, batmap |-> {}, map |-> [x \in Slots |-> Secs],
                 data |-> [x \in Slots |-> [k \in Secs |-> Junk]]]
      /\ cand = [x \in Sectors |-> {Parent}] /\ bound = [r \in Reqs |-> {}] /\ crashes = 0
  BY DEF Init, unused
<1>3. p \in BOOLEAN /\ q0 \in [Reqs -> Request] /\ unused \in [Blocks -> Entries]
  BY ConstantsAssumption, FreshRequest DEF unused, Entries
<1>4. \A r \in Reqs : q0[r] = init_vhd_request /\ q0[r].st = "free" /\ q0[r].op = "read"
  BY DEF init_vhd_request
<1> HIDE DEF q0
<1>5. /\ Blank(vhd) /\ vhd.up /\ vhd.bat = unused /\ vhd.batmap = {} /\ vhd.req = q0
      /\ \A b \in Blocks : vhd.bat[b] < vhd.next_db
  BY <1>1, <1>3, <1>4, InitializeEffect
<1>6. \A b \in Blocks : unused[b] = DD_BLK_UNUSED
  BY DEF unused
<1>7. Driver(vhd, NoReq, NoBlock)
  BY <1>5, <1>6, BlankDriver
<1>8. disk \in DiskState /\ disk.bat = unused /\ disk.batmap = {}
  BY <1>2, <1>3 DEF DiskState, Values
<1>9. vhd.aio = {} /\ vhd.cached = {} /\ ~vhd.bat_tx /\ outstanding(vhd) = {} /\ ~vhd.locked
      /\ \A b \in Blocks : vhd.bm[b] = init_vhd_bitmap
  BY <1>5 DEF Blank
<1>10. FileOK(vhd, disk)
  <2>1. FileBat(vhd, disk)
    BY <1>5, <1>6, <1>8, <1>9 DEF FileBat
  <2>2. FileMap(vhd, disk)
    BY <1>5, <1>8, <1>9 DEF FileMap
  <2> QED BY <2>1, <2>2 DEF FileOK
<1>11. History(vhd, disk, cand, bound, NoReq)
  <2>1. /\ cand \in [Sectors -> SUBSET Values] /\ bound \in [Reqs -> SUBSET Values]
        /\ \A x \in Sectors : cand[x] = {Parent}
    BY <1>2 DEF Values
  <2>2. CandOK(vhd, cand)
    BY <2>1, ConstantsAssumption DEF CandOK
  <2>3. \A x \in Sectors : blk_of(x) \in Blocks
    BY Geometry
  <2>4. \A b \in Blocks : Own(vhd, disk, b) = DD_BLK_UNUSED
    BY <1>6, <1>8, <1>9 DEF Own, Mine
  <2>5. GoodOK(vhd, disk, cand)
    BY <1>9, <2>3, <2>4 DEF GoodOK, init_vhd_bitmap
  <2>6. ParentOK(vhd, disk, cand)
    BY <2>1 DEF ParentOK
  <2>7. \A r \in Reqs : vhd.req[r].op = "read" /\ vhd.req[r].st = "free"
    BY <1>4, <1>5
  <2>8. \A r \in Reqs : vhd.req[r].op = "write" => WriteOK(vhd, disk, cand, bound, r, NoReq)
    BY <2>7
  <2>9. \A r \in Reqs : ReadOK(vhd, cand, bound, r)
    BY <1>9, <2>7 DEF ReadOK
  <2> QED BY <1>9, <2>1, <2>2, <2>5, <2>6, <2>8, <2>9 DEF History
<1> QED BY <1>2, <1>7, <1>10, <1>11 DEF IInv

-----------------------------------------------------------------------------
(* What the invariant says.                                                 *)

LEMMA IInvBookkeeping ==
  ASSUME IInv
  PROVE  Bookkeeping
<1>1. Driver(vhd, NoReq, NoBlock) /\ FileBat(vhd, disk) /\ FileMap(vhd, disk) /\ vhd \in VhdState
  BY DEF IInv, FileOK, Driver
<1>2. TxAccounting
  <2>1. \A b \in Blocks : TxIOs(b) = txios(vhd, b)
    BY DEF TxIOs, txios, TxIO
  <2> QED BY <1>1, <2>1 DEF TxAccounting, Driver, TxOK
<1>3. BatOK(vhd, NoBlock) /\ vhd.pbw_blk \in Blocks /\ NoBlock \notin Blocks
  BY <1>1 DEF Driver, VhdState, NoBlock, Blocks
<1>4. vhd.locked => /\ vhd.pbw_offset \in Slots /\ vhd.bat[vhd.pbw_blk] = DD_BLK_UNUSED
                    /\ vhd.pbw_offset = vhd.next_db
  BY <1>3 DEF BatOK, Allocating, Failing, Done
<1>5. \A b \in Blocks : vhd.bat[b] # DD_BLK_UNUSED => vhd.bat[b] \in Slots
  BY <1>1, BatField DEF Entries
<1>6. ASSUME NEW io \in vhd.aio, io.op # "bat" PROVE io.slot \in Slots /\ Owns(io.blk, io.slot)
  <2>1. IoOK(vhd, io) /\ io.blk \in Blocks /\ io.op \in AioOps
    BY <1>1 DEF Driver, VhdState, Tiocb
  <2>2. BlkOK(vhd, io.blk, NoBlock)
    BY <1>1, <2>1 DEF Driver
  <2>3. CASE io.op = "data_read"
    BY <1>5, <2>1, <2>3 DEF IoOK, Owns
  <2>4. CASE io.op = "data_write"
    BY <2>1, <2>4 DEF IoOK, Owns, Mine
  <2>5. CASE io.op = "redundant_bm"
    BY <1>5, <2>1, <2>2, <2>5 DEF IoOK, BlkOK, Owns
  <2>6. CASE io.op = "bitmap_read"
    BY <1>5, <2>1, <2>2, <2>6 DEF IoOK, BlkOK, Owns
  <2>7. CASE io.op = "bitmap_write"
    BY <2>1, <2>7 DEF IoOK, Owns, Mine
  <2>8. CASE io.op = "zero_bm"
    BY <1>4, <2>1, <2>8 DEF IoOK, Owns, Mine
  <2> QED BY <1>6, <2>1, <2>3, <2>4, <2>5, <2>6, <2>7, <2>8 DEF AioOps
<1>7. ASSUME NEW b \in Blocks, NEW c \in Blocks, b # c, NEW x \in Slots PROVE ~(Owns(b, x) /\ Owns(c, x))
  <2>1. x # DD_BLK_UNUSED
    BY DEF Slots, DD_BLK_UNUSED
  <2>2. vhd.bat[b] < vhd.next_db /\ vhd.bat[c] < vhd.next_db /\ vhd.next_db \in Int
        /\ vhd.bat[b] \in Int /\ vhd.bat[c] \in Int
    BY <1>1, <1>3, BatField, ConstantsAssumption DEF BatOK, VhdState, Entries, Slots, DD_BLK_UNUSED
  <2>3. vhd.bat[b] = vhd.bat[c] => vhd.bat[b] = DD_BLK_UNUSED
    BY <1>3, <1>7 DEF BatOK
  <2> QED BY <1>4, <1>7, <2>1, <2>2, <2>3 DEF Owns
<1>8. SlotsOwned
  <2>1. \A b, c \in Blocks : b # c => disk.bat[b] = DD_BLK_UNUSED \/ disk.bat[b] # disk.bat[c]
    BY <1>1 DEF FileBat
  <2> QED BY <1>6, <1>7, <2>1 DEF SlotsOwned
<1>9. BatmapSound
  BY <1>1 DEF FileBat, FileMap, BatmapSound
<1> QED BY <1>2, <1>8, <1>9 DEF Bookkeeping

LEMMA IInvCacheSound ==
  ASSUME IInv
  PROVE  CacheSound
<1>1. Driver(vhd, NoReq, NoBlock) /\ vhd \in VhdState /\ CountOK(vhd)
  BY DEF IInv, Driver
<1>2. ASSUME NEW b \in Blocks PROVE BlkOK(vhd, b, NoBlock) /\ b # NoBlock /\ vhd.bm[b] \in Bitmap
  BY <1>1, BmField DEF Driver, NoBlock, Blocks
<1>3. ASSUME NEW io \in vhd.aio PROVE IoOK(vhd, io) /\ io.blk \in Blocks
  BY <1>1 DEF Driver, VhdState, Tiocb
<1>4. ~bitmap_in_use(init_vhd_bitmap)
  BY DEF bitmap_in_use, init_vhd_bitmap, init_tx
<1>5. \A b \in Blocks : bitmap_in_use(vhd.bm[b]) => b \in vhd.cached /\ vhd.bm[b].locked
  BY <1>2, <1>4 DEF BlkOK
<1>6. LockedWhileUsed
  BY <1>1, <1>5 DEF LockedWhileUsed, CountOK
<1>7. ~init_tx.upd /\ init_tx.reqs = {}
  BY DEF init_tx
<1>8. \A io \in IOs("zero_bm") : /\ vhd.locked /\ vhd.pbw_blk = io.blk /\ ~vhd.started
                                 /\ ~vhd.bm[io.blk].rd /\ vhd.bm[io.blk].locked
  <2> SUFFICES ASSUME NEW io \in vhd.aio, io.op = "zero_bm"
               PROVE  /\ vhd.locked /\ vhd.pbw_blk = io.blk /\ ~vhd.started
                      /\ ~vhd.bm[io.blk].rd /\ vhd.bm[io.blk].locked
    BY DEF IOs
  <2>1. Mine(vhd, io.blk) /\ ~vhd.started /\ vhd.bm[io.blk].tx.upd
    BY <1>3 DEF IoOK
  <2>2. ~vhd.bm[io.blk].rd
    BY <1>2, <1>3, <1>7, <2>1 DEF BlkOK
  <2>3. vhd.bm[io.blk].locked
    BY <1>3, <1>5, <2>1 DEF bitmap_in_use
  <2> QED BY <2>1, <2>2, <2>3 DEF Mine
<1>9. \A io \in IOs("bat") : /\ vhd.locked /\ vhd.started /\ vhd.pbw_blk = io.blk
                             /\ ~vhd.bm[io.blk].rd /\ vhd.bm[io.blk].tx.live
  <2> SUFFICES ASSUME NEW io \in vhd.aio, io.op = "bat"
               PROVE  /\ vhd.locked /\ vhd.started /\ vhd.pbw_blk = io.blk
                      /\ ~vhd.bm[io.blk].rd /\ vhd.bm[io.blk].tx.live
    BY DEF IOs
  <2>1. Mine(vhd, io.blk) /\ vhd.started /\ (bat_req \in vhd.bm[io.blk].tx.reqs \/ vhd.bm[io.blk].tx.upd)
    BY <1>3 DEF IoOK
  <2>2. vhd.bm[io.blk].tx # init_tx
    BY <1>7, <2>1
  <2>3. ~vhd.bm[io.blk].rd /\ vhd.bm[io.blk].tx.live
    BY <1>2, <1>3, <2>2 DEF BlkOK
  <2> QED BY <2>1, <2>3 DEF Mine
<1>10. \A io \in IOs("bitmap_read") : vhd.bm[io.blk].rd
  BY <1>3 DEF IOs, IoOK
<1>11. \A io \in IOs("bitmap_write") : vhd.bm[io.blk].wr /\ vhd.bm[io.blk].tx.closed
  BY <1>2, <1>3 DEF IOs, IoOK, BlkOK
<1>12. \A b \in Blocks : vhd.bm[b].tx.upd => vhd.locked /\ vhd.pbw_blk = b
  BY <1>2 DEF BlkOK, Mine
<1>13. HandlersReady
  BY <1>8, <1>9, <1>10, <1>11, <1>12 DEF HandlersReady
<1> QED BY <1>6, <1>13 DEF CacheSound

LEMMA IInvVreqConservation ==
  ASSUME IInv
  PROVE  VreqConservation
<1>1. IOs("redundant_bm") = Redundant(vhd)
  BY DEF IOs, Redundant
<1> QED BY <1>1 DEF IInv, Driver, CountOK, VreqConservation

LEMMA IInvQuiescentClean ==
  ASSUME IInv
  PROVE  QuiescentClean
<1> SUFFICES ASSUME vhd.aio = {}
             PROVE  outstanding(vhd) = {} /\ ~vhd.locked /\ \A b \in Blocks : ~vhd.bm[b].locked
  BY DEF QuiescentClean
<1>1. Driver(vhd, NoReq, NoBlock) /\ vhd \in VhdState
  BY DEF IInv, Driver
<1>2. \A b, op : ~HasIO(vhd, b, op)
  BY DEF HasIO
<1>3. \A b : txios(vhd, b) = {}
  BY DEF txios
<1>4. init_tx.reqs = {} /\ ~init_tx.closed /\ ~init_tx.upd
  BY DEF init_tx
<1>5. ASSUME NEW b \in Blocks
      PROVE  /\ ~vhd.bm[b].rd /\ ~vhd.bm[b].wr /\ vhd.bm[b].waiting = {} /\ ~vhd.bm[b].tx.upd
             /\ ~vhd.bm[b].tx.live /\ vhd.bm[b].tx.reqs = {} /\ vhd.bm[b].queue = {}
             /\ ~vhd.bm[b].locked
  <2>1. BlkOK(vhd, b, NoBlock) /\ b # NoBlock /\ vhd.bm[b] \in Bitmap /\ vhd.bm[b].tx \in Tx
    BY <1>1, BmField DEF Driver, NoBlock, Blocks
  <2>2. ~vhd.bm[b].rd /\ ~vhd.bm[b].wr /\ vhd.bm[b].waiting = {} /\ ~vhd.bm[b].tx.upd
    BY <1>2, <2>1 DEF BlkOK, Bitmap
  <2>3. ~vhd.bm[b].tx.live
    BY <1>3, <2>1, <2>2 DEF BlkOK
  <2>4. vhd.bm[b].tx = init_tx
    BY <2>1, <2>3 DEF BlkOK
  <2>5. vhd.bm[b].queue = {}
    BY <1>4, <2>1, <2>4 DEF BlkOK
  <2>6. ~bitmap_in_use(vhd.bm[b])
    BY <1>4, <2>2, <2>4, <2>5 DEF bitmap_in_use
  <2>7. ~vhd.bm[b].locked
    BY <2>1, <2>6 DEF BlkOK
  <2> QED BY <1>4, <2>2, <2>3, <2>4, <2>5, <2>7
<1>6. vhd.pbw_blk \in Blocks /\ NoBlock \notin Blocks
  BY <1>1 DEF VhdState, NoBlock, Blocks
<1>7. ~vhd.locked
  BY <1>1, <1>2, <1>5, <1>6 DEF Driver, BatOK, Allocating, Failing, Done
<1>8. ASSUME NEW r \in Reqs, r \in outstanding(vhd) PROVE FALSE
  <2>1. ReqOK(vhd, r, NoReq) /\ r # NoReq /\ blk_of(vhd.req[r].sec) \in Blocks
    BY <1>1, NotMeta, ReqField DEF Driver
  <2> QED BY <1>5, <1>8, <2>1 DEF ReqOK, outstanding
<1> QED BY <1>5, <1>7, <1>8 DEF outstanding

LEMMA IInvCrashConsistent ==
  ASSUME IInv
  PROVE  CrashConsistent
<1> SUFFICES ASSUME NEW x \in Sectors
             PROVE  DiskView(x) \in cand[x]
  BY DEF CrashConsistent
<1> DEFINE b == blk_of(x)
<1>1. /\ Driver(vhd, NoReq, NoBlock) /\ FileBat(vhd, disk) /\ FileMap(vhd, disk)
      /\ GoodOK(vhd, disk, cand) /\ ParentOK(vhd, disk, cand)
  BY DEF IInv, FileOK, History
<1>2. b \in Blocks /\ sec_of(x) \in Secs
  BY Geometry
<1>3. CASE disk.bat[b] = DD_BLK_UNUSED \/ sec_of(x) \notin disk.map[disk.bat[b]]
  <2>1. Parent \in cand[x]
    BY <1>1, <1>3 DEF ParentOK, Set
  <2>2. disk.bat[b] # DD_BLK_UNUSED => b \notin disk.batmap
    BY <1>1, <1>2, <1>3 DEF FileMap
  <2>3. DiskView(x) = Parent
    BY <1>3, <2>2 DEF DiskView
  <2> QED BY <2>1, <2>3
<1>4. CASE disk.bat[b] # DD_BLK_UNUSED /\ sec_of(x) \in disk.map[disk.bat[b]]
  <2>1. Own(vhd, disk, b) = disk.bat[b]
    BY <1>4 DEF Own
  <2>2. ASSUME NEW io \in vhd.aio, io.blk = b, io.op = "zero_bm" PROVE FALSE
    BY <1>1, <1>4, <2>2, BusyUp, ZeroingUnused
  <2>3. Zeroed(vhd, b)
    BY <2>2 DEF Zeroed
  <2>4. Good(vhd, disk, cand, x)
    BY <1>1, <1>4, <2>1, <2>3 DEF GoodOK
  <2>5. DiskView(x) = disk.data[disk.bat[b]][sec_of(x)]
    BY <1>4 DEF DiskView
  <2> QED BY <2>1, <2>4, <2>5 DEF Good
<1> QED BY <1>3, <1>4

LEMMA IInvReadsRegular ==
  ASSUME IInv
  PROVE  ReadsRegular
  BY DEF IInv, History, ReadOK, ReadsRegular

-----------------------------------------------------------------------------
(* The driver's invariant holds, in whatever order I/O reaches the file and *)
(* vhd_complete is called for it, whatever fails within FaultsCovered, over *)
(* crashes, _vhd_close and __vhd_open.                                      *)
THEOREM InvariantHolds ==
  ASSUME FaultsCovered
  PROVE  Spec => []IInv
<1>1. Init => IInv
  BY InitIInv
<1>2. IInv /\ [Next]_vars => IInv'
  BY NextKept DEF Kept
<1> QED BY <1>1, <1>2, PTL DEF Spec

(* An acknowledged write survives: whenever the process dies, every sector  *)
(* of the file holds a value it may legitimately have.  It is about the     *)
(* order in which finish_data_transaction, finish_bitmap_write and          *)
(* finish_bat_write let data, bitmap and BAT reach the file before          *)
(* signal_completion.                                                       *)
THEOREM CrashSafe ==
  ASSUME FaultsCovered
  PROVE  Spec => []CrashConsistent
<1>1. IInv => CrashConsistent
  BY IInvCrashConsistent
<1> QED BY <1>1, InvariantHolds, PTL

(* A read that succeeds returns a value its sector held while it was        *)
(* outstanding: vhd_queue_read trusts a cached bitmap, or one being read.   *)
THEOREM ReadsSafe ==
  ASSUME FaultsCovered
  PROVE  Spec => []ReadsRegular
<1>1. IInv => ReadsRegular
  BY IInvReadsRegular
<1> QED BY <1>1, InvariantHolds, PTL

(* A transaction counts exactly its I/O (started, finished), no slot of the *)
(* file has two owners (reserve_new_block), and the batmap calls full only  *)
(* blocks that are (vhd_batmap_set).                                        *)
THEOREM BookkeepingHolds ==
  ASSUME FaultsCovered
  PROVE  Spec => []Bookkeeping
<1>1. IInv => Bookkeeping
  BY IInvBookkeeping
<1> QED BY <1>1, InvariantHolds, PTL

(* A bitmap in use is never evicted by alloc_vhd_bitmap, and every          *)
(* completion handler finds the state its ASSERTs name.                     *)
THEOREM CacheHolds ==
  ASSUME FaultsCovered
  PROVE  Spec => []CacheSound
<1>1. IInv => CacheSound
  BY IInvCacheSound
<1> QED BY <1>1, InvariantHolds, PTL

(* The free list, the requests in use and the redundant bitmap writes       *)
(* always add up to VHD_REQS_DATA (alloc_vhd_request, free_vhd_request).    *)
THEOREM VreqsConserved ==
  ASSUME FaultsCovered
  PROVE  Spec => []VreqConservation
<1>1. IInv => VreqConservation
  BY IInvVreqConservation
<1> QED BY <1>1, InvariantHolds, PTL

(* With no I/O in flight nobody waits on a bitmap's lists and neither the   *)
(* BAT nor a bitmap is locked: every handler that ends the last I/O of a    *)
(* transaction calls start_new_bitmap_transaction and unlock_bat in time.   *)
THEOREM QuiescenceClean ==
  ASSUME FaultsCovered
  PROVE  Spec => []QuiescentClean
<1>1. IInv => QuiescentClean
  BY IInvQuiescentClean
<1> QED BY <1>1, InvariantHolds, PTL

(* The file's BAT never takes a slot away from a block or moves it, over    *)
(* failed writes of the BAT (finish_bat_write), crashes and reopening.      *)
THEOREM BatFinal ==
  ASSUME FaultsCovered
  PROVE  Spec => BatEntriesFinal
<1>1. IInv /\ [Next]_vars
        => [\A b \in Blocks : disk.bat[b] # DD_BLK_UNUSED => disk'.bat[b] = disk.bat[b]]_vars
  BY NextKept DEF Kept
<1> QED BY <1>1, InvariantHolds, PTL DEF Spec, BatEntriesFinal
=============================================================================
