----------------------------- MODULE LeafCache -----------------------------
(***************************************************************************)
(* The drivers that cache a disk of shared storage on the local one.       *)
(*                                                                         *)
(*   llp    (drivers/block-llcache.c) writes to LOCAL and to SHARED and    *)
(*          reads LOCAL, whose misses fall through to SHARED;              *)
(*   lle    (drivers/block-llcache.c) writes to LOCAL and reads it, until  *)
(*          LOCAL is full; then SHARED, which masks it;                    *)
(*   lcache (drivers/block-lcache.c) sits below the local leaf and stores  *)
(*          in the leaf what the leaf had to read from the shared parent.  *)
(*                                                                         *)
(* An image maps a sector to the number of the write it holds.  The parent *)
(* is never written and holds 0 everywhere.                                *)
(***************************************************************************)
EXTENDS Integers, Sequences, FiniteSets, SequencesExt

CONSTANTS
    Sectors,    \* the sectors of the disk
    MaxReq,     \* TD_LLPCACHE_MAX_REQ, TD_LLECACHE_MAX_REQ, TD_LCACHE_MAX_REQ
    MaxGuest,   \* bound on the requests of the guest
    MaxErrors,  \* bound on the failures of images
    Faults      \* for each driver of the run, what may befall it: "io", errors
                \* other than ENOSPC; "split", the parts of one request may end
                \* differently; "race", the guest writes what it is reading and
                \* writes in flight to one sector land in any order; "reopen",
                \* the image is closed and opened after it has changed its mode;
                \* "read", for llp, the guest reads too

VARIABLES
    kind,    \* the driver
    mode,    \* s->mode; for lcache, cache->wr_en
    free,    \* n_free
    img,     \* the contents of the images
    req,     \* the requests of the guest, in order of arrival
    out,     \* the requests the images have, in the order they were queued
    may,     \* for each sector, the writes it may hold: the last one answered
             \* with success and those since that failed
    errors, panic

vars == <<kind, mode, free, img, req, out, may, errors, panic>>

Absent == -1        \* a sector the image does not hold

FirstMode(k) == CASE k = "llp" -> "mirror" [] k = "lle" -> "local" [] k = "lcache" -> "on"

Init ==
    /\ kind \in DOMAIN Faults /\ mode = FirstMode(kind) /\ free = MaxReq
    /\ img = [i \in {"local", "shared"} |-> [s \in Sectors |-> Absent]]
    /\ req = << >> /\ out = << >> /\ may = [s \in Sectors |-> {0}]
    /\ errors = 0 /\ panic = FALSE

-----------------------------------------------------------------------------
(* Below and above the drivers: the images and the VBD. *)

\* What a read finds that goes to the images of the list, the first one first.
Find(images, s) ==
    LET held == SelectSeq(images, LAMBDA i : img[i][s] # Absent)
    IN IF held = << >> THEN 0 ELSE img[Head(held)][s]

\* llpcache_queue_read and llecache_queue_read: the image a read of the mode goes
\* to and the ones its misses fall through to.  The leaf of lcache is LOCAL.
Chain(m) == CASE m = "mirror" -> <<"local", "shared">>
              [] kind = "llp" -> <<"shared">>
              [] kind = "lle" /\ m = "shared" -> <<"shared", "local">>
              [] OTHER        -> <<"local">>

\* A request to an image: a part of r, or the whole of it.
Part(r, what, to, secs, val) == [r |-> r, what |-> what, to |-> to, secs |-> secs, val |-> val]

\* The parts in which an image completes a request: block-vhd answers separately
\* for sectors of different blocks.
Splits(secs) == {<<secs>>} \cup {[i \in 1 .. Cardinality(secs) |-> {t[i]}] :
                                    t \in {t \in [1 .. Cardinality(secs) -> secs] :
                                              \A i, j \in DOMAIN t : i < j => t[i] < t[j]}}

\* Image writes and reads take effect when they end.  A full file refuses what it
\* does not hold yet.
Outcomes(p) ==
    LET before == req[p.r].err
        fails  == (IF "io" \in Faults[kind] THEN {"EIO"} ELSE {})
                     \cup (IF /\ p.to = "local" /\ p.what # "read"
                              /\ \A s \in p.secs : img.local[s] = Absent
                           THEN {"ENOSPC"} ELSE {})
    IN IF before # "ok" /\ p.what \in {"part", "read"} /\ "split" \notin Faults[kind]
       THEN {before}
       ELSE {"ok"} \cup (IF errors < MaxErrors THEN fails ELSE {})

Lands(p, e) ==
    LET written == [img EXCEPT ![p.to] = [s \in Sectors |-> IF s \in p.secs THEN p.val ELSE @[s]]]
    IN CASE p.what = "read" \/ e = "ENOSPC" -> {img}
         [] e = "EIO" -> {img, written}
         [] OTHER     -> {written}

\* Whether the i-th request may end now: writes to a sector land in their order.
Due(i) == \/ "race" \in Faults[kind]
          \/ \A j \in 1 .. i - 1 : out[j].to # out[i].to \/ out[j].secs \cap out[i].secs = {}

\* td_complete_request of the guest's request, seen by the VBD and the guest.
Answered(rq, r, e) == [rq EXCEPT ![r].st = IF e = "ok" THEN "ok" ELSE "failed"]

MayHold(r, e) ==
    [s \in Sectors |-> IF req[r].op = "write" /\ s \in req[r].secs
                       THEN {r} \cup (IF e = "ok" THEN {} ELSE may[s]) ELSE may[s]]

Complete(r, e) == req' = Answered(req, r, e) /\ may' = MayHold(r, e)

\* The guest sends a request; it does not write what it is reading or writing.
GuestSends(op, secs) ==
    /\ Len(req) < MaxGuest
    /\ \A r \in DOMAIN req :
          \/ req[r].st \notin {"new", "busy"} \/ req[r].secs \cap secs = {}
          \/ {op, req[r].op} = {"read"}
          \/ ("race" \in Faults[kind] /\ "read" \in {op, req[r].op})
    /\ op = "read" /\ kind = "llp" => "read" \in Faults[kind]
    /\ req' = Append(req, [op |-> op, secs |-> secs, st |-> "new", miss |-> {},
                            pending |-> {}, err |-> "ok"])
    /\ UNCHANGED <<kind, mode, free, img, out, may, errors, panic>>

\* A request of the driver's pool is taken, and given back.
Alloc == free > 0 /\ free' = free - 1

Free == free' = free + 1

-----------------------------------------------------------------------------
(* llp *)

Issued(r, pending) == [req EXCEPT ![r].st = "busy", ![r].pending = pending]

\* ll_write_error.
WriteError(curr, error) == IF error # "ok" /\ curr \in {"ok", "ENOSPC"} THEN error ELSE "ok"

\* llpcache_queue_write of the guest's write: llpcache_fork_write and
\* llpcache_requeue_treq; llpcache_queue_write then forwards each clone.  Without a
\* request left the write is answered -EBUSY, and the VBD sends it again.
ForkWrite(r) ==
    /\ kind = "llp" /\ req[r].st = "new" /\ req[r].op = "write"
    /\ Alloc /\ req' = Issued(r, {"local", "shared"})
    /\ out' = out \o <<Part(r, "clone", "local", req[r].secs, r),
                       Part(r, "clone", "shared", req[r].secs, r)>>
    /\ UNCHANGED <<kind, mode, img, may, errors, panic>>

\* __llpcache_write_cb.
CloneEnds(i, e) ==
    LET p     == out[i]
        error == IF p.to = "local" /\ e = "ENOSPC" THEN "ok" ELSE e
        q     == [req[p.r] EXCEPT !.pending = @ \ {p.to}, !.err = WriteError(@, error)]
    IN /\ p.what = "clone"
       /\ mode' = IF p.to = "local" /\ e = "ENOSPC" THEN "shared" ELSE mode
       /\ IF q.pending # {} THEN req' = [req EXCEPT ![p.r] = q] /\ UNCHANGED <<may, free>>
          ELSE Complete(p.r, q.err) /\ Free
       /\ out' = RemoveAt(out, i) /\ UNCHANGED panic

-----------------------------------------------------------------------------
(* lle *)

\* llecache_queue_write in the mode LLE_LOCAL: llecache_forward_write.
ForwardWrite(r) ==
    /\ kind = "lle" /\ mode = "local" /\ req[r].st = "new" /\ req[r].op = "write"
    /\ Alloc /\ req' = Issued(r, req[r].secs)
    /\ \E parts \in Splits(req[r].secs) :
          out' = out \o [i \in DOMAIN parts |-> Part(r, "part", "local", parts[i], r)]
    /\ UNCHANGED <<kind, mode, img, may, errors, panic>>

\* Mutant: the write that found LOCAL full is answered, not written to SHARED.
PartEnds_mutant(i, e) ==
    LET p == out[i]
        q == [req[p.r] EXCEPT !.pending = @ \ p.secs, !.err = WriteError(@, e)]
    IN /\ p.what = "part" /\ out' = RemoveAt(out, i)
       /\ IF q.pending # {} THEN req' = [req EXCEPT ![p.r] = q] /\ UNCHANGED <<mode, may, free>>
          ELSE /\ Free /\ mode' = IF q.err = "ENOSPC" THEN "shared" ELSE mode
               /\ Complete(p.r, IF e = "ENOSPC" THEN "ok" ELSE e)
       /\ UNCHANGED panic

\* __llecache_write_cb.  The answer is the error of the part that ended last.
PartEnds(i, e) ==
    LET p == out[i]
        q == [req[p.r] EXCEPT !.pending = @ \ p.secs, !.err = WriteError(@, e)]
    IN /\ p.what = "part"
       /\ \/ /\ q.pending # {} /\ req' = [req EXCEPT ![p.r] = q]
             /\ out' = RemoveAt(out, i) /\ UNCHANGED <<mode, may, free>>
          \/ /\ q.pending = {} /\ q.err = "ENOSPC" /\ mode' = "shared" /\ Free
             /\ out' = Append(RemoveAt(out, i), Part(p.r, "plain", "shared", q.secs, p.r))
             /\ req' = [req EXCEPT ![p.r] = [q EXCEPT !.err = "ok"]] /\ UNCHANGED may
          \/ /\ q.pending = {} /\ q.err # "ENOSPC" /\ Complete(p.r, e) /\ Free
             /\ out' = RemoveAt(out, i) /\ UNCHANGED mode
       /\ UNCHANGED panic

-----------------------------------------------------------------------------
(* lcache *)

\* lcache_queue_read: of a read of the leaf, what the leaf does not hold.
CacheRead(r) ==
    LET misses == {s \in req[r].secs : img.local[s] = Absent}
    IN /\ kind = "lcache" /\ req[r].st = "new" /\ req[r].op = "read"
       /\ misses # {} /\ Alloc /\ req' = [Issued(r, misses) EXCEPT ![r].miss = misses]
       /\ \E parts \in Splits(misses) :
             out' = out \o [i \in DOMAIN parts |-> Part(r, "read", "shared", parts[i], 0)]
       /\ UNCHANGED <<kind, mode, img, may, errors, panic>>

\* lcache_wr_enabled: the values of wr_en after it.  Once a second it asks for the
\* free space again, so that it may change either way.
WrEnabled == {"on", "off"}

\* __lcache_read_cb, lcache_complete_read and lcache_store_read.
ReadEnds(i, e) ==
    LET p == out[i]
        q == [req[p.r] EXCEPT !.pending = @ \ p.secs, !.err = IF @ = "ok" THEN e ELSE @]
    IN /\ p.what = "read"
       /\ \/ /\ q.pending # {} /\ req' = [req EXCEPT ![p.r] = q]
             /\ out' = RemoveAt(out, i) /\ UNCHANGED <<mode, free, may>>
          \/ /\ q.pending = {} /\ Complete(p.r, q.err)
             /\ IF q.err = "ok" THEN mode' \in WrEnabled ELSE UNCHANGED mode
             /\ \/ /\ q.err = "ok" /\ mode' = "on" /\ UNCHANGED free
                   /\ out' = Append(RemoveAt(out, i), Part(p.r, "store", "local", q.miss, 0))
                \/ /\ q.err # "ok" \/ mode' = "off"
                   /\ Free /\ out' = RemoveAt(out, i)
       /\ UNCHANGED panic

\* __lcache_write_cb.
StoreEnds(i, e) ==
    /\ out[i].what = "store" /\ Free
    /\ mode' = IF e = "ENOSPC" THEN "off" ELSE mode
    /\ out' = RemoveAt(out, i) /\ UNCHANGED <<req, may, panic>>

-----------------------------------------------------------------------------
(* What the drivers hand on without a callback of their own. *)

\* llecache_queue_write in the mode LLE_SHARED; a write to the leaf above lcache.
PlainWrite(r) ==
    /\ kind = "lcache" \/ (kind = "lle" /\ mode = "shared")
    /\ req[r].st = "new" /\ req[r].op = "write"
    /\ req' = Issued(r, {})
    /\ out' = Append(out, Part(r, "plain", IF kind = "lle" THEN "shared" ELSE "local",
                               req[r].secs, r))
    /\ UNCHANGED <<kind, mode, free, img, may, errors, panic>>

\* llpcache_queue_read, which falls through to BUG in the mode LLP_SHARED, and
\* llecache_queue_read; a read the leaf above lcache serves.
PlainRead(r) ==
    /\ req[r].st = "new" /\ req[r].op = "read"
    /\ kind = "lcache" => \A s \in req[r].secs : img.local[s] # Absent
    /\ panic' = (kind = "llp" /\ mode = "shared")
    /\ req' = [req EXCEPT ![r].st = "ok"]
    /\ UNCHANGED <<kind, mode, free, img, out, may, errors>>

PlainEnds(i, e) ==
    /\ out[i].what = "plain" /\ Complete(out[i].r, e)
    /\ out' = RemoveAt(out, i) /\ UNCHANGED <<mode, free, panic>>

\* A request to an image ends.
Ends(i, e) ==
    /\ Due(i) /\ e \in Outcomes(out[i]) /\ img' \in Lands(out[i], e)
    /\ errors' = IF e = "ok" \/ req[out[i].r].err = e THEN errors ELSE errors + 1
    /\ \/ CloneEnds(i, e) \/ PartEnds(i, e) \/ ReadEnds(i, e)
       \/ StoreEnds(i, e) \/ PlainEnds(i, e)
    /\ UNCHANGED kind

\* llpcache_close and llpcache_open, llecache_close and llecache_open, lcache_close
\* and lcache_open: the VBD has no request when it is paused and resumed.
Reopen ==
    /\ \A r \in DOMAIN req : req[r].st \in {"ok", "failed"}
    /\ out = << >> /\ mode # FirstMode(kind) /\ "reopen" \in Faults[kind]
    /\ mode' = FirstMode(kind) /\ free' = MaxReq
    /\ UNCHANGED <<kind, img, req, out, may, errors, panic>>

Runs == {secs \in SUBSET Sectors : secs # {} /\ \A s, t \in secs : s .. t \subseteq secs}

Next ==
    /\ ~panic
    /\ \/ \E op \in {"read", "write"}, secs \in Runs : GuestSends(op, secs)
       \/ \E r \in DOMAIN req :
             ForkWrite(r) \/ ForwardWrite(r) \/ CacheRead(r) \/ PlainWrite(r) \/ PlainRead(r)
       \/ \E i \in DOMAIN out, e \in {"ok", "ENOSPC", "EIO"} : Ends(i, e)
       \/ Reopen

Spec == Init /\ [][Next]_vars

\* The VBD issues what it has queued; the images answer.
Fairness ==
    /\ WF_vars(\E i \in DOMAIN out, e \in {"ok", "ENOSPC", "EIO"} : Ends(i, e))
    /\ WF_vars(\E r \in DOMAIN req :
          ForkWrite(r) \/ ForwardWrite(r) \/ CacheRead(r) \/ PlainWrite(r) \/ PlainRead(r))

FairSpec == Spec /\ Fairness

-----------------------------------------------------------------------------
(* Properties. *)

\* The ways the disk may be read: as now, and as after the image has been opened
\* again where that is part of the run; SHARED alone holds the disk of llp.
Views == {mode} \cup (IF "reopen" \in Faults[kind] THEN {FirstMode(kind)} ELSE {})
                \cup (IF kind = "llp" THEN {"shared"} ELSE {})

\* No acknowledged write is lost (block-llcache.c: "In case of failure, SHARED
\* provides continued VDI consistency"): a sector no write is under way for reads as
\* the last write answered with success, or one that failed after it, through every
\* change of mode, rewrite to SHARED and store of a read.
WritesKept ==
    \A s \in Sectors :
        (\A r \in DOMAIN req : req[r].op = "write" /\ s \in req[r].secs =>
                                  req[r].st \in {"ok", "failed"})
        => \A m \in Views : Find(Chain(m), s) \in may[s]

\* The requests of the pool are either free or held by a write, a read or a store in
\* flight, and no read meets a mode it panics in.
PoolConserved ==
    /\ ~panic
    /\ free + Cardinality({out[i].r : i \in {j \in DOMAIN out : out[j].what # "plain"}}) = MaxReq

\* Every request of the guest is answered.
GuestAnswered == \A r \in 1 .. MaxGuest : []<>(r \in DOMAIN req => req[r].st \in {"ok", "failed"})
=============================================================================
