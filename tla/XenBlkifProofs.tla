--------------------------- MODULE XenBlkifProofs ---------------------------
(* The Xen block interface: each request is answered once, a barrier after  *)
(* everything before it, for every number of rings and requests, every size *)
(* of the ring and every interleaving with the front-ends.                  *)
EXTENDS XenBlkif, FiniteSetTheorems, WellFoundedInduction, TLAPS

-----------------------------------------------------------------------------
(* The inductive invariant *)

\* The barrier the ring waits for, as a set.
Fence(b) == {b.msg} \ {None}

\* The requests taken from the ring, and those answered.
Taken(b) == {b.ring[i] : i \in 1 .. b.req_cons}
Ids(b)   == {b.rsp[k].id : k \in DOMAIN b.rsp}

\* The indices of a ring.
Indices(b) ==
    /\ b.req_cons <= Len(b.ring) /\ b.rsp_prod <= Len(b.rsp)
    /\ \A i, j \in DOMAIN b.ring : b.ring[i] = b.ring[j] => i = j

\* A descriptor is in use for each request whose I/O is not done (A) and for the
\* barrier that waits.
Descriptors(b, A) ==
    /\ IsFiniteSet(A) /\ A \subseteq Reqs \ Flushes
    /\ b.free >= 0 /\ b.free + Cardinality(A \cup Fence(b)) = RingSize
    /\ A \cup Fence(b) \subseteq Taken(b)

\* At most one barrier is out, the last request that was taken; fl: the empty
\* barrier that waits to be queued.
OneBarrier(b, A, fl) ==
    /\ b.msg # None => b.msg \in BarrierOp /\ b.req_cons > 0 /\ b.ring[b.req_cons] = b.msg
    /\ \A q \in A : q \in Barriers => q = b.msg
    /\ b.msg \in Barriers => (b.io_done <=> b.msg \notin A)
    /\ fl \subseteq Flushes \cap Taken(b) /\ \A q \in fl : b.msg \in {q, None}

\* What the guest has been told, as long as it is there.  k: answers of this ring
\* are being delivered.
Told(b, A, k) ==
    b.state = "up" =>
      /\ b.req_cons - Len(b.rsp) = RingSize - b.free
      /\ \A i, j \in DOMAIN b.rsp : b.rsp[i].id = b.rsp[j].id => i = j
      /\ Taken(b) = A \cup Fence(b) \cup Ids(b) /\ Ids(b) \cap (A \cup Fence(b)) = {}
      /\ \A i \in 1 .. b.req_cons : b.ring[i] \in BarrierOp \cap Ids(b) =>
            \A j \in 1 .. i : b.ring[j] \in Ids(b)
      /\ b.rsp_prod = Len(b.rsp) \/ k \/ b.msg # None

Ring(b, A, fl, k) ==
    Indices(b) /\ Descriptors(b, A) /\ OneBarrier(b, A, fl) /\ Told(b, A, k)

\* A barrier that waits, waits for something.
Company(b, A, fl) == b.msg # None /\ b.msg \notin A \cup fl => A # {}

\* A ring that is not connected, or no more.
Off(b) ==
    /\ b.state \in {"off", "gone"} /\ b.queued = {} /\ ~b.port /\ ~b.chkrng /\ ~b.stop
    /\ b.free = RingSize /\ b.req_cons = 0 /\ b.rsp = << >> /\ b.rsp_prod = 0

Active(b, got) == b.queued \cup (Elems(got) \ Flushes)

\* One ring, of whose requests got are yet to be queued.
RingOK(b, got, k) ==
    \/ Off(b) /\ got = << >>
    \/ /\ b.state \in {"up", "dead"}
       /\ Ring(b, Active(b, got), Elems(got) \cap Flushes, k)
       /\ Company(b, Active(b, got), Elems(got) \cap Flushes)
       /\ \A i, j \in DOMAIN got : got[i] = got[j] => i = j
       /\ b.queued \cap Elems(got) = {}
       /\ b.state = "dead" => b.queued # {}

\* What the running process_ring has in hand of ring r.
Work(p, r) == IF p.r = r THEN p.got ELSE << >>

Running(p, bs) ==
    /\ p.step = "idle" => p.r = None
    /\ p.step # "idle" => p.r \in Rings /\ bs[p.r].state \in {"up", "dead"}
    /\ p.step \in {"check", "recheck"} =>
          /\ bs[p.r].msg = None /\ Elems(p.got) \cap BarrierOp = {}
          /\ p.limit \in 0 .. bs[p.r].free

Types ==
    /\ blkif \in [Rings -> Blkif] /\ proc \in Process
    /\ ring_masked \in BOOLEAN /\ kicking \in Rings \cup {None}
    /\ vbd \in {"run", "pausing", "paused"} /\ low \in BOOLEAN
    /\ io \in [Reqs -> {"none", "ok", "err"}]

IInv ==
    /\ Types /\ Running(proc, blkif)
    /\ \A r \in Rings : RingOK(blkif[r], Work(proc, r), kicking = r)

\* The requests of two rings differ, and what the guest of one is told is true.
Separate == \A r, s \in Rings : r # s => Elems(blkif[r].ring) \cap Elems(blkif[s].ring) = {}

Honest(b, o) ==
    b.state = "up" =>
      /\ \A k \in DOMAIN b.rsp :
            b.rsp[k].status = "OKAY" <=> (b.rsp[k].id \in Flushes \/ o[b.rsp[k].id] = "ok")
      /\ b.msg \in Barriers /\ b.io_done => o[b.msg] = "ok"

HonestInv == Separate /\ \A r \in Rings : Honest(blkif[r], io)

-----------------------------------------------------------------------------
(* What the operations do to a ring *)

\* Only the events of the ring change.
Core(b, c) ==
    /\ c.state = b.state /\ c.ring = b.ring /\ c.req_cons = b.req_cons /\ c.rsp = b.rsp
    /\ c.rsp_prod = b.rsp_prod /\ c.free = b.free /\ c.queued = b.queued /\ c.msg = b.msg
    /\ c.io_done = b.io_done

LEMMA CoreRing ==
  ASSUME NEW b, NEW c, Core(b, c), NEW A, NEW fl, NEW k
  PROVE  /\ Ring(b, A, fl, k) => Ring(c, A, fl, k)
         /\ Company(b, A, fl) => Company(c, A, fl)
<1>1. Fence(c) = Fence(b) /\ Taken(c) = Taken(b) /\ Ids(c) = Ids(b)
  BY DEF Core, Fence, Taken, Ids
<1>2. Indices(b) => Indices(c)
  BY DEF Core, Indices
<1>3. Descriptors(b, A) => Descriptors(c, A)
  BY <1>1 DEF Core, Descriptors
<1>4. OneBarrier(b, A, fl) => OneBarrier(c, A, fl)
  BY <1>1 DEF Core, OneBarrier
<1>5. Told(b, A, k) => Told(c, A, k)
  BY <1>1 DEF Core, Told
<1>6. Company(b, A, fl) => Company(c, A, fl)
  BY DEF Core, Company
<1> QED BY <1>2, <1>3, <1>4, <1>5, <1>6 DEF Ring

LEMMA CoreOK ==
  ASSUME NEW b, NEW c, Core(b, c), NEW got, NEW k, b.state \in {"up", "dead"}, RingOK(b, got, k)
  PROVE  RingOK(c, got, k)
<1>1. ~Off(b)
  BY DEF Off
<1>2. Active(c, got) = Active(b, got)
  BY DEF Core, Active
<1>3. /\ c.state = b.state /\ c.queued = b.queued
  BY DEF Core
<1> QED BY <1>1, <1>2, <1>3, CoreRing DEF RingOK

\* Counting the descriptors in use.
LEMMA InUse ==
  ASSUME NEW b \in Blkif, NEW A, Descriptors(b, A)
  PROVE  /\ IsFiniteSet(A \cup Fence(b)) /\ Cardinality(A \cup Fence(b)) \in Nat
         /\ b.free \in 0 .. RingSize /\ reqs_pending(b) = Cardinality(A \cup Fence(b))
         /\ reqs_pending(b) = 0 <=> A \cup Fence(b) = {}
         /\ A \cup Fence(b) # {} => b.free + 1 \in 0 .. RingSize
<1> DEFINE S == A \cup Fence(b)
<1>1. IsFiniteSet(S)
  <2>1. Fence(b) \subseteq {b.msg}
    BY DEF Fence
  <2>2. IsFiniteSet(A \cup {b.msg})
    BY FS_AddElement DEF Descriptors
  <2> QED BY <2>1, <2>2, FS_Subset
<1>2. Cardinality(S) \in Nat /\ (Cardinality(S) = 0 <=> S = {})
  BY <1>1, FS_CardinalityType, FS_EmptySet
<1>3. b.free >= 0 /\ b.free + Cardinality(S) = RingSize /\ b.free \in Int /\ RingSize \in Nat
  BY XenBlkifAssumption DEF Descriptors, Blkif
<1> HIDE DEF S
<1>4. /\ b.free \in 0 .. RingSize /\ reqs_pending(b) = Cardinality(S)
      /\ (S # {} => b.free + 1 \in 0 .. RingSize)
  BY <1>2, <1>3 DEF reqs_pending
<1> QED BY <1>1, <1>2, <1>4 DEF S

Status(err) == IF err THEN "ERROR" ELSE "OKAY"

LEMMA RetireFields ==
  ASSUME NEW b \in Blkif, NEW q \in Reqs, NEW err \in BOOLEAN, NEW final \in BOOLEAN
  PROVE  LET c == retire(b, q, err, final)
         IN  /\ c \in Blkif /\ c.state = b.state /\ c.ring = b.ring /\ c.req_cons = b.req_cons
             /\ c.queued = b.queued /\ c.io_done = b.io_done /\ c.free = b.free + 1
             /\ c.msg = (IF q \in BarrierOp THEN None ELSE b.msg)
             /\ b.state = "dead" => c.rsp = b.rsp /\ c.rsp_prod = b.rsp_prod
             /\ b.state # "dead" =>
                  /\ c.rsp = Append(b.rsp, [id |-> q, status |-> Status(err)])
                  /\ c.rsp_prod = (IF final THEN Len(c.rsp) ELSE b.rsp_prod)
<1> DEFINE st == Status(err)
           e == [id |-> q, status |-> st]
           s == Append(b.rsp, e)
           n == IF final THEN Len(s) ELSE b.rsp_prod
           m == IF q \in BarrierOp THEN None ELSE b.msg
           c == retire(b, q, err, final)
<1>1. e \in Response
  BY DEF Response, Statuses, Status
<1>2. b.rsp \in Seq(Response) /\ b.rsp_prod \in Nat /\ b.free \in Int /\ b.msg \in Reqs \cup {None}
  BY DEF Blkif
<1> HIDE DEF e
<1>3. s \in Seq(Response) /\ Len(s) \in Nat
  BY <1>1, <1>2
<1> HIDE DEF s
<1>4. n \in Nat /\ m \in Reqs \cup {None} /\ b.free + 1 \in Int
  BY <1>2, <1>3
<1>5. c = [(IF b.state = "dead" THEN [b EXCEPT !.free = b.free + 1]
            ELSE [[b EXCEPT !.rsp = s, !.rsp_prod = n] EXCEPT !.free = b.free + 1]) EXCEPT !.msg = m]
  <2>1. CASE b.state = "dead"
    BY <1>4, <2>1 DEF retire, free_request, Blkif
  <2>2. CASE b.state # "dead"
    BY <1>3, <1>4, <2>2 DEF retire, free_request, put_response, s, e, Blkif, Status
  <2> QED BY <2>1, <2>2
<1> HIDE DEF n, m, c
<1>6. CASE b.state = "dead"
  <2>1. c = [b EXCEPT !.free = b.free + 1, !.msg = m]
    BY <1>5, <1>6
  <2>2. /\ c \in Blkif /\ c.state = b.state /\ c.ring = b.ring /\ c.req_cons = b.req_cons
        /\ c.queued = b.queued /\ c.io_done = b.io_done /\ c.free = b.free + 1
        /\ c.msg = m /\ c.rsp = b.rsp /\ c.rsp_prod = b.rsp_prod
    BY <1>4, <2>1 DEF Blkif
  <2> QED BY <1>6, <2>2 DEF c, m
<1>7. CASE b.state # "dead"
  <2>1. c = [b EXCEPT !.rsp = s, !.rsp_prod = n, !.free = b.free + 1, !.msg = m]
    BY <1>5, <1>7
  <2>2. /\ c \in Blkif /\ c.state = b.state /\ c.ring = b.ring /\ c.req_cons = b.req_cons
        /\ c.queued = b.queued /\ c.io_done = b.io_done /\ c.free = b.free + 1
        /\ c.msg = m /\ c.rsp = s /\ c.rsp_prod = n
    BY <1>3, <1>4, <2>1 DEF Blkif
  <2> QED BY <1>7, <2>2 DEF c, m, n, s, e
<1> QED BY <1>6, <1>7

LEMMA RetireSame ==
  ASSUME NEW b \in Blkif, NEW q \in Reqs, NEW err \in BOOLEAN, NEW final \in BOOLEAN
  PROVE  /\ retire(b, q, err, final) \in Blkif /\ retire(b, q, err, final).state = b.state
         /\ retire(b, q, err, final).ring = b.ring
         /\ retire(b, q, err, final).req_cons = b.req_cons
         /\ retire(b, q, err, final).queued = b.queued
         /\ retire(b, q, err, final).msg = IF q \in BarrierOp THEN None ELSE b.msg
<1> DEFINE c == retire(b, q, err, final)
           e == [id |-> q, status |-> Status(err)]
<1>1. /\ c \in Blkif /\ c.state = b.state /\ c.ring = b.ring /\ c.req_cons = b.req_cons
      /\ c.queued = b.queued /\ c.io_done = b.io_done /\ c.free = b.free + 1
      /\ c.msg = (IF q \in BarrierOp THEN None ELSE b.msg)
      /\ b.state = "dead" => c.rsp = b.rsp /\ c.rsp_prod = b.rsp_prod
      /\ b.state # "dead" => /\ c.rsp = Append(b.rsp, e)
                             /\ c.rsp_prod = (IF final THEN Len(c.rsp) ELSE b.rsp_prod)
  BY RetireFields
<1> HIDE DEF c, e
<1>2. /\ c \in Blkif /\ c.state = b.state /\ c.ring = b.ring /\ c.req_cons = b.req_cons
      /\ c.queued = b.queued /\ c.msg = IF q \in BarrierOp THEN None ELSE b.msg
  BY <1>1
<1> QED BY <1>2 DEF c

LEMMA SchedFields ==
  ASSUME NEW b \in Blkif
  PROVE  sched_chkrng(b) \in Blkif /\ Core(b, sched_chkrng(b))
BY DEF sched_chkrng, Core, Blkif

LEMMA NewBlkif ==
  /\ new_blkif \in Blkif /\ Off(new_blkif)
  /\ \A b \in Blkif : destroy(b) \in Blkif /\ Off(destroy(b)) /\ destroy(b).state = "gone"
                      /\ destroy(b).ring = b.ring
<1>1. new_blkif \in Blkif
  BY XenBlkifAssumption DEF new_blkif, Blkif
<1>2. Off(new_blkif)
  BY DEF new_blkif, Off
<1>3. ASSUME NEW b \in Blkif
      PROVE  destroy(b) \in Blkif /\ Off(destroy(b)) /\ destroy(b).state = "gone" /\ destroy(b).ring = b.ring
  <2>1. b.ring \in Seq(Reqs)
    BY DEF Blkif
  <2>2. destroy(b) \in Blkif /\ destroy(b).state = "gone" /\ destroy(b).ring = b.ring
    BY <1>1, <2>1 DEF destroy, Blkif
  <2>3. Off(destroy(b))
    BY <1>1 DEF Off, destroy, new_blkif
  <2> QED BY <2>2, <2>3
<1> QED BY <1>1, <1>2, <1>3

\* One answer more.
LEMMA OneMoreAnswer ==
  ASSUME NEW b \in Blkif, NEW c, NEW e \in Response, c.rsp = Append(b.rsp, e)
  PROVE  /\ Ids(c) = Ids(b) \cup {e.id} /\ Len(c.rsp) = Len(b.rsp) + 1 /\ Len(b.rsp) \in Nat
         /\ (/\ e.id \notin Ids(b)
             /\ \A i, j \in DOMAIN b.rsp : b.rsp[i].id = b.rsp[j].id => i = j)
            => \A i, j \in DOMAIN c.rsp : c.rsp[i].id = c.rsp[j].id => i = j
<1> DEFINE n == Len(b.rsp)
<1>1. b.rsp \in Seq(Response)
  BY DEF Blkif
<1>2. /\ DOMAIN c.rsp = 1 .. n + 1 /\ Len(c.rsp) = n + 1 /\ c.rsp[n + 1] = e
      /\ DOMAIN b.rsp = 1 .. n /\ n \in Nat /\ \A i \in 1 .. n : c.rsp[i] = b.rsp[i]
  BY <1>1
<1> HIDE DEF n
<1>3. /\ \A i \in DOMAIN c.rsp : (i \in DOMAIN b.rsp /\ c.rsp[i] = b.rsp[i]) \/ (i = n + 1 /\ c.rsp[i] = e)
      /\ \A i \in DOMAIN b.rsp : i \in DOMAIN c.rsp /\ c.rsp[i] = b.rsp[i]
      /\ n + 1 \in DOMAIN c.rsp
  <2>1. \A i \in 1 .. n + 1 : i \in 1 .. n \/ i = n + 1
    BY <1>2
  <2> QED BY <1>2, <2>1
<1>4. Ids(c) = Ids(b) \cup {e.id}
  BY <1>2, <1>3 DEF Ids
<1>5. ASSUME e.id \notin Ids(b),
             \A i, j \in DOMAIN b.rsp : b.rsp[i].id = b.rsp[j].id => i = j
      PROVE  \A i, j \in DOMAIN c.rsp : c.rsp[i].id = c.rsp[j].id => i = j
  BY <1>3, <1>5 DEF Ids
<1> QED BY <1>2, <1>4, <1>5 DEF n

LEMMA AnswersDiffer ==
  ASSUME NEW b \in Blkif, NEW c, NEW e \in Response, c.rsp = Append(b.rsp, e), e.id \notin Ids(b),
         \A i, j \in DOMAIN b.rsp : b.rsp[i].id = b.rsp[j].id => i = j
  PROVE  \A i, j \in DOMAIN c.rsp : c.rsp[i].id = c.rsp[j].id => i = j
BY OneMoreAnswer

\* A request that is no barrier leaves the ring.
LEMMA RetirePlain ==
  ASSUME NEW b \in Blkif, NEW A, NEW fl, NEW k, Ring(b, A, fl, k), b.state \in {"up", "dead"},
         NEW q \in A, q \notin BarrierOp, NEW err \in BOOLEAN, NEW final \in BOOLEAN
  PROVE  Ring(retire(b, q, err, final), A \ {q}, fl, ~final)
<1> DEFINE c == retire(b, q, err, final)
           e == [id |-> q, status |-> Status(err)]
           D == A \ {q}
<1>1. q \in Reqs /\ q \notin Flushes /\ q # None /\ b.free \in Int /\ RingSize \in Nat
      /\ b.req_cons \in Nat
  BY XenBlkifAssumption DEF Ring, Descriptors, Blkif
<1>2. /\ c \in Blkif /\ c.state = b.state /\ c.ring = b.ring /\ c.req_cons = b.req_cons
      /\ c.queued = b.queued /\ c.io_done = b.io_done /\ c.free = b.free + 1 /\ c.msg = b.msg
      /\ b.state = "dead" => c.rsp = b.rsp /\ c.rsp_prod = b.rsp_prod
      /\ b.state # "dead" => /\ c.rsp = Append(b.rsp, e)
                             /\ c.rsp_prod = (IF final THEN Len(c.rsp) ELSE b.rsp_prod)
  BY <1>1, RetireFields
<1>3. e \in Response /\ e.id = q
  BY <1>1 DEF Response, Statuses, Status
<1> HIDE DEF c, e
<1>4. Fence(c) = Fence(b) /\ Taken(c) = Taken(b) /\ q \notin Fence(b)
  BY <1>1, <1>2 DEF Fence, Taken, Ring, OneBarrier
<1>5. D \cup Fence(c) = (A \cup Fence(b)) \ {q}
  BY <1>4
<1>6. Descriptors(c, D)
  <2>1. IsFiniteSet(A \cup Fence(b)) /\ Cardinality(A \cup Fence(b)) \in Nat
    BY InUse DEF Ring
  <2>2. Cardinality(D \cup Fence(c)) = Cardinality(A \cup Fence(b)) - 1
    BY <1>5, <2>1, FS_RemoveElement
  <2>3. IsFiniteSet(D)
    BY FS_RemoveElement DEF Ring, Descriptors
  <2>4. b.free >= 0 /\ b.free + Cardinality(A \cup Fence(b)) = RingSize
    BY DEF Ring, Descriptors
  <2>5. c.free >= 0 /\ c.free + Cardinality(D \cup Fence(c)) = RingSize
    BY <1>1, <1>2, <2>1, <2>2, <2>4
  <2> QED BY <1>4, <2>3, <2>5 DEF Ring, Descriptors
<1>7. Indices(c)
  <2>1. CASE b.state = "dead"
    BY <1>2, <2>1 DEF Ring, Indices
  <2>2. CASE b.state # "dead"
    <3>1. Len(c.rsp) = Len(b.rsp) + 1 /\ Len(b.rsp) \in Nat /\ b.rsp_prod \in Nat
      BY <1>2, <1>3, <2>2, OneMoreAnswer DEF Blkif
    <3> QED BY <1>2, <2>2, <3>1 DEF Ring, Indices
  <2> QED BY <2>1, <2>2
<1>8. OneBarrier(c, D, fl)
  <2>1. q # b.msg
    BY <1>1 DEF Ring, OneBarrier
  <2> QED BY <1>2, <1>4, <2>1 DEF Ring, OneBarrier
<1>9. Told(c, D, ~final)
  <2>1. SUFFICES ASSUME b.state = "up" PROVE Told(c, D, ~final)
    BY <1>2 DEF Told
  <2>2. /\ b.req_cons - Len(b.rsp) = RingSize - b.free
        /\ \A i, j \in DOMAIN b.rsp : b.rsp[i].id = b.rsp[j].id => i = j
        /\ Taken(b) = A \cup Fence(b) \cup Ids(b) /\ Ids(b) \cap (A \cup Fence(b)) = {}
        /\ \A i \in 1 .. b.req_cons : b.ring[i] \in BarrierOp \cap Ids(b) =>
              \A j \in 1 .. i : b.ring[j] \in Ids(b)
    BY <2>1 DEF Ring, Told
  <2>3. /\ Ids(c) = Ids(b) \cup {q} /\ Len(c.rsp) = Len(b.rsp) + 1 /\ Len(b.rsp) \in Nat
        /\ \A i, j \in DOMAIN c.rsp : c.rsp[i].id = c.rsp[j].id => i = j
    <3>1. c.rsp = Append(b.rsp, e)
      BY <1>2, <2>1
    <3>2. q \notin Ids(b) /\ e.id = q
      BY <1>3, <1>4, <2>2
    <3>3. Ids(c) = Ids(b) \cup {q} /\ Len(c.rsp) = Len(b.rsp) + 1 /\ Len(b.rsp) \in Nat
      BY <1>3, <3>1, OneMoreAnswer
    <3>4. \A i, j \in DOMAIN b.rsp : b.rsp[i].id = b.rsp[j].id => i = j
      BY <2>2
    <3>5. \A i, j \in DOMAIN c.rsp : c.rsp[i].id = c.rsp[j].id => i = j
      <4>1. e \in Response /\ e.id \notin Ids(b)
        BY <1>3, <3>2
      <4> QED BY <3>1, <3>4, <4>1, AnswersDiffer
    <3> QED BY <3>3, <3>5
  <2>4. c.req_cons - Len(c.rsp) = RingSize - c.free
    <3>1. /\ b.req_cons - Len(b.rsp) = RingSize - b.free /\ c.free = b.free + 1
          /\ c.req_cons = b.req_cons /\ Len(c.rsp) = Len(b.rsp) + 1 /\ Len(b.rsp) \in Nat
      BY <1>2, <2>2, <2>3
    <3> QED BY <1>1, <3>1
  <2>5. Taken(c) = D \cup Fence(c) \cup Ids(c) /\ Ids(c) \cap (D \cup Fence(c)) = {}
    BY <1>4, <2>2, <2>3
  <2>6. \A i \in 1 .. c.req_cons : c.ring[i] \in BarrierOp \cap Ids(c) =>
           \A j \in 1 .. i : c.ring[j] \in Ids(c)
    BY <1>2, <2>2, <2>3
  <2>7. final => c.rsp_prod = Len(c.rsp)
    BY <1>2, <2>1
  <2> QED BY <2>3, <2>4, <2>5, <2>6, <2>7 DEF Told
<1> QED BY <1>6, <1>7, <1>8, <1>9 DEF Ring, c

\* The barrier leaves the ring, when it is all that is left.
LEMMA RetireBarrier ==
  ASSUME NEW b \in Blkif, NEW fl, NEW k, Ring(b, {}, fl, k), b.state \in {"up", "dead"},
         b.msg # None, NEW err \in BOOLEAN, NEW final \in BOOLEAN
  PROVE  /\ Ring(retire(b, b.msg, err, final), {}, fl, ~final)
         /\ retire(b, b.msg, err, final).msg = None
<1> DEFINE q == b.msg
           c == retire(b, q, err, final)
           e == [id |-> q, status |-> Status(err)]
<1>1. q \in Reqs /\ q \in BarrierOp /\ q # None /\ b.free \in Int /\ RingSize \in Nat
      /\ b.req_cons \in Nat
  BY XenBlkifAssumption DEF Ring, OneBarrier, Blkif
<1> HIDE DEF q
<1>2. /\ c \in Blkif /\ c.state = b.state /\ c.ring = b.ring /\ c.req_cons = b.req_cons
      /\ c.queued = b.queued /\ c.io_done = b.io_done /\ c.free = b.free + 1 /\ c.msg = None
      /\ b.state = "dead" => c.rsp = b.rsp /\ c.rsp_prod = b.rsp_prod
      /\ b.state # "dead" => /\ c.rsp = Append(b.rsp, e)
                             /\ c.rsp_prod = (IF final THEN Len(c.rsp) ELSE b.rsp_prod)
  BY <1>1, RetireFields
<1>3. e \in Response /\ e.id = q
  BY <1>1 DEF Response, Statuses, Status
<1> HIDE DEF c, e
<1>4. Fence(c) = {} /\ Taken(c) = Taken(b) /\ Fence(b) = {q}
  BY <1>1, <1>2 DEF Fence, Taken, q
<1>6. Descriptors(c, {})
  <2>1. Cardinality({} \cup Fence(b)) = 1 /\ Cardinality({} \cup Fence(c)) = 0
    <3>1. {} \cup Fence(b) = {q} /\ {} \cup Fence(c) = {}
      BY <1>4
    <3> QED BY <3>1, FS_Singleton, FS_EmptySet
  <2>2. b.free >= 0 /\ b.free + Cardinality({} \cup Fence(b)) = RingSize
    BY DEF Ring, Descriptors
  <2>3. c.free >= 0 /\ c.free + Cardinality({} \cup Fence(c)) = RingSize
    BY <1>1, <1>2, <2>1, <2>2
  <2> QED BY <1>4, <2>3, FS_EmptySet DEF Descriptors
<1>7. Indices(c)
  <2>1. CASE b.state = "dead"
    BY <1>2, <2>1 DEF Ring, Indices
  <2>2. CASE b.state # "dead"
    <3>1. Len(c.rsp) = Len(b.rsp) + 1 /\ Len(b.rsp) \in Nat /\ b.rsp_prod \in Nat
      BY <1>2, <1>3, <2>2, OneMoreAnswer DEF Blkif
    <3> QED BY <1>2, <2>2, <3>1 DEF Ring, Indices
  <2> QED BY <2>1, <2>2
<1>8. OneBarrier(c, {}, fl)
  <2>1. None \notin Barriers
    BY XenBlkifAssumption
  <2> QED BY <1>2, <1>4, <2>1 DEF Ring, OneBarrier
<1>9. Told(c, {}, ~final)
  <2>1. SUFFICES ASSUME b.state = "up" PROVE Told(c, {}, ~final)
    BY <1>2 DEF Told
  <2>2. /\ b.req_cons - Len(b.rsp) = RingSize - b.free
        /\ \A i, j \in DOMAIN b.rsp : b.rsp[i].id = b.rsp[j].id => i = j
        /\ Taken(b) = Fence(b) \cup Ids(b) /\ Ids(b) \cap Fence(b) = {}
    BY <2>1 DEF Ring, Told
  <2>3. /\ Ids(c) = Ids(b) \cup {q} /\ Len(c.rsp) = Len(b.rsp) + 1 /\ Len(b.rsp) \in Nat
        /\ \A i, j \in DOMAIN c.rsp : c.rsp[i].id = c.rsp[j].id => i = j
    <3>1. c.rsp = Append(b.rsp, e)
      BY <1>2, <2>1
    <3>2. q \notin Ids(b) /\ e.id = q
      BY <1>3, <1>4, <2>2
    <3>3. Ids(c) = Ids(b) \cup {q} /\ Len(c.rsp) = Len(b.rsp) + 1 /\ Len(b.rsp) \in Nat
      BY <1>3, <3>1, OneMoreAnswer
    <3>4. \A i, j \in DOMAIN b.rsp : b.rsp[i].id = b.rsp[j].id => i = j
      BY <2>2
    <3>5. \A i, j \in DOMAIN c.rsp : c.rsp[i].id = c.rsp[j].id => i = j
      <4>1. e \in Response /\ e.id \notin Ids(b)
        BY <1>3, <3>2
      <4> QED BY <3>1, <3>4, <4>1, AnswersDiffer
    <3> QED BY <3>3, <3>5
  <2>4. c.req_cons - Len(c.rsp) = RingSize - c.free
    <3>1. /\ b.req_cons - Len(b.rsp) = RingSize - b.free /\ c.free = b.free + 1
          /\ c.req_cons = b.req_cons /\ Len(c.rsp) = Len(b.rsp) + 1 /\ Len(b.rsp) \in Nat
      BY <1>2, <2>2, <2>3
    <3> QED BY <1>1, <3>1
  <2>5. Taken(c) = {} \cup Fence(c) \cup Ids(c) /\ Ids(c) \cap ({} \cup Fence(c)) = {}
    BY <1>4, <2>2, <2>3
  <2>6. \A i \in 1 .. c.req_cons : c.ring[i] \in Ids(c)
    BY <1>4, <2>5 DEF Taken
  <2>7. final => c.rsp_prod = Len(c.rsp)
    BY <1>2, <2>1
  <2>8. \A i \in 1 .. c.req_cons : \A j \in 1 .. i : j \in 1 .. c.req_cons
    BY <1>1, <1>2
  <2> QED BY <2>3, <2>4, <2>5, <2>6, <2>7, <2>8 DEF Told
<1> QED BY <1>2, <1>6, <1>7, <1>8, <1>9 DEF Ring, c, q

\* What becomes of a ring b when one of the active requests A is done: it is as
\* it was, with the others active, or it is dead and goes with the last of them.
Next1(b, A, fl, final, c) ==
    \/ b.state = "dead" /\ A = {} /\ c = destroy(b)
    \/ /\ b.state = "up" \/ A # {}
       /\ c \in Blkif /\ Ring(c, A, fl, ~final) /\ Company(c, A, fl)
       /\ c.state = b.state /\ c.ring = b.ring /\ c.req_cons = b.req_cons /\ c.queued = b.queued

\* destroy, when nothing is pending.
LEMMA Reaped ==
  ASSUME NEW b \in Blkif, NEW c \in Blkif, NEW A, NEW fl, NEW final \in BOOLEAN,
         b.state \in {"up", "dead"}, Ring(c, A, fl, ~final), Company(c, A, fl),
         A = {} => c.msg = None,
         c.state = b.state, c.ring = b.ring, c.req_cons = b.req_cons, c.queued = b.queued
  PROVE  Next1(b, A, fl, final, reap(c))
<1>1. Descriptors(c, A)
  BY DEF Ring
<1>2. reqs_pending(c) = 0 <=> A \cup Fence(c) = {}
  BY <1>1, InUse
<1>3. CASE A = {}
  <2>1. Fence(c) = {}
    BY <1>3 DEF Fence
  <2>2. reqs_pending(c) = 0
    BY <1>2, <1>3, <2>1
  <2>3. CASE b.state = "dead"
    <3>1. reap(c) = destroy(b)
      BY <2>2, <2>3 DEF reap, destroy
    <3> QED BY <1>3, <2>3, <3>1 DEF Next1
  <2>4. CASE b.state = "up"
    <3>1. reap(c) = c
      BY <2>4 DEF reap
    <3> QED BY <2>4, <3>1 DEF Next1
  <2> QED BY <2>3, <2>4
<1>4. CASE A # {}
  <2>1. reap(c) = c
    BY <1>2, <1>4 DEF reap
  <2> QED BY <1>4, <2>1 DEF Next1
<1> QED BY <1>3, <1>4

\* A barrier completes when its I/O is done and it is all that is left.
LEMMA ShouldComplete ==
  ASSUME NEW b \in Blkif, NEW A, NEW fl, NEW k, Ring(b, A, fl, k), b.msg # None
  PROVE  /\ barrier_should_complete(b) => A = {}
         /\ ~barrier_should_complete(b) /\ b.msg \notin A => A # {}
<1> DEFINE S == A \cup Fence(b)
<1>1. IsFiniteSet(S) /\ reqs_pending(b) = Cardinality(S)
  BY InUse DEF Ring
<1>2. b.msg \in S
  BY DEF Fence
<1>3. b.msg \in Barriers \/ b.msg \in Flushes
  BY DEF Ring, OneBarrier, BarrierOp
<1>4. ASSUME barrier_should_complete(b)
      PROVE  A = {}
  <2>1. Cardinality(S) = 1 /\ (b.msg \in Flushes \/ b.io_done)
    BY <1>1, <1>4 DEF barrier_should_complete
  <2>2. PICK x : S = {x}
    BY <1>1, <2>1, FS_Singleton
  <2>3. A \subseteq {b.msg}
    BY <1>2, <2>2
  <2>4. b.msg \notin A
    BY <1>3, <2>1 DEF Ring, OneBarrier, Descriptors
  <2> QED BY <2>3, <2>4
<1>5. ASSUME ~barrier_should_complete(b), b.msg \notin A, A = {}
      PROVE  FALSE
  <2>1. b.msg \in Flushes \/ b.io_done
    BY <1>3, <1>5 DEF Ring, OneBarrier
  <2>2. S = {b.msg}
    BY <1>5 DEF Fence
  <2>3. reqs_pending(b) = 1
    BY <1>1, <2>2, FS_Singleton
  <2> QED BY <1>5, <2>1, <2>3 DEF barrier_should_complete
<1> QED BY <1>4, <1>5

\* A ring that has just let a request go releases the barrier that waited for it.
LEMMA ReleaseRing ==
  ASSUME NEW b \in Blkif, NEW c \in Blkif, NEW A, NEW fl, NEW final \in BOOLEAN,
         b.state \in {"up", "dead"}, Ring(c, A, fl, ~final),
         c.state = b.state, c.ring = b.ring, c.req_cons = b.req_cons, c.queued = b.queued
  PROVE  Next1(b, A, fl, final, release(c))
<1>1. CASE c.msg = None
  <2> DEFINE d == sched_chkrng(c)
  <2>1. d \in Blkif /\ Core(c, d)
    BY SchedFields
  <2>2. Ring(d, A, fl, ~final)
    BY <2>1, CoreRing
  <2>3. /\ d.msg = None /\ d.state = b.state /\ d.ring = b.ring /\ d.req_cons = b.req_cons
        /\ d.queued = b.queued
    BY <1>1, <2>1 DEF Core
  <2>4. Company(d, A, fl)
    BY <2>3 DEF Company
  <2>5. release(c) = reap(d)
    BY <1>1 DEF release
  <2> HIDE DEF d
  <2> QED BY <2>1, <2>2, <2>3, <2>4, <2>5, Reaped
<1>2. CASE c.msg # None /\ barrier_should_complete(c)
  <2> DEFINE x == retire(c, c.msg, FALSE, TRUE)
             d == sched_chkrng(x)
  <2>1. A = {}
    BY <1>2, ShouldComplete
  <2>2. Ring(c, {}, fl, ~final) /\ c.state \in {"up", "dead"}
    BY <2>1
  <2>3. Ring(x, {}, fl, ~TRUE) /\ x.msg = None
    BY <1>2, <2>2, RetireBarrier
  <2>4. c.msg \in Reqs
    BY <1>2 DEF Blkif
  <2>5. /\ x \in Blkif /\ x.state = c.state /\ x.ring = c.ring /\ x.req_cons = c.req_cons
        /\ x.queued = c.queued
    BY <2>4, RetireFields
  <2> HIDE DEF x
  <2>6. d \in Blkif /\ Core(x, d)
    BY <2>5, SchedFields
  <2>7. Ring(d, {}, fl, ~TRUE)
    BY <2>3, <2>6, CoreRing
  <2>8. Ring(d, {}, fl, ~final)
    BY <2>7 DEF Ring, Told
  <2>9. /\ d.msg = None /\ d.state = b.state /\ d.ring = b.ring /\ d.req_cons = b.req_cons
        /\ d.queued = b.queued
    BY <2>3, <2>5, <2>6 DEF Core
  <2>10. Company(d, {}, fl)
    BY <2>9 DEF Company
  <2>11. release(c) = reap(d)
    BY <1>2 DEF release, x
  <2> HIDE DEF d
  <2> QED BY <2>1, <2>6, <2>8, <2>9, <2>10, <2>11, Reaped
<1>3. CASE c.msg # None /\ ~barrier_should_complete(c)
  <2>1. c.msg \notin A => A # {}
    BY <1>3, ShouldComplete
  <2>2. A # {} /\ Company(c, A, fl)
    BY <2>1 DEF Company
  <2>3. release(c) = reap(c)
    BY <1>3 DEF release
  <2> QED BY <2>2, <2>3, Reaped
<1> QED BY <1>1, <1>2, <1>3

\* tapdisk_xenblkif_complete_request, of a request whose I/O has just ended.
LEMMA CompleteRing ==
  ASSUME NEW b \in Blkif, NEW A, NEW fl, NEW k, Ring(b, A, fl, k), b.state \in {"up", "dead"},
         NEW q \in A, NEW err \in BOOLEAN, NEW final \in BOOLEAN
  PROVE  Next1(b, A \ {q}, fl, final, complete_request(b, q, err, final))
<1> DEFINE D == A \ {q}
           x == [b EXCEPT !.io_done = TRUE]
<1>1. q \in Reqs /\ q \notin Flushes
  BY DEF Ring, Descriptors
<1>2. CASE q \notin BarrierOp
  <2> DEFINE c == retire(b, q, err, final)
  <2>1. Ring(c, D, fl, ~final)
    BY <1>2, RetirePlain
  <2>2. /\ c \in Blkif /\ c.state = b.state /\ c.ring = b.ring /\ c.req_cons = b.req_cons
        /\ c.queued = b.queued
    BY <1>1, RetireSame
  <2>3. complete_request(b, q, err, final) = release(c)
    BY <1>2 DEF complete_request, BarrierOp
  <2> HIDE DEF c
  <2> QED BY <2>1, <2>2, <2>3, ReleaseRing
<1>3. CASE q \in BarrierOp
  <2>1. q \in Barriers /\ q = b.msg /\ b.msg # None
    BY <1>1, <1>3, XenBlkifAssumption DEF BarrierOp, Ring, OneBarrier
  <2>2. /\ x \in Blkif /\ x.state = b.state /\ x.ring = b.ring /\ x.req_cons = b.req_cons
        /\ x.queued = b.queued /\ x.msg = b.msg /\ x.rsp = b.rsp /\ x.rsp_prod = b.rsp_prod
        /\ x.free = b.free /\ x.io_done = TRUE
    BY DEF Blkif
  <2>3. complete_request(b, q, err, final) =
           IF ~barrier_should_complete(x) THEN x ELSE release(retire(x, q, err, final))
    BY <1>3, <2>1 DEF complete_request
  <2> HIDE DEF x
  <2>4. Fence(x) = Fence(b) /\ Taken(x) = Taken(b) /\ Ids(x) = Ids(b)
    BY <2>2 DEF Fence, Taken, Ids
  <2>5. D \cup Fence(x) = A \cup Fence(b)
    BY <2>1, <2>4 DEF Fence
  <2>6. Ring(x, D, fl, k) /\ Ring(x, D, fl, ~final)
    <3>1. Indices(x)
      BY <2>2 DEF Ring, Indices
    <3>2. Descriptors(x, D)
      <4>1. IsFiniteSet(D)
        BY FS_RemoveElement DEF Ring, Descriptors
      <4> QED BY <2>2, <2>4, <2>5, <4>1 DEF Ring, Descriptors
    <3>3. OneBarrier(x, D, fl)
      BY <2>1, <2>2, <2>4 DEF Ring, OneBarrier
    <3>4. Told(x, D, k) /\ Told(x, D, ~final)
      <4>1. Told(b, A, k)
        BY DEF Ring
      <4> QED BY <2>1, <2>2, <2>4, <2>5, <4>1 DEF Told
    <3> QED BY <3>1, <3>2, <3>3, <3>4 DEF Ring
  <2>7. CASE ~barrier_should_complete(x)
    <3>1. D # {}
      BY <2>1, <2>2, <2>6, <2>7, ShouldComplete
    <3>2. Company(x, D, fl)
      BY <3>1 DEF Company
    <3> QED BY <2>2, <2>3, <2>6, <2>7, <3>1, <3>2 DEF Next1
  <2>8. CASE barrier_should_complete(x)
    <3> DEFINE c == retire(x, x.msg, err, final)
    <3>1. D = {}
      BY <2>1, <2>2, <2>6, <2>8, ShouldComplete
    <3>2. Ring(x, {}, fl, k)
      BY <2>6, <3>1
    <3>3. Ring(c, {}, fl, ~final)
      BY <2>1, <2>2, <3>2, RetireBarrier
    <3>4. /\ c \in Blkif /\ c.state = b.state /\ c.ring = b.ring /\ c.req_cons = b.req_cons
          /\ c.queued = b.queued
      <4>1. x.msg \in Reqs /\ x \in Blkif
        BY <1>1, <2>1, <2>2
      <4> QED BY <2>2, <4>1, RetireSame
    <3>5. complete_request(b, q, err, final) = release(c)
      BY <2>1, <2>2, <2>3, <2>8
    <3> HIDE DEF c
    <3>6. Next1(b, {}, fl, final, release(c))
      BY <3>3, <3>4, ReleaseRing
    <3> QED BY <3>1, <3>5, <3>6
  <2> QED BY <2>7, <2>8
<1> QED BY <1>2, <1>3

\* The empty barrier completes when nothing else is left.
LEMMA CompleteFlush ==
  ASSUME NEW b \in Blkif, NEW A, NEW fl, NEW k, Ring(b, A, fl, k), b.state \in {"up", "dead"},
         barrier_should_complete(b), b.msg \in Flushes
  PROVE  A = {} /\ Next1(b, A, fl, TRUE, complete_request(b, b.msg, FALSE, TRUE))
<1> DEFINE c == retire(b, b.msg, FALSE, TRUE)
<1>1. b.msg # None /\ b.msg \notin Barriers /\ b.msg \in BarrierOp /\ b.msg \in Reqs
  BY XenBlkifAssumption DEF BarrierOp
<1>2. A = {}
  BY <1>1, ShouldComplete
<1>3. Ring(b, {}, fl, k)
  BY <1>2
<1>4. Ring(c, {}, fl, ~TRUE)
  BY <1>1, <1>3, RetireBarrier
<1>5. /\ c \in Blkif /\ c.state = b.state /\ c.ring = b.ring /\ c.req_cons = b.req_cons
      /\ c.queued = b.queued
  BY <1>1, RetireFields
<1>6. complete_request(b, b.msg, FALSE, TRUE) = release(c)
  BY <1>1 DEF complete_request
<1> HIDE DEF c
<1>7. Next1(b, {}, fl, TRUE, release(c))
  BY <1>4, <1>5, ReleaseRing
<1> QED BY <1>2, <1>6, <1>7

LEMMA HeadTail ==
  ASSUME NEW got \in Seq(Reqs), got # << >>,
         \A i, j \in DOMAIN got : got[i] = got[j] => i = j
  PROVE  /\ Head(got) \in Reqs /\ Tail(got) \in Seq(Reqs)
         /\ Elems(got) = {Head(got)} \cup Elems(Tail(got)) /\ Head(got) \notin Elems(Tail(got))
         /\ \A i, j \in DOMAIN Tail(got) : Tail(got)[i] = Tail(got)[j] => i = j
<1> DEFINE s == Tail(got)
           n == Len(got)
<1>1. /\ s \in Seq(Reqs) /\ n \in Nat \ {0} /\ DOMAIN got = 1 .. n /\ DOMAIN s = 1 .. n - 1
      /\ Head(got) = got[1] /\ Head(got) \in Reqs /\ \A i \in 1 .. n - 1 : s[i] = got[i + 1]
  OBVIOUS
<1> HIDE DEF s, n
<1>2. \A i \in DOMAIN s : i + 1 \in DOMAIN got /\ i + 1 # 1 /\ s[i] = got[i + 1] /\ i \in Nat
  BY <1>1
<1>3. 1 \in DOMAIN got /\ \A i \in DOMAIN got : i = 1 \/ (i - 1 \in DOMAIN s /\ got[i] = s[i - 1])
  BY <1>1
<1>4. Elems(got) = {got[1]} \cup Elems(s)
  BY <1>2, <1>3 DEF Elems
<1>5. got[1] \notin Elems(s)
  BY <1>2, <1>3 DEF Elems
<1>6. ASSUME NEW i \in DOMAIN s, NEW j \in DOMAIN s, s[i] = s[j]
      PROVE  i = j
  <2>1. i + 1 = j + 1
    BY <1>2, <1>6
  <2> QED BY <1>2, <2>1
<1> QED BY <1>1, <1>4, <1>5, <1>6 DEF s

\* One request of the batch is handed to the VBD, or fails.
LEMMA QueueOK ==
  ASSUME NEW b \in Blkif, NEW got \in Seq(Reqs), got # << >>, NEW k, RingOK(b, got, k),
         NEW err \in BOOLEAN, err => Head(got) \in Faulty
  PROVE  LET c == queue_request(b, Head(got), err)
         IN  /\ c \in Blkif /\ c.state = b.state /\ c.ring = b.ring /\ RingOK(c, Tail(got), k)
<1> DEFINE q == Head(got)
           s == Tail(got)
           A == Active(b, got)
           fl == Elems(got) \cap Flushes
           c == queue_request(b, q, err)
<1>1. /\ b.state \in {"up", "dead"} /\ Ring(b, A, fl, k) /\ Company(b, A, fl)
      /\ \A i, j \in DOMAIN got : got[i] = got[j] => i = j
      /\ b.queued \cap Elems(got) = {} /\ (b.state = "dead" => b.queued # {})
  BY DEF RingOK
<1>2. /\ q \in Reqs /\ s \in Seq(Reqs) /\ Elems(got) = {q} \cup Elems(s) /\ q \notin Elems(s)
      /\ \A i, j \in DOMAIN s : s[i] = s[j] => i = j
  BY <1>1, HeadTail
<1> HIDE DEF q, s
<1>3. ASSUME q \notin Flushes, Next1(b, A \ {q}, fl, TRUE, c)
      PROVE  c \in Blkif /\ c.state = b.state /\ c.ring = b.ring /\ RingOK(c, s, k)
  <2>1. b.state = "dead" => A \ {q} # {}
    BY <1>1, <1>2 DEF Active
  <2>2. /\ c \in Blkif /\ Ring(c, A \ {q}, fl, ~TRUE) /\ Company(c, A \ {q}, fl)
        /\ c.state = b.state /\ c.ring = b.ring /\ c.queued = b.queued
    BY <1>3, <2>1 DEF Next1
  <2>3. Active(c, s) = A \ {q} /\ Elems(s) \cap Flushes = fl
    BY <1>1, <1>2, <1>3, <2>2 DEF Active
  <2>4. Ring(c, A \ {q}, fl, k)
    BY <2>2 DEF Ring, Told
  <2> HIDE DEF c, A, fl
  <2>5. b.queued \cap Elems(s) = {}
    BY <1>1, <1>2
  <2> QED BY <1>1, <1>2, <2>2, <2>3, <2>4, <2>5 DEF RingOK
<1>4. CASE err
  <2>1. q \notin Flushes /\ q \in A
    BY <1>2, <1>4, XenBlkifAssumption DEF Active, q
  <2>2. c = complete_request(b, q, TRUE, TRUE)
    BY <1>4 DEF queue_request
  <2>3. Next1(b, A \ {q}, fl, TRUE, complete_request(b, q, TRUE, TRUE))
    BY <1>1, <2>1, CompleteRing
  <2> HIDE DEF c, A, fl
  <2>4. c \in Blkif /\ c.state = b.state /\ c.ring = b.ring /\ RingOK(c, s, k)
    BY <1>3, <2>1, <2>2, <2>3
  <2> QED BY <2>4 DEF c, s, q
<1>5. CASE ~err /\ q \notin Flushes
  <2>1. c = [b EXCEPT !.queued = @ \cup {q}]
    BY <1>5 DEF queue_request
  <2> HIDE DEF c
  <2>2. /\ c \in Blkif /\ c.state = b.state /\ c.ring = b.ring /\ c.queued = b.queued \cup {q}
        /\ c.req_cons = b.req_cons /\ c.rsp = b.rsp /\ c.rsp_prod = b.rsp_prod
        /\ c.free = b.free /\ c.msg = b.msg /\ c.io_done = b.io_done
    <3> DEFINE u == b.queued \cup {q}
    <3>1. u \in SUBSET Reqs
      BY <1>2 DEF Blkif
    <3>2. c = [b EXCEPT !.queued = u]
      BY <2>1
    <3> HIDE DEF u
    <3>3. /\ c \in Blkif /\ c.state = b.state /\ c.ring = b.ring /\ c.queued = u
          /\ c.req_cons = b.req_cons /\ c.rsp = b.rsp /\ c.rsp_prod = b.rsp_prod
          /\ c.free = b.free /\ c.msg = b.msg /\ c.io_done = b.io_done
      BY <3>1, <3>2 DEF Blkif
    <3> QED BY <3>3 DEF u
  <2>3. Active(c, s) = A /\ Elems(s) \cap Flushes = fl
    BY <1>2, <1>5, <2>2 DEF Active
  <2> HIDE DEF A, fl
  <2>4. Fence(c) = Fence(b) /\ Taken(c) = Taken(b) /\ Ids(c) = Ids(b)
    BY <2>2 DEF Fence, Taken, Ids
  <2>5. Ring(c, A, fl, k) /\ Company(c, A, fl)
    <3>1. Indices(c)
      BY <1>1, <2>2 DEF Ring, Indices
    <3>2. Descriptors(c, A)
      BY <1>1, <2>2, <2>4 DEF Ring, Descriptors
    <3>3. OneBarrier(c, A, fl)
      BY <1>1, <2>2, <2>4 DEF Ring, OneBarrier
    <3>4. Told(c, A, k)
      <4>1. Told(b, A, k)
        BY <1>1 DEF Ring
      <4> QED BY <2>2, <2>4, <4>1 DEF Told
    <3>5. Company(c, A, fl)
      BY <1>1, <2>2 DEF Company
    <3> QED BY <3>1, <3>2, <3>3, <3>4, <3>5 DEF Ring
  <2>6. c.queued \cap Elems(s) = {} /\ (c.state = "dead" => c.queued # {})
    BY <1>1, <1>2, <2>2
  <2>7. RingOK(c, s, k)
    BY <1>1, <1>2, <2>2, <2>3, <2>5, <2>6 DEF RingOK
  <2> QED BY <2>2, <2>7 DEF c, s, q
<1>6. CASE ~err /\ q \in Flushes
  <2> DEFINE g == Elems(s) \cap Flushes
  <2>1. Active(b, s) = A /\ fl = {q} \cup g
    BY <1>2, <1>6 DEF Active
  <2>2. b.msg \in {q, None}
    BY <1>1, <2>1 DEF Ring, OneBarrier
  <2>3. Ring(b, A, g, k)
    BY <1>1, <2>1 DEF Ring, OneBarrier
  <2>4. CASE barrier_should_complete(b)
    <3>1. b.msg = q
      BY <2>2, <2>4 DEF barrier_should_complete
    <3>2. A = {} /\ Next1(b, A, g, TRUE, complete_request(b, b.msg, FALSE, TRUE))
      BY <1>1, <1>6, <2>3, <2>4, <3>1, CompleteFlush
    <3>3. c = complete_request(b, b.msg, FALSE, TRUE)
      BY <1>6, <2>4 DEF queue_request
    <3>4. b.state # "dead"
      BY <1>1, <3>2 DEF Active
    <3>5. /\ c \in Blkif /\ Ring(c, A, g, ~TRUE) /\ Company(c, A, g)
          /\ c.state = b.state /\ c.ring = b.ring /\ c.queued = b.queued
      BY <3>2, <3>3, <3>4 DEF Next1
    <3>6. Ring(c, A, g, k)
      BY <3>5 DEF Ring, Told
    <3>7. Active(c, s) = A
      BY <2>1, <3>5 DEF Active
    <3> HIDE DEF c, A
    <3>8. c.queued \cap Elems(s) = {}
      BY <1>1, <1>2, <3>5
    <3>9. RingOK(c, s, k)
      BY <1>1, <1>2, <3>4, <3>5, <3>6, <3>7, <3>8 DEF RingOK
    <3> QED BY <3>5, <3>9 DEF c, s, q
  <2>5. CASE ~barrier_should_complete(b)
    <3>1. c = b
      BY <1>6, <2>5 DEF queue_request
    <3>2. b.msg # None => A # {}
      <4>1. ASSUME b.msg # None PROVE b.msg \notin A
        BY <1>6, <2>2, <2>3, <4>1 DEF Ring, Descriptors
      <4> QED BY <2>3, <2>5, <4>1, ShouldComplete
    <3>3. Company(b, A, g)
      BY <3>2 DEF Company
    <3> HIDE DEF c, A
    <3>4. b.queued \cap Elems(s) = {}
      BY <1>1, <1>2
    <3>5. RingOK(b, s, k)
      BY <1>1, <1>2, <2>1, <2>3, <3>3, <3>4 DEF RingOK
    <3> QED BY <3>1, <3>5 DEF c, s, q
  <2> QED BY <2>4, <2>5
<1> QED BY <1>4, <1>5, <1>6

\* The VBD calls back.
LEMMA CallbackOK ==
  ASSUME NEW b \in Blkif, NEW k, RingOK(b, << >>, k), NEW q \in b.queued,
         NEW err \in BOOLEAN, NEW final \in BOOLEAN
  PROVE  LET c == complete_request([b EXCEPT !.queued = @ \ {q}], q, err, final)
         IN  c \in Blkif /\ c.ring = b.ring /\ RingOK(c, << >>, ~final)
<1> DEFINE A == b.queued
           x == [b EXCEPT !.queued = @ \ {q}]
           c == complete_request(x, q, err, final)
<1>1. Elems(<< >>) = {}
  BY DEF Elems
<1>2. ~Off(b)
  BY DEF Off
<1>3. b.state \in {"up", "dead"} /\ Ring(b, A, {}, k)
  BY <1>1, <1>2 DEF RingOK, Active
<1>4. /\ x \in Blkif /\ x.state = b.state /\ x.ring = b.ring /\ x.queued = A \ {q}
      /\ x.req_cons = b.req_cons /\ x.rsp = b.rsp /\ x.rsp_prod = b.rsp_prod
      /\ x.free = b.free /\ x.msg = b.msg /\ x.io_done = b.io_done
  BY DEF Blkif
<1> HIDE DEF x, A
<1>5. Fence(x) = Fence(b) /\ Taken(x) = Taken(b) /\ Ids(x) = Ids(b)
  BY <1>4 DEF Fence, Taken, Ids
<1>6. Ring(x, A, {}, k)
  <2>1. Indices(x)
    BY <1>3, <1>4 DEF Ring, Indices
  <2>2. Descriptors(x, A)
    BY <1>3, <1>4, <1>5 DEF Ring, Descriptors
  <2>3. OneBarrier(x, A, {})
    BY <1>3, <1>4, <1>5 DEF Ring, OneBarrier
  <2>4. Told(x, A, k)
    <3>1. Told(b, A, k)
      BY <1>3 DEF Ring
    <3> QED BY <1>4, <1>5, <3>1 DEF Told
  <2> QED BY <2>1, <2>2, <2>3, <2>4 DEF Ring
<1>7. Next1(x, A \ {q}, {}, final, c)
  BY <1>3, <1>4, <1>6, CompleteRing DEF A
<1> HIDE DEF c
<1>8. CASE x.state = "dead" /\ A \ {q} = {} /\ c = destroy(x)
  BY <1>4, <1>8, NewBlkif DEF RingOK, c, x
<1>9. CASE /\ x.state = "up" \/ A \ {q} # {}
           /\ c \in Blkif /\ Ring(c, A \ {q}, {}, ~final) /\ Company(c, A \ {q}, {})
           /\ c.state = x.state /\ c.ring = x.ring /\ c.queued = x.queued
  <2>1. Active(c, << >>) = A \ {q}
    BY <1>1, <1>4, <1>9 DEF Active
  <2>2. c.queued = A \ {q} /\ c.state \in {"up", "dead"} /\ c.ring = b.ring
    BY <1>3, <1>4, <1>9
  <2>3. DOMAIN << >> = {}
    OBVIOUS
  <2>4. RingOK(c, << >>, ~final)
    BY <1>1, <1>4, <1>9, <2>1, <2>2, <2>3 DEF RingOK
  <2> QED BY <1>9, <2>2, <2>4 DEF c, x
<1> QED BY <1>7, <1>8, <1>9 DEF Next1
-----------------------------------------------------------------------------
(* Taking requests from the ring *)

LEMMA LeastNatural ==
  ASSUME NEW S \in SUBSET Nat, S # {}
  PROVE  \E n \in S : \A m \in S : n <= m
<1> DEFINE R == OpToRel(<, Nat)
<1>1. IsWellFoundedOn(R, Nat)
  BY NatLessThanWellFounded
<1> HIDE DEF R
<1>2. PICK x \in S : \A y \in S : ~(<<y, x>> \in R)
  BY <1>1, WFMin
<1>3. \A y \in S : ~(y < x)
  BY <1>2 DEF R, OpToRel
<1> QED BY <1>3

\* A batch is not empty, within the limit, in the ring, and ends at its barrier.
LEMMA BatchFacts ==
  ASSUME NEW b \in Blkif, proc.limit \in Nat \ {0}, b.req_cons < Len(b.ring)
  PROVE  /\ batch(b) \in 1 .. proc.limit /\ b.req_cons + batch(b) <= Len(b.ring)
         /\ \A i \in 1 .. batch(b) - 1 : b.ring[b.req_cons + i] \notin BarrierOp
<1> DEFINE m == proc.limit
           l == Len(b.ring)
           a == b.req_cons
           most == IF m < l - a THEN m ELSE l - a
           ends == {i \in 1 .. most : b.ring[a + i] \in BarrierOp}
           n == IF ends = {} THEN most ELSE CHOOSE i \in ends : \A j \in ends : i <= j
<1>1. m \in Nat \ {0} /\ l \in Nat /\ a \in Nat /\ a < l
  BY DEF Blkif
<1>2. batch(b) = n
  BY DEF batch
<1> HIDE DEF m, l, a
<1>3. most \in Nat \ {0} /\ most <= m /\ a + most <= l
  BY <1>1
<1> HIDE DEF most
<1>4. n \in 1 .. most /\ \A j \in ends : n <= j
  <2>1. CASE ends = {}
    BY <1>3, <2>1
  <2>2. CASE ends # {}
    <3>1. \E i \in ends : \A j \in ends : i <= j
      <4>1. ends \in SUBSET Nat
        OBVIOUS
      <4> HIDE DEF ends
      <4> QED BY <2>2, <4>1, LeastNatural
    <3>2. n \in ends /\ \A j \in ends : n <= j
      BY <2>2, <3>1
    <3> QED BY <3>2
  <2> QED BY <2>1, <2>2
<1>5. n \in 1 .. m /\ a + n <= l
  BY <1>1, <1>3, <1>4
<1>6. ASSUME NEW i \in 1 .. n - 1
      PROVE  b.ring[a + i] \notin BarrierOp
  <2>1. i \in 1 .. most /\ ~(n <= i)
    BY <1>3, <1>4
  <2> QED BY <1>4, <2>1
<1> HIDE DEF n
<1> QED BY <1>2, <1>5, <1>6 DEF m, l, a

\* The n requests of a ring from index a + 1.
Slice(b, a, n) == {b.ring[i] : i \in a + 1 .. a + n}

LEMMA SliceFacts ==
  ASSUME NEW b \in Blkif, NEW a \in Nat, NEW n \in Nat \ {0}, a + n <= Len(b.ring), Indices(b)
  PROVE  /\ IsFiniteSet(Slice(b, a, n)) /\ Cardinality(Slice(b, a, n)) = n
         /\ Slice(b, a, n) \subseteq Reqs
         /\ SubSeq(b.ring, a + 1, a + n) \in Seq(Reqs)
         /\ SubSeq(b.ring, a + 1, a + n) # << >>
         /\ Elems(SubSeq(b.ring, a + 1, a + n)) = Slice(b, a, n)
         /\ \A i, j \in DOMAIN SubSeq(b.ring, a + 1, a + n) :
               SubSeq(b.ring, a + 1, a + n)[i] = SubSeq(b.ring, a + 1, a + n)[j] => i = j
<1> DEFINE I == a + 1 .. a + n
           T == Slice(b, a, n)
           s == SubSeq(b.ring, a + 1, a + n)
           f == [i \in I |-> b.ring[i]]
<1>1. b.ring \in Seq(Reqs) /\ DOMAIN b.ring = 1 .. Len(b.ring) /\ Len(b.ring) \in Nat
  BY DEF Blkif
<1>2. I \subseteq DOMAIN b.ring
  BY <1>1
<1>3. \A i, j \in I : b.ring[i] = b.ring[j] => i = j
  BY <1>2 DEF Indices
<1>4. \A i \in I : b.ring[i] \in Reqs
  BY <1>1, <1>2
<1>5. s \in Seq(Reqs) /\ DOMAIN s = 1 .. n /\ Len(s) = n /\ \A i \in 1 .. n : s[i] = b.ring[a + i]
  BY <1>1
<1>6. IsFiniteSet(I) /\ Cardinality(I) = n
  <2>1. a + 1 \in Int /\ a + n \in Int
    OBVIOUS
  <2>2. IsFiniteSet(I) /\ Cardinality(I) = IF a + 1 > a + n THEN 0 ELSE (a + n) - (a + 1) + 1
    BY <2>1, FS_Interval
  <2> QED BY <2>2
<1>7. T = {b.ring[i] : i \in I}
  BY DEF Slice
<1> HIDE DEF I, T, s
<1>8. f \in Bijection(I, T)
  BY <1>3, <1>7 DEF Bijection, Injection, Surjection, IsInjective
<1> HIDE DEF f
<1>9. IsFiniteSet(T) /\ Cardinality(T) = n
  BY <1>6, <1>8, FS_Bijection DEF ExistsBijection
<1>10. \A i \in 1 .. n : a + i \in I
  BY DEF I
<1>11. \A i \in I : i - a \in 1 .. n /\ a + (i - a) = i
  BY DEF I
<1>12. Elems(s) = T
  <2>1. Elems(s) \subseteq T
    BY <1>5, <1>7, <1>10 DEF Elems
  <2>2. ASSUME NEW i \in I
        PROVE  b.ring[i] \in Elems(s)
    <3>1. PICK j \in 1 .. n : a + j = i
      BY <1>11
    <3>2. j \in DOMAIN s /\ s[j] = b.ring[i]
      BY <1>5, <3>1
    <3> QED BY <3>2 DEF Elems
  <2> QED BY <1>7, <2>1, <2>2
<1>13. ASSUME NEW i \in DOMAIN s, NEW j \in DOMAIN s, s[i] = s[j]
       PROVE  i = j
  <2>1. a + i = a + j
    BY <1>3, <1>5, <1>10, <1>13, ZenonT(40)
  <2> QED BY <1>5, <2>1
<1>14. T \subseteq Reqs /\ s # << >>
  <2>1. T \subseteq Reqs
    BY <1>4, <1>7
  <2>2. s # << >>
    BY <1>5
  <2> QED BY <2>1, <2>2
<1> QED BY <1>5, <1>9, <1>12, <1>13, <1>14 DEF s, T

LEMMA Joined ==
  ASSUME NEW x \in Seq(Reqs), NEW y \in Seq(Reqs), y # << >>, Elems(x) \cap Elems(y) = {},
         \A i, j \in DOMAIN x : x[i] = x[j] => i = j,
         \A i, j \in DOMAIN y : y[i] = y[j] => i = j
  PROVE  /\ x \o y \in Seq(Reqs) /\ x \o y # << >> /\ Elems(x \o y) = Elems(x) \cup Elems(y)
         /\ \A i, j \in DOMAIN (x \o y) : (x \o y)[i] = (x \o y)[j] => i = j
<1> DEFINE z == x \o y
           m == Len(x)
           n == Len(y)
<1>1. /\ m \in Nat /\ n \in Nat \ {0} /\ DOMAIN x = 1 .. m /\ DOMAIN y = 1 .. n
      /\ z \in Seq(Reqs) /\ Len(z) = m + n /\ DOMAIN z = 1 .. m + n
      /\ \A i \in 1 .. m + n : z[i] = IF i <= m THEN x[i] ELSE y[i - m]
  OBVIOUS
<1> HIDE DEF z, m, n
<1>2. ASSUME NEW i \in DOMAIN z
      PROVE  \/ i \in DOMAIN x /\ z[i] = x[i] /\ i <= m
             \/ i - m \in DOMAIN y /\ z[i] = y[i - m] /\ ~(i <= m)
  BY <1>1
<1>3. \A i \in DOMAIN x : i \in DOMAIN z /\ z[i] = x[i]
  BY <1>1
<1>4. \A i \in DOMAIN y : i + m \in DOMAIN z /\ z[i + m] = y[i]
  BY <1>1
<1>5. Elems(z) = Elems(x) \cup Elems(y)
  BY <1>2, <1>3, <1>4 DEF Elems
<1>6. ASSUME NEW i \in DOMAIN z, NEW j \in DOMAIN z, z[i] = z[j]
      PROVE  i = j
  <2>1. CASE i <= m /\ j <= m
    BY <1>2, <1>6, <2>1
  <2>2. CASE ~(i <= m) /\ ~(j <= m)
    <3>1. i - m = j - m
      BY <1>2, <1>6, <2>2
    <3> QED BY <1>1, <3>1
  <2>3. CASE i <= m /\ ~(j <= m)
    BY <1>2, <1>6, <2>3 DEF Elems
  <2>4. CASE ~(i <= m) /\ j <= m
    BY <1>2, <1>6, <2>4 DEF Elems
  <2> QED BY <2>1, <2>2, <2>3, <2>4
<1>7. z # << >>
  BY <1>1
<1> QED BY <1>1, <1>5, <1>6, <1>7 DEF z

\* n requests are taken from the ring, of which only the last may be a barrier.
LEMMA TakeOK ==
  ASSUME NEW b \in Blkif, NEW got \in Seq(Reqs), NEW k, RingOK(b, got, k),
         b.state \in {"up", "dead"}, b.msg = None, Elems(got) \cap BarrierOp = {},
         NEW n \in 1 .. b.free, b.req_cons + n <= Len(b.ring),
         \A i \in 1 .. n - 1 : b.ring[b.req_cons + i] \notin BarrierOp,
         NEW d \in Blkif,
         d.state = b.state, d.ring = b.ring, d.rsp = b.rsp, d.rsp_prod = b.rsp_prod,
         d.queued = b.queued, d.req_cons = b.req_cons + n, d.free = b.free - n,
         d.msg = IF b.ring[d.req_cons] \in BarrierOp THEN b.ring[d.req_cons] ELSE None,
         b.ring[d.req_cons] \in BarrierOp => ~d.io_done
  PROVE  LET g == got \o SubSeq(b.ring, b.req_cons + 1, b.req_cons + n)
         IN  /\ g \in Seq(Reqs) /\ g # << >> /\ RingOK(d, g, k)
             /\ b.ring[d.req_cons] \notin BarrierOp => Elems(g) \cap BarrierOp = {}
<1> DEFINE a == b.req_cons
           T == Slice(b, a, n)
           s == SubSeq(b.ring, a + 1, a + n)
           g == got \o s
           A == Active(b, got)
           D == Active(d, g)
           last == b.ring[d.req_cons]
           fl == Elems(g) \cap Flushes
<1>1. /\ Ring(b, A, Elems(got) \cap Flushes, k)
      /\ \A i, j \in DOMAIN got : got[i] = got[j] => i = j
      /\ b.queued \cap Elems(got) = {} /\ (b.state = "dead" => b.queued # {})
  BY DEF RingOK, Off
<1>2. a \in Nat /\ n \in Nat \ {0} /\ b.free \in Int /\ RingSize \in Nat /\ b.free >= n
      /\ Len(b.rsp) \in Nat /\ d.req_cons = a + n /\ d.free = b.free - n
  BY XenBlkifAssumption DEF Blkif
<1>3. Indices(b) /\ Descriptors(b, A)
  BY <1>1 DEF Ring
<1>4. /\ IsFiniteSet(T) /\ Cardinality(T) = n /\ T \subseteq Reqs
      /\ s \in Seq(Reqs) /\ s # << >> /\ Elems(s) = T
      /\ \A i, j \in DOMAIN s : s[i] = s[j] => i = j
  BY <1>2, <1>3, SliceFacts, ZenonT(40)
<1>5. a + n \in a + 1 .. a + n /\ last \in T /\ last \in Reqs
  <2>1. a + n \in a + 1 .. a + n
    BY <1>2
  <2>2. last = b.ring[a + n]
    BY <1>2
  <2>3. last \in T
    BY <2>1, <2>2 DEF Slice
  <2> QED BY <1>4, <2>1, <2>3
<1>6. ASSUME NEW q \in T, q \in BarrierOp
      PROVE  q = last
  <2>1. PICK i \in a + 1 .. a + n : q = b.ring[i]
    BY DEF Slice
  <2>2. CASE i = a + n
    BY <2>1, <2>2
  <2>3. CASE i # a + n
    <3> HIDE DEF a
    <3>1. i - a \in 1 .. n - 1 /\ a + (i - a) = i
      BY <1>2, <2>1, <2>3
    <3> USE DEF a
    <3> QED BY <1>6, <2>1, <3>1
  <2> QED BY <2>2, <2>3
<1>7. Fence(b) = {} /\ A \subseteq Taken(b) /\ A \subseteq Reqs \ Flushes
  BY <1>3 DEF Fence, Descriptors
<1>8. Elems(got) \subseteq A /\ b.queued \subseteq A /\ Elems(got) \cap Flushes = {}
  BY DEF Active, BarrierOp
<1>9. T \cap Taken(b) = {}
  <2>1. ASSUME NEW i \in a + 1 .. a + n, NEW j \in 1 .. a, b.ring[i] = b.ring[j]
        PROVE  FALSE
    <3>1. i \in 1 .. Len(b.ring) /\ j \in 1 .. Len(b.ring) /\ i # j
      BY <1>2
    <3>2. DOMAIN b.ring = 1 .. Len(b.ring)
      BY DEF Blkif
    <3> QED BY <1>3, <2>1, <3>1, <3>2 DEF Indices
  <2> QED BY <2>1 DEF Slice, Taken
<1>10. Taken(d) = Taken(b) \cup T
  <2>1. \A i : i \in 1 .. a + n <=> i \in 1 .. a \/ i \in a + 1 .. a + n
    BY <1>2
  <2> QED BY <2>1 DEF Taken, Slice
<1> HIDE DEF s, T, last
<1>11. /\ g \in Seq(Reqs) /\ g # << >> /\ Elems(g) = Elems(got) \cup T
       /\ \A i, j \in DOMAIN g : g[i] = g[j] => i = j
  <2>1. Elems(got) \cap Elems(s) = {}
    BY <1>4, <1>7, <1>8, <1>9
  <2> QED BY <1>1, <1>4, <2>1, Joined
<1> HIDE DEF g
<1>12. D = A \cup (T \ Flushes) /\ fl = T \cap Flushes
  BY <1>8, <1>11 DEF Active
<1> HIDE DEF A, D, fl
<1>13. d.msg = (IF last \in BarrierOp THEN last ELSE None) /\ (last \in BarrierOp => ~d.io_done)
       /\ last # None
  BY <1>5, XenBlkifAssumption DEF last
<1>14. D \cup Fence(d) = A \cup T
  <2>1. T \cap Flushes \subseteq Fence(d) /\ Fence(d) \subseteq T
    BY <1>5, <1>6, <1>13 DEF Fence, BarrierOp
  <2> QED BY <1>12, <2>1
<1>15. Descriptors(d, D)
  <2>1. IsFiniteSet(A) /\ b.free + Cardinality(A) = RingSize
    <3>1. A \cup Fence(b) = A
      BY <1>7
    <3> QED BY <1>3, <3>1 DEF Descriptors
  <2>2. IsFiniteSet(A \cup T) /\ Cardinality(A \cup T) = Cardinality(A) + n
    <3>1. A \cap T = {}
      BY <1>7, <1>9
    <3>2. IsFiniteSet(A \cup T) /\ Cardinality(A \cup T) = Cardinality(A) + Cardinality(T) - Cardinality(A \cap T)
      BY <1>4, <2>1, FS_Union
    <3>3. Cardinality(A) \in Nat /\ Cardinality(A \cap T) = 0
      BY <2>1, <3>1, FS_CardinalityType, FS_EmptySet
    <3> QED BY <1>2, <1>4, <3>2, <3>3
  <2>3. Cardinality(A) \in Nat
    BY <2>1, FS_CardinalityType
  <2>4. d.free >= 0 /\ d.free + Cardinality(D \cup Fence(d)) = RingSize
    <3>1. Cardinality(D \cup Fence(d)) = Cardinality(A) + n
      BY <1>14, <2>2
    <3> DEFINE x == Cardinality(A)
               y == Cardinality(D \cup Fence(d))
               v == b.free
               w == d.free
    <3>2. x \in Nat /\ y = x + n /\ v \in Int /\ v >= n /\ w = v - n /\ v + x = RingSize
      BY <1>2, <2>1, <2>3, <3>1
    <3> HIDE DEF x, y, v, w
    <3>3. w >= 0 /\ w + y = RingSize
      BY <1>2, <3>2
    <3> QED BY <3>3 DEF w, y
  <2>5. IsFiniteSet(D)
    BY <1>14, <2>2, FS_Subset
  <2>6. D \subseteq Reqs \ Flushes /\ D \cup Fence(d) \subseteq Taken(d)
    BY <1>4, <1>7, <1>10, <1>12, <1>14
  <2> QED BY <2>4, <2>5, <2>6 DEF Descriptors
<1>16. Indices(d)
  BY <1>3 DEF Indices
<1>17. OneBarrier(d, D, fl)
  <2>1. d.msg # None => d.msg \in BarrierOp /\ d.req_cons > 0 /\ d.ring[d.req_cons] = d.msg
    BY <1>2, <1>13 DEF last
  <2>2. \A q \in A : q \notin Barriers
    BY <1>1, <1>7, XenBlkifAssumption DEF Ring, OneBarrier, A
  <2>3. \A q \in D : q \in Barriers => q = d.msg
    BY <1>6, <1>12, <1>13, <2>2 DEF BarrierOp
  <2>4. d.msg \in Barriers => ~d.io_done /\ d.msg \in D
    BY <1>5, <1>12, <1>13, XenBlkifAssumption
  <2>5. fl \subseteq Flushes \cap Taken(d) /\ \A q \in fl : d.msg \in {q, None}
    BY <1>6, <1>10, <1>12, <1>13 DEF BarrierOp
  <2> QED BY <2>1, <2>3, <2>4, <2>5 DEF OneBarrier
<1>18. Told(d, D, k)
  <2>1. SUFFICES ASSUME b.state = "up" PROVE Told(d, D, k)
    BY DEF Told
  <2>2. /\ b.req_cons - Len(b.rsp) = RingSize - b.free
        /\ \A i, j \in DOMAIN b.rsp : b.rsp[i].id = b.rsp[j].id => i = j
        /\ Taken(b) = A \cup Fence(b) \cup Ids(b) /\ Ids(b) \cap (A \cup Fence(b)) = {}
        /\ \A i \in 1 .. b.req_cons : b.ring[i] \in BarrierOp \cap Ids(b) =>
              \A j \in 1 .. i : b.ring[j] \in Ids(b)
        /\ b.rsp_prod = Len(b.rsp) \/ k
    BY <1>1, <2>1 DEF Ring, Told, A
  <2>3. Ids(d) = Ids(b)
    BY DEF Ids
  <2>4. d.req_cons - Len(d.rsp) = RingSize - d.free
    <3> DEFINE x == d.req_cons
               y == Len(b.rsp)
               v == b.free
               w == d.free
    <3>1. x = a + n /\ y \in Nat /\ v \in Int /\ w = v - n /\ a - y = RingSize - v
      BY <1>2, <2>2
    <3> HIDE DEF x, y, v, w, a
    <3>2. x - y = RingSize - w
      BY <1>2, <3>1
    <3> QED BY <3>2 DEF x, y, w
  <2>5. Taken(d) = D \cup Fence(d) \cup Ids(d) /\ Ids(d) \cap (D \cup Fence(d)) = {}
    BY <1>7, <1>9, <1>10, <1>14, <2>2, <2>3
  <2>6. ASSUME NEW i \in 1 .. d.req_cons, d.ring[i] \in BarrierOp \cap Ids(d)
        PROVE  \A j \in 1 .. i : d.ring[j] \in Ids(d)
    <3>1. i \in 1 .. a \/ i \in a + 1 .. a + n
      BY <1>2
    <3>2. i \notin a + 1 .. a + n
      <4>1. i \in a + 1 .. a + n => b.ring[i] \in T
        BY DEF T, Slice
      <4> QED BY <1>9, <2>2, <2>3, <2>6, <4>1
    <3> QED BY <2>2, <2>3, <2>6, <3>1, <3>2
  <2> QED BY <2>2, <2>3, <2>4, <2>5, <2>6 DEF Told
<1>19. Company(d, D, fl)
  BY <1>5, <1>12, <1>13 DEF Company
<1>20. d.queued \cap Elems(g) = {}
  BY <1>1, <1>7, <1>8, <1>9, <1>11
<1>21. RingOK(d, g, k)
  <2>1. Ring(d, D, fl, k)
    BY <1>15, <1>16, <1>17, <1>18 DEF Ring
  <2> QED BY <1>1, <1>11, <1>19, <1>20, <2>1 DEF RingOK, D, fl
<1>22. last \notin BarrierOp => Elems(g) \cap BarrierOp = {}
  BY <1>6, <1>11
<1> QED BY <1>11, <1>21, <1>22 DEF g, s, last
-----------------------------------------------------------------------------
(* Steps that change one ring *)

LEMMA KickOK ==
  ASSUME NEW b, NEW got, NEW k, NEW m, RingOK(b, got, k), k => m
  PROVE  RingOK(b, got, m)
<1>1. ASSUME NEW A, NEW fl, Ring(b, A, fl, k) PROVE Ring(b, A, fl, m)
  BY <1>1 DEF Ring, Told
<1> QED BY <1>1 DEF RingOK

LEMMA OneRing ==
  ASSUME IInv, NEW r \in Rings, NEW b \in Blkif, blkif' = [blkif EXCEPT ![r] = b],
         RingOK(b, Work(proc', r), kicking' = r),
         \A s \in Rings \ {r} : Work(proc', s) = Work(proc, s) /\ (kicking = s => kicking' = s)
  PROVE  /\ blkif' \in [Rings -> Blkif] /\ blkif'[r] = b
         /\ \A s \in Rings : RingOK(blkif'[s], Work(proc', s), kicking' = s)
<1> DEFINE bs == blkif'
           k == kicking'
           p == proc'
<1>1. blkif \in [Rings -> Blkif]
  BY DEF IInv, Types
<1>2. bs \in [Rings -> Blkif] /\ bs[r] = b /\ \A s \in Rings \ {r} : bs[s] = blkif[s]
  BY <1>1
<1>3. /\ RingOK(b, Work(p, r), k = r)
      /\ \A s \in Rings \ {r} : Work(p, s) = Work(proc, s) /\ (kicking = s => k = s)
  OBVIOUS
<1> HIDE DEF bs, k, p
<1>4. ASSUME NEW s \in Rings PROVE RingOK(bs[s], Work(p, s), k = s)
  <2>1. CASE s = r
    BY <1>2, <1>3, <2>1
  <2>2. CASE s # r
    <3>1. RingOK(blkif[s], Work(proc, s), kicking = s)
      BY DEF IInv
    <3>2. Work(p, s) = Work(proc, s) /\ (kicking = s => k = s) /\ bs[s] = blkif[s]
      BY <1>2, <1>3, <2>2
    <3>3. RingOK(blkif[s], Work(proc, s), k = s)
      BY <3>1, <3>2, KickOK
    <3> QED BY <3>2, <3>3
  <2> QED BY <2>1, <2>2
<1> QED BY <1>2, <1>4 DEF bs, k, p

\* What the state needs to be in order when one ring and its process_ring change.
LEMMA StepOK ==
  ASSUME IInv, NEW r \in Rings, NEW b \in Blkif, NEW p \in Process, proc.r \in {r, None},
         RingOK(b, Work(p, r), kicking' = r),
         p.step = "idle" => p.r = None,
         p.step # "idle" => p.r = r /\ b.state \in {"up", "dead"},
         p.step \in {"check", "recheck"} =>
            b.msg = None /\ Elems(p.got) \cap BarrierOp = {} /\ p.limit \in 0 .. b.free,
         blkif' = [blkif EXCEPT ![r] = b], proc' = p, ring_masked' \in BOOLEAN,
         kicking' \in Rings \cup {None}, \A s \in Rings \ {r} : kicking = s => kicking' = s,
         UNCHANGED <<vbd, low>>, io' \in [Reqs -> {"none", "ok", "err"}]
  PROVE  IInv'
<1> DEFINE bs == blkif'
           k == kicking'
<1>1. \A s \in Rings : s # None
  BY XenBlkifAssumption
<1>2. \A s \in Rings \ {r} : Work(p, s) = << >> /\ Work(proc, s) = << >>
  BY <1>1 DEF Work
<1>3. \A s \in Rings \ {r} : Work(proc', s) = Work(proc, s) /\ (kicking = s => kicking' = s)
  BY <1>2
<1>4. /\ bs \in [Rings -> Blkif] /\ bs[r] = b
      /\ \A s \in Rings : RingOK(bs[s], Work(p, s), k = s)
  BY <1>3, OneRing
<1> HIDE DEF bs, k
<1>5. Running(p, bs)
  BY <1>4 DEF Running
<1>6. Types'
  BY <1>4 DEF Types, IInv, bs
<1> QED BY <1>4, <1>5, <1>6 DEF IInv, bs, k

LEMMA Idle == idle \in Process /\ idle.step = "idle" /\ idle.r = None /\ Work(idle, None) = << >>
              /\ \A r \in Rings : Work(idle, r) = << >>
<1>1. << >> \in Seq(Reqs)
  OBVIOUS
<1>2. idle \in Process /\ idle.step = "idle" /\ idle.r = None /\ idle.got = << >>
  BY <1>1 DEF idle, Process
<1> QED BY <1>2 DEF Work

\* Changes of a ring's events only.
LEMMA EventFields ==
  ASSUME NEW b \in Blkif, NEW m \in BOOLEAN, NEW n \in Nat
  PROVE  /\ [b EXCEPT !.port = FALSE] \in Blkif /\ Core(b, [b EXCEPT !.port = FALSE])
         /\ [b EXCEPT !.chkrng = b.polling] \in Blkif /\ Core(b, [b EXCEPT !.chkrng = b.polling])
         /\ [b EXCEPT !.stop = TRUE] \in Blkif /\ Core(b, [b EXCEPT !.stop = TRUE])
         /\ [b EXCEPT !.masked = m] \in Blkif /\ Core(b, [b EXCEPT !.masked = m])
         /\ [b EXCEPT !.req_event = n] \in Blkif /\ Core(b, [b EXCEPT !.req_event = n])
         /\ start_polling(b) \in Blkif /\ Core(b, start_polling(b))
         /\ [b EXCEPT !.polling = FALSE, !.chkrng = FALSE, !.stop = FALSE] \in Blkif
         /\ Core(b, [b EXCEPT !.polling = FALSE, !.chkrng = FALSE, !.stop = FALSE])
<1>1. [b EXCEPT !.port = FALSE] \in Blkif /\ Core(b, [b EXCEPT !.port = FALSE])
  BY DEF Blkif, Core
<1>2. [b EXCEPT !.chkrng = b.polling] \in Blkif /\ Core(b, [b EXCEPT !.chkrng = b.polling])
  BY DEF Blkif, Core
<1>3. [b EXCEPT !.stop = TRUE] \in Blkif /\ Core(b, [b EXCEPT !.stop = TRUE])
  BY DEF Blkif, Core
<1>4. [b EXCEPT !.masked = m] \in Blkif /\ Core(b, [b EXCEPT !.masked = m])
  BY DEF Blkif, Core
<1>5. [b EXCEPT !.req_event = n] \in Blkif /\ Core(b, [b EXCEPT !.req_event = n])
  BY DEF Blkif, Core
<1>6. start_polling(b) \in Blkif /\ Core(b, start_polling(b))
  BY DEF Blkif, Core, start_polling
<1>7. /\ [b EXCEPT !.polling = FALSE, !.chkrng = FALSE, !.stop = FALSE] \in Blkif
      /\ Core(b, [b EXCEPT !.polling = FALSE, !.chkrng = FALSE, !.stop = FALSE])
  BY DEF Blkif, Core
<1> QED BY <1>1, <1>2, <1>3, <1>4, <1>5, <1>6, <1>7

Rest == kicking' = kicking /\ vbd' = vbd /\ low' = low /\ io' = io

LEMMA Return0OK ==
  ASSUME IInv, NEW r \in Rings, NEW b \in Blkif, NEW caller, proc.r \in {r, None},
         RingOK(b, << >>, kicking = r), b.state \in {"up", "dead"}, Return0(r, b, caller), Rest
  PROVE  IInv'
<1> DEFINE c == IF caller = "stoppolling"
                THEN [b EXCEPT !.polling = FALSE, !.chkrng = FALSE, !.stop = FALSE] ELSE b
<1>1. c \in Blkif /\ RingOK(c, << >>, kicking = r)
  <2>1. CASE caller = "stoppolling"
    <3>1. c \in Blkif /\ Core(b, c)
      BY <2>1, EventFields
    <3> HIDE DEF c
    <3> QED BY <3>1, CoreOK
  <2>2. CASE caller # "stoppolling"
    BY <2>2
  <2> QED BY <2>1, <2>2
<1>2. blkif' = [blkif EXCEPT ![r] = c] /\ proc' = idle /\ ring_masked' \in BOOLEAN
  BY DEF Return0, IInv, Types
<1>3. RingOK(c, Work(idle, r), kicking' = r)
  BY <1>1, Idle DEF Rest
<1> HIDE DEF c
<1>4. /\ kicking' \in Rings \cup {None} /\ kicking' = kicking /\ UNCHANGED <<vbd, low>>
      /\ io' \in [Reqs -> {"none", "ok", "err"}]
  BY DEF Rest, IInv, Types
<1> QED BY <1>1, <1>2, <1>3, <1>4, Idle, StepOK

LEMMA CollectedOK ==
  ASSUME IInv, NEW r \in Rings, NEW b \in Blkif, NEW p \in Process, p.r = r, proc.r = r,
         RingOK(b, p.got, kicking = r), b.state \in {"up", "dead"}, Collected(b, p), Rest
  PROVE  IInv'
<1>1. CASE p.got = << >>
  <2>1. Return0(r, b, p.caller) /\ RingOK(b, << >>, kicking = r)
    BY <1>1 DEF Collected
  <2> QED BY <2>1, Return0OK
<1>2. CASE p.got # << >>
  <2> DEFINE v == [p EXCEPT !.step = "queue"]
  <2>1. PICK c \in {b, [b EXCEPT !.stop = TRUE], start_polling(b)} :
           /\ blkif' = [blkif EXCEPT ![r] = c] /\ proc' = v /\ ring_masked' \in BOOLEAN
    BY <1>2 DEF Collected, IInv, Types
  <2>2. c \in Blkif /\ RingOK(c, p.got, kicking = r) /\ c.state \in {"up", "dead"}
    <3>1. CASE c = b
      BY <3>1
    <3>2. CASE c # b
      <4>1. c \in Blkif /\ Core(b, c)
        BY <2>1, <3>2, EventFields
      <4> QED BY <4>1, CoreOK DEF Core
    <3> QED BY <3>1, <3>2
  <2>3. v \in Process /\ v.step = "queue" /\ v.r = r /\ v.got = p.got
    BY DEF Process
  <2> HIDE DEF v
  <2>4. RingOK(c, Work(v, r), kicking' = r)
    BY <2>2, <2>3 DEF Work, Rest
  <2>5. /\ kicking' \in Rings \cup {None} /\ kicking' = kicking /\ UNCHANGED <<vbd, low>>
        /\ io' \in [Reqs -> {"none", "ok", "err"}]
    BY DEF Rest, IInv, Types
  <2> QED BY <2>1, <2>2, <2>3, <2>4, <2>5, StepOK
<1> QED BY <1>1, <1>2

\* The invariant while process_ring looks at its ring.
LEMMA Looking ==
  ASSUME IInv, proc.step \in {"check", "recheck"}
  PROVE  /\ proc \in Process /\ proc.r \in Rings /\ blkif[proc.r] \in Blkif
         /\ RingOK(blkif[proc.r], proc.got, kicking = proc.r)
         /\ blkif[proc.r].state \in {"up", "dead"} /\ blkif[proc.r].msg = None
         /\ Elems(proc.got) \cap BarrierOp = {} /\ proc.limit \in 0 .. blkif[proc.r].free
         /\ proc.got \in Seq(Reqs) /\ proc.limit \in Int
<1>1. /\ proc \in Process /\ proc.r \in Rings /\ blkif[proc.r].state \in {"up", "dead"}
      /\ blkif[proc.r].msg = None
      /\ Elems(proc.got) \cap BarrierOp = {} /\ proc.limit \in 0 .. blkif[proc.r].free
  BY DEF IInv, Types, Running
<1>2. blkif[proc.r] \in Blkif
  BY <1>1 DEF IInv, Types
<1>3. RingOK(blkif[proc.r], Work(proc, proc.r), kicking = proc.r) /\ Work(proc, proc.r) = proc.got
  BY <1>1 DEF IInv, Work
<1>4. proc.got \in Seq(Reqs) /\ proc.limit \in Int
  BY <1>1 DEF Process
<1> QED BY <1>1, <1>2, <1>3, <1>4

LEMMA NextPassOK ==
  ASSUME IInv, proc.step \in {"check", "recheck"}, NextPass(blkif[proc.r]), Rest
  PROVE  IInv'
<1> DEFINE r == proc.r
           b == blkif[r]
<1>1. /\ proc \in Process /\ r \in Rings /\ b \in Blkif /\ RingOK(b, proc.got, kicking = r)
      /\ b.state \in {"up", "dead"} /\ b.msg = None
      /\ Elems(proc.got) \cap BarrierOp = {} /\ proc.limit \in 0 .. b.free
  BY Looking
<1>2. CASE proc.pass
  <2> DEFINE v == [proc EXCEPT !.step = "check", !.final = TRUE, !.pass = FALSE]
  <2>1. blkif' = [blkif EXCEPT ![r] = b] /\ proc' = v /\ ring_masked' \in BOOLEAN
    BY <1>2 DEF NextPass, IInv, Types
  <2>2. v \in Process /\ v.step = "check" /\ v.r = r /\ v.got = proc.got /\ v.limit = proc.limit
    BY <1>1 DEF Process
  <2> HIDE DEF v
  <2>3. RingOK(b, Work(v, r), kicking' = r)
    BY <1>1, <2>2 DEF Work, Rest
  <2>4. /\ kicking' \in Rings \cup {None} /\ kicking' = kicking /\ UNCHANGED <<vbd, low>>
        /\ io' \in [Reqs -> {"none", "ok", "err"}]
    BY DEF Rest, IInv, Types
  <2>5. proc.r \in {r, None}
    OBVIOUS
  <2> HIDE DEF b, r
  <2> QED BY <1>1, <2>1, <2>2, <2>3, <2>4, <2>5, StepOK
<1>3. CASE ~proc.pass
  <2>1. Collected(b, proc)
    BY <1>3 DEF NextPass
  <2> QED BY <1>1, <2>1, CollectedOK
<1> QED BY <1>2, <1>3

LEMMA TakeStepOK ==
  ASSUME IInv, proc.step \in {"check", "recheck"}, unconsumed(blkif[proc.r]) > 0,
         Take(blkif[proc.r]), Rest
  PROVE  IInv'
<1> DEFINE r == proc.r
           b == blkif[r]
           n == batch(b)
           cons == b.req_cons + n
           last == b.ring[cons]
           g == proc.got \o SubSeq(b.ring, b.req_cons + 1, cons)
           c == [b EXCEPT !.req_cons = cons, !.free = b.free - n]
           d == [c EXCEPT !.msg = last, !.io_done = FALSE]
           v == [proc EXCEPT !.step = "check", !.pass = TRUE, !.limit = proc.limit - n, !.got = g]
<1>1. /\ proc \in Process /\ r \in Rings /\ b \in Blkif /\ RingOK(b, proc.got, kicking = r)
      /\ b.state \in {"up", "dead"} /\ b.msg = None
      /\ Elems(proc.got) \cap BarrierOp = {} /\ proc.limit \in 0 .. b.free
      /\ proc.got \in Seq(Reqs) /\ proc.limit \in Int
  BY Looking
<1>2. CASE proc.limit = 0
  <2>1. NextPass(b)
    BY <1>2 DEF Take
  <2> QED BY <2>1, NextPassOK
<1>3. CASE proc.limit # 0
  <2>1. b.req_cons \in Nat /\ b.free \in Int /\ Len(b.ring) \in Nat /\ Len(b.rsp) \in Nat
        /\ b.ring \in Seq(Reqs)
    BY <1>1 DEF Blkif
  <2>2. b.req_cons < Len(b.ring)
    <3> DEFINE x == Len(b.ring) - b.req_cons
               y == RingSize - (b.req_cons - Len(b.rsp))
    <3>1. x \in Int /\ y \in Int /\ (IF x < y THEN x ELSE y) > 0
      BY <2>1, XenBlkifAssumption DEF unconsumed
    <3> HIDE DEF y
    <3>2. x > 0
      BY <3>1
    <3> QED BY <2>1, <3>2
  <2>3. proc.limit \in Nat \ {0}
    BY <1>1, <1>3
  <2>4. /\ n \in 1 .. proc.limit /\ cons <= Len(b.ring)
        /\ \A i \in 1 .. n - 1 : b.ring[b.req_cons + i] \notin BarrierOp
    BY <1>1, <2>2, <2>3, BatchFacts
  <2>5. IF last \in BarrierOp
        THEN Collected(d, v)
        ELSE proc' = v /\ blkif' = [blkif EXCEPT ![r] = c] /\ UNCHANGED ring_masked
    BY <1>3 DEF Take
  <2> HIDE DEF n
  <2>6. n \in 1 .. b.free /\ cons \in Nat /\ b.free - n \in Int /\ proc.limit - n \in Int
        /\ cons \in 1 .. Len(b.ring) /\ proc.limit - n \in 0 .. b.free - n
    BY <1>1, <2>1, <2>3, <2>4, SMTT(30)
  <2>7. last \in Reqs
    BY <2>1, <2>6
  <2> HIDE DEF cons, last, b
  <2>8. /\ c \in Blkif /\ c.state = b.state /\ c.ring = b.ring /\ c.rsp = b.rsp
        /\ c.rsp_prod = b.rsp_prod /\ c.queued = b.queued /\ c.req_cons = cons
        /\ c.free = b.free - n /\ c.msg = None
    BY <1>1, <2>6 DEF Blkif
  <2> HIDE DEF c
  <2>9. /\ d \in Blkif /\ d.state = b.state /\ d.ring = b.ring /\ d.rsp = b.rsp
        /\ d.rsp_prod = b.rsp_prod /\ d.queued = b.queued /\ d.req_cons = cons
        /\ d.free = b.free - n /\ d.msg = last /\ d.io_done = FALSE
    BY <2>7, <2>8 DEF Blkif
  <2> HIDE DEF d
  <2>10. CASE last \notin BarrierOp
    <3>1. /\ c.req_cons = b.req_cons + n /\ c.msg = IF b.ring[c.req_cons] \in BarrierOp
                                                    THEN b.ring[c.req_cons] ELSE None
          /\ b.ring[c.req_cons] \notin BarrierOp /\ b.req_cons + n <= Len(b.ring)
          /\ g = proc.got \o SubSeq(b.ring, b.req_cons + 1, b.req_cons + n)
      BY <2>4, <2>8, <2>10 DEF cons, last
    <3> HIDE DEF g
    <3>2. g \in Seq(Reqs) /\ RingOK(c, g, kicking = r) /\ Elems(g) \cap BarrierOp = {}
      BY <1>1, <2>4, <2>6, <2>8, <3>1, TakeOK
    <3>3. v \in Process /\ v.step = "check" /\ v.r = r /\ v.got = g /\ v.limit = proc.limit - n
      BY <1>1, <2>6, <3>2 DEF Process
    <3>4. proc' = v /\ blkif' = [blkif EXCEPT ![r] = c] /\ ring_masked' \in BOOLEAN
      BY <2>5, <2>10 DEF IInv, Types
    <3> HIDE DEF v
    <3>5. RingOK(c, Work(v, r), kicking' = r)
      BY <3>2, <3>3 DEF Work, Rest
    <3>6. /\ kicking' \in Rings \cup {None} /\ kicking' = kicking /\ UNCHANGED <<vbd, low>>
          /\ io' \in [Reqs -> {"none", "ok", "err"}]
      BY DEF Rest, IInv, Types
    <3>7. proc.r \in {r, None} /\ v.limit \in 0 .. c.free /\ c.state \in {"up", "dead"}
      BY <1>1, <2>6, <2>8, <3>3
    <3> HIDE DEF r
    <3> QED BY <1>1, <2>8, <3>2, <3>3, <3>4, <3>5, <3>6, <3>7, StepOK
  <2>11. CASE last \in BarrierOp
    <3>1. /\ d.req_cons = b.req_cons + n /\ d.msg = IF b.ring[d.req_cons] \in BarrierOp
                                                    THEN b.ring[d.req_cons] ELSE None
          /\ ~d.io_done /\ b.req_cons + n <= Len(b.ring)
          /\ g = proc.got \o SubSeq(b.ring, b.req_cons + 1, b.req_cons + n)
      BY <2>4, <2>9, <2>11 DEF cons, last
    <3> HIDE DEF g
    <3>2. g \in Seq(Reqs) /\ RingOK(d, g, kicking = r)
      BY <1>1, <2>4, <2>6, <2>9, <3>1, TakeOK
    <3>3. v \in Process /\ v.r = r /\ v.got = g
      BY <1>1, <2>6, <3>2 DEF Process
    <3>4. Collected(d, v)
      BY <2>5, <2>11
    <3> HIDE DEF v
    <3>5. RingOK(d, v.got, kicking = r) /\ d.state \in {"up", "dead"}
      BY <1>1, <2>9, <3>2, <3>3
    <3> QED BY <1>1, <2>9, <3>3, <3>4, <3>5, CollectedOK
  <2> QED BY <2>10, <2>11
<1> QED BY <1>2, <1>3
-----------------------------------------------------------------------------
(* The actions *)

\* Between two callbacks nothing is in hand.
LEMMA AtRest ==
  ASSUME IInv, proc.step = "idle", NEW r \in Rings
  PROVE  /\ proc.r = None /\ Work(proc, r) = << >> /\ blkif[r] \in Blkif
         /\ RingOK(blkif[r], << >>, kicking = r)
<1>1. proc.r = None /\ r # None
  BY XenBlkifAssumption DEF IInv, Running
<1>2. Work(proc, r) = << >>
  BY <1>1 DEF Work
<1>3. RingOK(blkif[r], Work(proc, r), kicking = r) /\ blkif[r] \in Blkif
  BY DEF IInv, Types
<1> QED BY <1>1, <1>2, <1>3

LEMMA ProcessRingOK ==
  ASSUME IInv, Ready, NEW r \in Rings, ~Off(blkif[r]), NEW b \in Blkif, Core(blkif[r], b),
         NEW final \in BOOLEAN, NEW caller \in {"event", "chkrng", "stoppolling"},
         ProcessRing(r, b, final, caller), Rest
  PROVE  IInv'
<1> DEFINE o == blkif[r]
<1>1. proc.r = None /\ o \in Blkif /\ RingOK(o, << >>, kicking = r)
  BY AtRest DEF Ready
<1>2. o.state \in {"up", "dead"}
  BY <1>1 DEF RingOK
<1>3. RingOK(b, << >>, kicking = r) /\ b.state \in {"up", "dead"}
  <2> HIDE DEF o
  <2>1. Core(o, b)
    BY DEF o
  <2> QED BY <1>1, <1>2, <2>1, CoreOK DEF Core
<1>4. CASE b.msg # None
  <2>1. Return0(r, b, caller)
    BY <1>4 DEF ProcessRing
  <2> QED BY <1>1, <1>3, <2>1, Return0OK
<1>5. CASE b.msg = None
  <2> DEFINE l == ring_limit(b)
             v == [idle EXCEPT !.step = "check", !.r = r, !.final = final, !.limit = l,
                               !.caller = caller]
  <2>1. l \in 0 .. b.free
    <3>1. Descriptors(b, Active(b, << >>))
      BY <1>3 DEF RingOK, Off, Ring
    <3>2. b.free \in 0 .. RingSize /\ RingSize \in Nat \ {0}
      BY <3>1, InUse, XenBlkifAssumption
    <3> QED BY <3>2 DEF ring_limit
  <2>2. blkif' = [blkif EXCEPT ![r] = b] /\ proc' = v /\ ring_masked' \in BOOLEAN
    BY <1>5 DEF ProcessRing, IInv, Types
  <2> HIDE DEF l
  <2>3. l \in Int
    BY <2>1 DEF Blkif
  <2>4. v \in Process /\ v.step = "check" /\ v.r = r /\ v.got = << >> /\ v.limit = l
    <3>1. idle \in Process /\ idle.got = << >>
      BY Idle DEF idle
    <3> HIDE DEF l
    <3> QED BY <2>3, <3>1 DEF Process
  <2> HIDE DEF v
  <2>5. Elems(v.got) \cap BarrierOp = {}
    BY <2>4 DEF Elems
  <2>6. RingOK(b, Work(v, r), kicking' = r)
    BY <1>3, <2>4 DEF Work, Rest
  <2>7. /\ kicking' \in Rings \cup {None} /\ kicking' = kicking /\ UNCHANGED <<vbd, low>>
        /\ io' \in [Reqs -> {"none", "ok", "err"}]
    BY DEF Rest, IInv, Types
  <2>8. v.limit \in 0 .. b.free /\ proc.r \in {r, None}
    BY <1>1, <2>1, <2>4
  <2> QED BY <1>3, <1>5, <2>2, <2>4, <2>5, <2>6, <2>7, <2>8, StepOK
<1> QED BY <1>4, <1>5

LEMMA RingEventOK ==
  ASSUME IInv, NEW r \in Rings, RingEvent(r)
  PROVE  IInv'
<1> DEFINE b == [blkif[r] EXCEPT !.port = FALSE]
<1>1. Ready /\ ~Off(blkif[r]) /\ ProcessRing(r, b, FALSE, "event") /\ Rest
  BY DEF RingEvent, Off, Rest
<1>2. blkif[r] \in Blkif
  BY DEF IInv, Types
<1>3. b \in Blkif /\ Core(blkif[r], b)
  BY <1>2, EventFields
<1> HIDE DEF b
<1> QED BY <1>1, <1>3, ProcessRingOK

LEMMA CheckRingEventOK ==
  ASSUME IInv, NEW r \in Rings, CheckRingEvent(r)
  PROVE  IInv'
<1> DEFINE o == blkif[r]
           b == [o EXCEPT !.chkrng = o.polling]
           final == ~o.polling
<1>1. Ready /\ ~Off(blkif[r]) /\ ProcessRing(r, b, final, "chkrng") /\ Rest
  BY DEF CheckRingEvent, Off, Rest
<1>2. o \in Blkif
  BY DEF IInv, Types
<1>3. b \in Blkif /\ Core(blkif[r], b) /\ final \in BOOLEAN
  <2> HIDE DEF o
  <2>1. b \in Blkif /\ Core(o, b)
    BY <1>2, EventFields
  <2> QED BY <2>1 DEF o
<1> HIDE DEF b, final
<1> QED BY <1>1, <1>3, ProcessRingOK

LEMMA StopPollingOK ==
  ASSUME IInv, NEW r \in Rings, StopPolling(r)
  PROVE  IInv'
<1> DEFINE b == blkif[r]
<1>1. Ready /\ ~Off(b) /\ ProcessRing(r, b, TRUE, "stoppolling") /\ Rest
  BY DEF StopPolling, Off, Rest
<1>2. b \in Blkif
  BY DEF IInv, Types
<1>3. Core(blkif[r], b)
  BY DEF Core
<1> QED BY <1>1, <1>2, <1>3, ProcessRingOK

LEMMA CheckRingOK ==
  ASSUME IInv, CheckRing
  PROVE  IInv'
<1> DEFINE r == proc.r
           b == blkif[r]
<1>1. Rest /\ proc.step = "check" /\ proc.step \in {"check", "recheck"}
  BY DEF CheckRing, Rest
<1>2. CASE unconsumed(b) > 0 /\ Take(b)
  BY <1>1, <1>2, TakeStepOK
<1>3. CASE NextPass(b)
  BY <1>1, <1>3, NextPassOK
<1>4. CASE /\ blkif' = [blkif EXCEPT ![proc.r].req_event = b.req_cons + 1]
           /\ proc' = [proc EXCEPT !.step = "recheck"]
           /\ UNCHANGED ring_masked
  <2> DEFINE n == b.req_cons + 1
             c == [b EXCEPT !.req_event = n]
             v == [proc EXCEPT !.step = "recheck"]
  <2>1. /\ proc \in Process /\ r \in Rings /\ b \in Blkif /\ RingOK(b, proc.got, kicking = r)
        /\ b.state \in {"up", "dead"} /\ b.msg = None
        /\ Elems(proc.got) \cap BarrierOp = {} /\ proc.limit \in 0 .. b.free
    BY <1>1, Looking
  <2>2. n \in Nat
    BY <2>1 DEF Blkif
  <2>3. blkif' = [blkif EXCEPT ![r] = c] /\ proc' = v /\ ring_masked' \in BOOLEAN
    <3>1. blkif \in [Rings -> Blkif]
      BY DEF IInv, Types
    <3> QED BY <1>4, <3>1 DEF IInv, Types
  <2> HIDE DEF b, n
  <2>4. c \in Blkif /\ Core(b, c)
    BY <2>1, <2>2, EventFields
  <2>5. v \in Process /\ v.step = "recheck" /\ v.r = r /\ v.got = proc.got /\ v.limit = proc.limit
    BY <2>1 DEF Process
  <2> HIDE DEF c, v
  <2>6. RingOK(c, proc.got, kicking = r)
    BY <2>1, <2>4, CoreOK
  <2>7. RingOK(c, Work(v, r), kicking' = r)
    BY <1>1, <2>5, <2>6 DEF Work, Rest
  <2>8. /\ kicking' \in Rings \cup {None} /\ kicking' = kicking /\ UNCHANGED <<vbd, low>>
        /\ io' \in [Reqs -> {"none", "ok", "err"}]
    BY <1>1 DEF Rest, IInv, Types
  <2>9. proc.r \in {r, None} /\ c.state \in {"up", "dead"} /\ c.msg = None /\ v.limit \in 0 .. c.free
    BY <2>1, <2>4, <2>5 DEF Core
  <2> HIDE DEF r
  <2> QED BY <2>1, <2>3, <2>4, <2>5, <2>7, <2>8, <2>9, StepOK
<1> QED BY <1>2, <1>3, <1>4 DEF CheckRing

LEMMA RecheckRingOK ==
  ASSUME IInv, RecheckRing
  PROVE  IInv'
<1>1. Rest /\ proc.step \in {"check", "recheck"}
  BY DEF RecheckRing, Rest
<1>2. CASE unconsumed(blkif[proc.r]) > 0 /\ Take(blkif[proc.r])
  BY <1>1, <1>2, TakeStepOK
<1>3. CASE NextPass(blkif[proc.r])
  BY <1>1, <1>3, NextPassOK
<1> QED BY <1>2, <1>3 DEF RecheckRing

LEMMA QueueRequestOK ==
  ASSUME IInv, QueueRequest
  PROVE  IInv'
<1> DEFINE r == proc.r
           b == blkif[r]
           q == Head(proc.got)
           v(err) == [proc EXCEPT !.got = Tail(@), !.errors = @ \/ err]
           c(err) == queue_request(b, q, err)
<1>1. /\ proc \in Process /\ proc.step = "queue" /\ proc.got # << >> /\ r \in Rings
      /\ b \in Blkif /\ b.state \in {"up", "dead"} /\ proc.got \in Seq(Reqs)
  BY DEF QueueRequest, IInv, Types, Running, Process
<1>2. RingOK(b, proc.got, kicking = r)
  BY <1>1 DEF IInv, Work
<1>3. PICK err \in BOOLEAN :
         /\ err => q \in Faulty
         /\ blkif' = [blkif EXCEPT ![r] = queue_request(@, q, err)]
         /\ ctx_put(blkif') /\ proc' = v(err)
         /\ io' = IF err THEN [io EXCEPT ![q] = "err"] ELSE io
  BY DEF QueueRequest
<1>4. q \in Reqs /\ Tail(proc.got) \in Seq(Reqs)
  BY <1>1
<1>5. /\ c(err) \in Blkif /\ c(err).state = b.state
      /\ RingOK(c(err), Tail(proc.got), kicking = r)
  <2> DEFINE g == proc.got
  <2>1. g \in Seq(Reqs) /\ g # << >> /\ RingOK(b, g, kicking = r) /\ (err => Head(g) \in Faulty)
    BY <1>1, <1>2, <1>3
  <2> HIDE DEF g, b
  <2>2. LET d == queue_request(b, Head(g), err)
        IN  /\ d \in Blkif /\ d.state = b.state /\ d.ring = b.ring /\ RingOK(d, Tail(g), kicking = r)
    BY <1>1, <2>1, QueueOK
  <2> QED BY <2>2 DEF g
<1>6. /\ v(err) \in Process /\ v(err).step = "queue" /\ v(err).r = r /\ v(err).got = Tail(proc.got)
  <2> DEFINE g == Tail(proc.got)
  <2>1. g \in Seq(Reqs)
    BY <1>4
  <2> HIDE DEF g
  <2>2. /\ [proc EXCEPT !.got = g, !.errors = proc.errors \/ err] \in Process
        /\ [proc EXCEPT !.got = g, !.errors = proc.errors \/ err].step = "queue"
        /\ [proc EXCEPT !.got = g, !.errors = proc.errors \/ err].r = r
        /\ [proc EXCEPT !.got = g, !.errors = proc.errors \/ err].got = g
    BY <1>1, <2>1 DEF Process
  <2> QED BY <2>2 DEF g
<1>7. blkif' = [blkif EXCEPT ![r] = c(err)]
  BY <1>1, <1>3 DEF IInv, Types
<1>8. ring_masked' \in BOOLEAN
  BY <1>3 DEF ctx_put
<1>9. io' \in [Reqs -> {"none", "ok", "err"}]
  BY <1>3, <1>4 DEF IInv, Types
<1>10. /\ kicking' \in Rings \cup {None} /\ kicking' = kicking /\ UNCHANGED <<vbd, low>>
  BY DEF QueueRequest, IInv, Types
<1> DEFINE x == c(err)
           y == v(err)
<1>11. /\ x \in Blkif /\ x.state \in {"up", "dead"} /\ RingOK(x, Tail(proc.got), kicking = r)
       /\ blkif' = [blkif EXCEPT ![r] = x]
       /\ y \in Process /\ y.step = "queue" /\ y.r = r /\ y.got = Tail(proc.got) /\ proc' = y
  BY <1>1, <1>3, <1>5, <1>6, <1>7
<1> HIDE DEF x, y, c, v
<1>12. RingOK(x, Work(y, r), kicking' = r)
  BY <1>10, <1>11 DEF Work
<1>13. proc.r \in {r, None}
  OBVIOUS
<1> HIDE DEF r
<1> QED BY <1>1, <1>8, <1>9, <1>10, <1>11, <1>12, <1>13, StepOK

LEMMA PushedOK ==
  ASSUME NEW b \in Blkif, NEW got, NEW k, RingOK(b, got, k), b.state \in {"up", "dead"}
  PROVE  push_responses(b) \in Blkif /\ RingOK(push_responses(b), got, k)
<1> DEFINE n == Len(b.rsp)
           c == push_responses(b)
           A == Active(b, got)
           fl == Elems(got) \cap Flushes
<1>1. n \in Nat
  BY DEF Blkif
<1>2. c = [b EXCEPT !.rsp_prod = n]
  BY DEF push_responses
<1> HIDE DEF n, c
<1>3. /\ c \in Blkif /\ c.state = b.state /\ c.ring = b.ring /\ c.queued = b.queued
      /\ c.req_cons = b.req_cons /\ c.rsp = b.rsp /\ c.rsp_prod = n
      /\ c.free = b.free /\ c.msg = b.msg /\ c.io_done = b.io_done
  BY <1>1, <1>2 DEF Blkif
<1>4. Fence(c) = Fence(b) /\ Taken(c) = Taken(b) /\ Ids(c) = Ids(b) /\ Active(c, got) = A
  BY <1>3 DEF Fence, Taken, Ids, Active
<1>5. /\ Ring(b, A, fl, k) /\ Company(b, A, fl) /\ b.queued \cap Elems(got) = {}
      /\ \A i, j \in DOMAIN got : got[i] = got[j] => i = j
      /\ b.state = "dead" => b.queued # {}
  BY DEF RingOK, Off
<1> HIDE DEF A, fl
<1>6. Indices(c)
  BY <1>1, <1>3, <1>5 DEF Ring, Indices, n
<1>7. Descriptors(c, A)
  BY <1>3, <1>4, <1>5 DEF Ring, Descriptors
<1>8. OneBarrier(c, A, fl)
  BY <1>3, <1>4, <1>5 DEF Ring, OneBarrier
<1>9. Told(c, A, k)
  <2>1. Told(b, A, k)
    BY <1>5 DEF Ring
  <2> QED BY <1>3, <1>4, <2>1 DEF Told, n
<1>10. Ring(c, A, fl, k) /\ Company(c, A, fl)
  BY <1>3, <1>5, <1>6, <1>7, <1>8, <1>9 DEF Ring, Company
<1>11. RingOK(c, got, k)
  BY <1>3, <1>4, <1>5, <1>10 DEF RingOK, fl
<1> QED BY <1>3, <1>11 DEF c

LEMMA QueueDoneOK ==
  ASSUME IInv, QueueDone
  PROVE  IInv'
<1> DEFINE r == proc.r
           b == blkif[r]
           c == IF proc.errors THEN push_responses(b) ELSE b
<1>1. /\ proc \in Process /\ proc.step = "queue" /\ proc.got = << >> /\ r \in Rings
      /\ b \in Blkif /\ b.state \in {"up", "dead"}
  BY DEF QueueDone, IInv, Types, Running
<1>2. RingOK(b, << >>, kicking = r)
  BY <1>1 DEF IInv, Work
<1>3. c \in Blkif /\ RingOK(c, << >>, kicking = r)
  BY <1>1, <1>2, PushedOK
<1>4. blkif' = [blkif EXCEPT ![r] = c] /\ proc' = idle /\ ring_masked' \in BOOLEAN
  BY <1>1 DEF QueueDone, IInv, Types
<1>5. /\ kicking' \in Rings \cup {None} /\ kicking' = kicking /\ UNCHANGED <<vbd, low>>
      /\ io' \in [Reqs -> {"none", "ok", "err"}]
  BY DEF QueueDone, IInv, Types
<1> HIDE DEF c
<1>6. RingOK(c, Work(idle, r), kicking' = r) /\ proc.r \in {r, None}
  BY <1>1, <1>3, <1>5, Idle
<1> HIDE DEF r
<1> QED BY <1>1, <1>3, <1>4, <1>5, <1>6, Idle, StepOK
\* The front-end puts a request in its ring.
Pushed(b, q, c) ==
    /\ c.state = b.state /\ c.ring = Append(b.ring, q) /\ c.req_cons = b.req_cons
    /\ c.rsp = b.rsp /\ c.rsp_prod = b.rsp_prod /\ c.free = b.free /\ c.queued = b.queued
    /\ c.msg = b.msg /\ c.io_done = b.io_done

LEMMA PushRing ==
  ASSUME NEW b \in Blkif, NEW got, NEW h, NEW r, RingOK(b, got, h = r), b.state = "up",
         NEW q \in Reqs, q \notin Elems(b.ring), NEW c \in Blkif, Pushed(b, q, c)
  PROVE  RingOK(c, got, h = r)
<1> DEFINE s == c.ring
           l == Len(b.ring)
           A == Active(b, got)
           fl == Elems(got) \cap Flushes
<1>1. b.ring \in Seq(Reqs) /\ b.req_cons \in Nat
  BY DEF Blkif
<1>2. /\ s \in Seq(Reqs) /\ l \in Nat /\ Len(s) = l + 1 /\ DOMAIN s = 1 .. l + 1 /\ s[l + 1] = q
      /\ DOMAIN b.ring = 1 .. l /\ \A i \in 1 .. l : s[i] = b.ring[i]
  BY <1>1 DEF Pushed
<1> HIDE DEF s
<1>3. /\ c \in Blkif /\ c.state = b.state /\ c.ring = s /\ c.queued = b.queued
      /\ c.req_cons = b.req_cons /\ c.rsp = b.rsp /\ c.rsp_prod = b.rsp_prod
      /\ c.free = b.free /\ c.msg = b.msg /\ c.io_done = b.io_done
  BY DEF Pushed, s
<1>4. /\ Ring(b, A, fl, h = r) /\ Company(b, A, fl) /\ b.queued \cap Elems(got) = {}
      /\ \A i, j \in DOMAIN got : got[i] = got[j] => i = j
  BY DEF RingOK, Off
<1>5. b.req_cons <= l /\ b.rsp_prod <= Len(b.rsp)
      /\ \A i, j \in DOMAIN b.ring : b.ring[i] = b.ring[j] => i = j
  BY <1>4 DEF Ring, Indices
<1> HIDE DEF l
<1>6. \A i \in 1 .. b.req_cons : c.ring[i] = b.ring[i]
  BY <1>1, <1>2, <1>3, <1>5
<1>7. Fence(c) = Fence(b) /\ Taken(c) = Taken(b) /\ Ids(c) = Ids(b) /\ Active(c, got) = A
  BY <1>3, <1>6 DEF Fence, Taken, Ids, Active
<1> HIDE DEF A, fl
<1>8. Indices(c)
  <2>1. c.req_cons <= Len(c.ring) /\ c.rsp_prod <= Len(c.rsp)
    BY <1>1, <1>2, <1>3, <1>5
  <2>2. \A i \in DOMAIN b.ring : b.ring[i] # q
    BY DEF Elems
  <2>3. \A i \in DOMAIN s : i = l + 1 \/ i \in DOMAIN b.ring
    BY <1>2
  <2>4. ASSUME NEW i \in DOMAIN s, NEW j \in DOMAIN s, s[i] = s[j]
        PROVE  i = j
    BY <1>2, <1>5, <2>2, <2>3, <2>4
  <2> QED BY <1>3, <2>1, <2>4 DEF Indices
<1>9. Descriptors(c, A)
  BY <1>3, <1>4, <1>7 DEF Ring, Descriptors
<1>10. OneBarrier(c, A, fl)
  <2>1. OneBarrier(b, A, fl)
    BY <1>4 DEF Ring
  <2>2. b.req_cons > 0 => c.ring[b.req_cons] = b.ring[b.req_cons]
    <3>1. b.req_cons > 0 => b.req_cons \in 1 .. b.req_cons
      BY <1>1
    <3> QED BY <1>6, <3>1
  <2> QED BY <1>3, <1>7, <2>1, <2>2 DEF OneBarrier
<1>11. Told(c, A, h = r)
  <2>1. Told(b, A, h = r)
    BY <1>4 DEF Ring
  <2>2. \A i \in 1 .. b.req_cons : \A j \in 1 .. i : j \in 1 .. b.req_cons
    BY <1>1
  <2> QED BY <1>3, <1>6, <1>7, <2>1, <2>2 DEF Told
<1>12. Ring(c, A, fl, h = r) /\ Company(c, A, fl)
  BY <1>3, <1>4, <1>8, <1>9, <1>10, <1>11 DEF Ring, Company
<1>13. RingOK(c, got, h = r)
  BY <1>3, <1>4, <1>7, <1>12 DEF RingOK, fl
<1> QED BY <1>3, <1>13

LEMMA PushOK ==
  ASSUME IInv, NEW r \in Rings, NEW q \in Reqs, Push(r, q)
  PROVE  IInv'
<1> DEFINE b == blkif[r]
           m == b.port \/ b.req_event = Len(b.ring) + 1
           c == [b EXCEPT !.ring = Append(b.ring, q), !.port = m]
<1>1. /\ b \in Blkif /\ b.state = "up" /\ RingOK(b, Work(proc, r), kicking = r)
      /\ blkif \in [Rings -> Blkif]
  BY DEF IInv, Types, Push
<1>2. q \notin Elems(b.ring) /\ m \in BOOLEAN
  BY <1>1 DEF Push, Used, Blkif
<1>3. blkif' = [blkif EXCEPT ![r] = c]
  BY <1>1 DEF Push
<1> HIDE DEF b, m
<1>4. /\ c \in Blkif /\ c.state = "up" /\ c.msg = b.msg /\ c.free = b.free
      /\ RingOK(c, Work(proc, r), kicking = r)
  <2> DEFINE s == Append(b.ring, q)
  <2>1. s \in Seq(Reqs) /\ s = Append(b.ring, q)
    BY <1>1 DEF Blkif
  <2>2. c = [b EXCEPT !.ring = s, !.port = m]
    OBVIOUS
  <2> HIDE DEF s, c
  <2>3. c \in Blkif /\ Pushed(b, q, c)
    BY <1>1, <1>2, <2>1, <2>2 DEF Blkif, Pushed
  <2>4. RingOK(b, Work(proc, r), kicking = r) /\ b.state = "up" /\ q \notin Elems(b.ring)
    BY <1>1, <1>2
  <2>5. RingOK(c, Work(proc, r), kicking = r)
    BY <1>1, <2>3, <2>4, PushRing
  <2> QED BY <1>1, <2>3, <2>5 DEF Pushed
<1> HIDE DEF c
<1>5. proc' = proc /\ kicking' = kicking /\ Rest /\ ring_masked' = ring_masked
  BY DEF Push, Rest
<1>6. RingOK(c, Work(proc', r), kicking' = r)
  BY <1>4, <1>5
<1>7. \A s \in Rings \ {r} : Work(proc', s) = Work(proc, s) /\ (kicking = s => kicking' = s)
  BY <1>5
<1>8. /\ blkif' \in [Rings -> Blkif] /\ blkif'[r] = c
      /\ \A s \in Rings : RingOK(blkif'[s], Work(proc', s), kicking' = s)
  BY <1>3, <1>4, <1>6, <1>7, OneRing
<1>9. Running(proc', blkif')
  <2>1. Running(proc, blkif)
    BY DEF IInv
  <2>2. \A s \in Rings : /\ blkif'[s].state = blkif[s].state /\ blkif'[s].msg = blkif[s].msg
                         /\ blkif'[s].free = blkif[s].free
    <3>1. \A s \in Rings : s # r => blkif'[s] = blkif[s]
      BY <1>1, <1>3
    <3> QED BY <1>1, <1>4, <1>8, <3>1 DEF b
  <2> QED BY <1>5, <2>1, <2>2 DEF Running
<1>10. Types'
  BY <1>5, <1>8 DEF IInv, Types, Rest
<1> QED BY <1>8, <1>9, <1>10 DEF IInv

LEMMA RequestCbOK ==
  ASSUME IInv, NEW r \in Rings, RequestCb(r)
  PROVE  IInv'
<1> DEFINE b == blkif[r]
           x(q) == [b EXCEPT !.queued = @ \ {q}]
<1>1. PICK q \in b.queued, err \in BOOLEAN, final \in BOOLEAN :
         /\ proc.step = "idle" /\ (kicking = r \/ kicking = None)
         /\ blkif' = [blkif EXCEPT ![r] = complete_request(x(q), q, err, final)]
         /\ ctx_put(blkif') /\ kicking' = IF final THEN None ELSE r
         /\ io' = [io EXCEPT ![q] = IF err THEN "err" ELSE "ok"] /\ UNCHANGED <<proc, vbd, low>>
  BY DEF RequestCb
<1> DEFINE c == complete_request(x(q), q, err, final)
<1>2. proc.r = None /\ b \in Blkif /\ RingOK(b, << >>, kicking = r)
  BY <1>1, AtRest
<1>3. c \in Blkif /\ RingOK(c, << >>, ~final)
  <2> HIDE DEF b
  <2>1. LET z == complete_request([b EXCEPT !.queued = @ \ {q}], q, err, final)
        IN  z \in Blkif /\ z.ring = b.ring /\ RingOK(z, << >>, ~final)
    BY <1>1, <1>2, CallbackOK
  <2> QED BY <2>1
<1> HIDE DEF c
<1>4. r # None /\ ~final => kicking' = r
  BY <1>1
<1>5. RingOK(c, << >>, kicking' = r)
  BY <1>3, <1>4, KickOK, XenBlkifAssumption
<1>6. proc' = proc /\ proc \in Process /\ Work(proc, r) = << >> /\ proc.step = "idle"
  BY <1>1, AtRest DEF IInv, Types
<1>7. /\ kicking' \in Rings \cup {None} /\ \A s \in Rings \ {r} : kicking = s => kicking' = s
  BY <1>1, XenBlkifAssumption
<1>8. q \in Reqs /\ ring_masked' \in BOOLEAN
  BY <1>1, <1>2 DEF ctx_put, Blkif
<1>9. io' \in [Reqs -> {"none", "ok", "err"}]
  BY <1>1, <1>8 DEF IInv, Types
<1>10. blkif' = [blkif EXCEPT ![r] = c] /\ UNCHANGED <<vbd, low>> /\ proc.r \in {r, None}
  BY <1>1, <1>2 DEF c
<1>11. RingOK(c, Work(proc, r), kicking' = r)
  BY <1>5, <1>6
<1> QED BY <1>2, <1>3, <1>6, <1>7, <1>8, <1>9, <1>10, <1>11, StepOK

\* A new ring is in order.
LEMMA ConnectRing ==
  ASSUME NEW k
  PROVE  /\ [new_blkif EXCEPT !.state = "up"] \in Blkif
         /\ RingOK([new_blkif EXCEPT !.state = "up"], << >>, k)
<1> DEFINE c == [new_blkif EXCEPT !.state = "up"]
<1>1. new_blkif \in Blkif
  BY NewBlkif
<1>2. c \in Blkif
  BY <1>1 DEF Blkif
<1>3. /\ c.state = "up" /\ c.req_cons = 0 /\ c.rsp_prod = 0
      /\ c.free = RingSize /\ c.queued = {} /\ c.msg = None
  BY DEF new_blkif
<1>4. c.ring = << >> /\ c.rsp = << >>
  BY DEF new_blkif
<1> HIDE DEF c
<1>5. DOMAIN << >> = {} /\ Len(<< >>) = 0
  OBVIOUS
<1>6. Elems(<< >>) = {} /\ 1 .. 0 = {}
  BY <1>5 DEF Elems
<1>7. Fence(c) = {} /\ Taken(c) = {} /\ Ids(c) = {} /\ Active(c, << >>) = {}
  <2>1. DOMAIN c.rsp = {} /\ 1 .. c.req_cons = {}
    BY <1>3, <1>4, <1>5, <1>6
  <2> QED BY <1>3, <1>6, <2>1 DEF Fence, Taken, Ids, Active
<1>8. Indices(c)
  BY <1>3, <1>4, <1>5 DEF Indices
<1>9. Descriptors(c, {})
  <2>1. {} \cup Fence(c) = {}
    BY <1>7
  <2> QED BY <1>3, <1>7, <2>1, FS_EmptySet, XenBlkifAssumption DEF Descriptors
<1>10. OneBarrier(c, {}, {})
  BY <1>3, XenBlkifAssumption DEF OneBarrier
<1>11. Told(c, {}, k)
  <2>1. c.req_cons - Len(c.rsp) = RingSize - c.free
    <3>1. Len(c.rsp) = 0 /\ c.req_cons = 0 /\ c.free = RingSize /\ RingSize \in Nat
      BY <1>3, <1>4, <1>5, XenBlkifAssumption
    <3> QED BY <3>1
  <2>2. DOMAIN c.rsp = {} /\ 1 .. c.req_cons = {} /\ c.rsp_prod = Len(c.rsp)
    BY <1>3, <1>4, <1>5, <1>6
  <2> QED BY <1>7, <2>1, <2>2 DEF Told
<1>12. Company(c, {}, {})
  BY <1>3 DEF Company
<1>13. RingOK(c, << >>, k)
  BY <1>3, <1>5, <1>6, <1>7, <1>8, <1>9, <1>10, <1>11, <1>12 DEF RingOK, Ring
<1> QED BY <1>2, <1>13 DEF c

LEMMA ConnectOK ==
  ASSUME IInv, NEW r \in Rings, Connect(r)
  PROVE  IInv'
<1> DEFINE c == [new_blkif EXCEPT !.state = "up"]
<1>1. /\ proc.step = "idle" /\ blkif' = [blkif EXCEPT ![r] = c] /\ Rest
      /\ proc' = proc /\ ring_masked' = ring_masked
  BY DEF Connect, Ready, Rest
<1> HIDE DEF c
<1>2. proc.r = None /\ Work(proc, r) = << >> /\ proc \in Process /\ ring_masked' \in BOOLEAN
  BY <1>1, AtRest DEF IInv, Types
<1>3. c \in Blkif /\ RingOK(c, << >>, kicking = r)
  BY ConnectRing DEF c
<1>4. RingOK(c, Work(proc, r), kicking' = r)
  BY <1>1, <1>2, <1>3 DEF Rest
<1>5. /\ kicking' \in Rings \cup {None} /\ kicking' = kicking /\ UNCHANGED <<vbd, low>>
      /\ io' \in [Reqs -> {"none", "ok", "err"}]
  BY <1>1 DEF Rest, IInv, Types
<1> QED BY <1>1, <1>2, <1>3, <1>4, <1>5, StepOK

\* A ring with requests in flight dies with one of them in the VBD: the barrier
\* that waits has company.
LEMMA DisconnectRing ==
  ASSUME NEW b \in Blkif, NEW k, RingOK(b, << >>, k), b.state = "up"
  PROVE  LET c == IF reqs_pending(b) = 0 THEN destroy(b)
                  ELSE [b EXCEPT !.state = "dead", !.port = FALSE]
         IN  c \in Blkif /\ RingOK(c, << >>, k)
<1> DEFINE A == b.queued
           c == [b EXCEPT !.state = "dead", !.port = FALSE]
<1>1. CASE reqs_pending(b) = 0
  <2>1. destroy(b) \in Blkif /\ RingOK(destroy(b), << >>, k)
    BY NewBlkif DEF RingOK
  <2> QED BY <1>1, <2>1
<1>2. CASE reqs_pending(b) # 0
  <2>1. Elems(<< >>) = {} /\ DOMAIN << >> = {}
    BY DEF Elems
  <2>2. Active(b, << >>) = A
    BY <2>1 DEF Active
  <2>3. Ring(b, A, {}, k) /\ Company(b, A, {})
    BY <2>1, <2>2 DEF RingOK, Off
  <2>4. /\ c \in Blkif /\ c.state = "dead" /\ c.ring = b.ring /\ c.queued = b.queued
        /\ c.req_cons = b.req_cons /\ c.rsp = b.rsp /\ c.rsp_prod = b.rsp_prod
        /\ c.free = b.free /\ c.msg = b.msg /\ c.io_done = b.io_done
    BY DEF Blkif
  <2> HIDE DEF c
  <2>5. A # {}
    <3>1. A \cup Fence(b) # {}
      BY <1>2, <2>3, InUse DEF Ring
    <3> QED BY <2>3, <3>1 DEF Company, Fence
  <2>6. Fence(c) = Fence(b) /\ Taken(c) = Taken(b) /\ Active(c, << >>) = A
    BY <2>1, <2>4 DEF Fence, Taken, Active
  <2>7. c.queued = A
    BY <2>4
  <2> HIDE DEF A
  <2>8. Indices(c) /\ Told(c, A, k) /\ Company(c, A, {})
    BY <2>3, <2>4 DEF Ring, Indices, Told, Company
  <2>9. Descriptors(c, A)
    BY <2>3, <2>4, <2>6 DEF Ring, Descriptors
  <2>10. OneBarrier(c, A, {})
    BY <2>3, <2>4, <2>6 DEF Ring, OneBarrier
  <2>11. RingOK(c, << >>, k)
    BY <2>1, <2>4, <2>5, <2>6, <2>7, <2>8, <2>9, <2>10 DEF RingOK, Ring
  <2> QED BY <1>2, <2>4, <2>11 DEF c
<1> QED BY <1>1, <1>2

LEMMA DisconnectOK ==
  ASSUME IInv, NEW r \in Rings, Disconnect(r)
  PROVE  IInv'
<1> DEFINE b == blkif[r]
           c == IF reqs_pending(b) = 0 THEN destroy(b)
                ELSE [b EXCEPT !.state = "dead", !.port = FALSE]
<1>1. /\ proc.step = "idle" /\ blkif' = [blkif EXCEPT ![r] = c] /\ Rest
      /\ proc' = proc /\ ring_masked' \in BOOLEAN /\ b.state = "up"
  BY DEF Disconnect, Ready, Rest, ctx_put
<1>2. /\ proc.r = None /\ Work(proc, r) = << >> /\ proc \in Process /\ b \in Blkif
      /\ RingOK(b, << >>, kicking = r)
  BY <1>1, AtRest DEF IInv, Types
<1>3. c \in Blkif /\ RingOK(c, << >>, kicking = r)
  <2> HIDE DEF b
  <2> QED BY <1>1, <1>2, DisconnectRing
<1> HIDE DEF c
<1>4. RingOK(c, Work(proc, r), kicking' = r)
  BY <1>1, <1>2, <1>3 DEF Rest
<1>5. /\ kicking' \in Rings \cup {None} /\ kicking' = kicking /\ UNCHANGED <<vbd, low>>
      /\ io' \in [Reqs -> {"none", "ok", "err"}]
  BY <1>1 DEF Rest, IInv, Types
<1> QED BY <1>1, <1>2, <1>3, <1>4, <1>5, StepOK

\* Steps that change the events of several rings.
LEMMA EventsOK ==
  ASSUME IInv, proc.step = "idle", proc' = proc, kicking' = kicking, io' = io,
         blkif' \in [Rings -> Blkif], ring_masked' \in BOOLEAN, low' \in BOOLEAN,
         vbd' \in {"run", "pausing", "paused"},
         \A r \in Rings : blkif'[r] = blkif[r] \/ (r \in Up /\ Core(blkif[r], blkif'[r]))
  PROVE  IInv'
<1>1. Types'
  BY DEF IInv, Types
<1>2. Running(proc', blkif')
  BY DEF IInv, Running
<1>3. ASSUME NEW r \in Rings
      PROVE  RingOK(blkif'[r], Work(proc', r), kicking' = r)
  <2> DEFINE c == blkif'[r]
             b == blkif[r]
  <2>1. RingOK(b, Work(proc, r), kicking = r)
    BY DEF IInv
  <2>2. c = b \/ (b.state \in {"up", "dead"} /\ Core(b, c))
    BY DEF Up
  <2> HIDE DEF c, b
  <2>3. RingOK(c, Work(proc, r), kicking = r)
    BY <2>1, <2>2, CoreOK
  <2> QED BY <2>3 DEF c
<1> QED BY <1>1, <1>2, <1>3 DEF IInv

LEMMA Sigusr2OK ==
  ASSUME IInv, Sigusr2
  PROVE  IInv'
<1>1. /\ proc.step = "idle" /\ proc' = proc /\ kicking' = kicking /\ io' = io
      /\ ring_masked' \in BOOLEAN /\ low' \in BOOLEAN /\ vbd' \in {"run", "pausing", "paused"}
  BY DEF Sigusr2, Ready, IInv, Types
<1>2. /\ blkif' = [r \in Rings |-> IF r \in Up THEN start_polling(blkif[r]) ELSE blkif[r]]
      /\ blkif \in [Rings -> Blkif]
  BY DEF Sigusr2, IInv, Types
<1>3. \A r \in Rings : start_polling(blkif[r]) \in Blkif /\ Core(blkif[r], start_polling(blkif[r]))
  BY <1>2, EventFields
<1>4. blkif' \in [Rings -> Blkif]
  BY <1>2, <1>3
<1>5. \A r \in Rings : blkif'[r] = blkif[r] \/ (r \in Up /\ Core(blkif[r], blkif'[r]))
  BY <1>2, <1>3
<1> QED BY <1>1, <1>4, <1>5, EventsOK

LEMMA MaskOK ==
  ASSUME IInv, Ready, NEW m \in BOOLEAN, mask_rings(m), vbd' \in {"run", "pausing", "paused"},
         UNCHANGED <<proc, kicking, low, io>>
  PROVE  IInv'
<1>1. /\ proc.step = "idle" /\ proc' = proc /\ kicking' = kicking /\ io' = io
      /\ low' \in BOOLEAN
  BY DEF Ready, IInv, Types
<1>2. ring_masked' \in BOOLEAN
  BY DEF mask_rings, IInv, Types
<1>3. /\ blkif' = [r \in Rings |-> IF r \in Up THEN [blkif[r] EXCEPT !.masked = m] ELSE blkif[r]]
      /\ blkif \in [Rings -> Blkif]
  BY DEF mask_rings, IInv, Types
<1>4. ASSUME NEW r \in Rings
      PROVE  [blkif[r] EXCEPT !.masked = m] \in Blkif /\ Core(blkif[r], [blkif[r] EXCEPT !.masked = m])
  <2> DEFINE b == blkif[r]
  <2>1. b \in Blkif
    BY <1>3
  <2> HIDE DEF b
  <2>2. [b EXCEPT !.masked = m] \in Blkif /\ Core(b, [b EXCEPT !.masked = m])
    BY <2>1, EventFields
  <2> QED BY <2>2 DEF b
<1>5. blkif' \in [Rings -> Blkif]
  BY <1>3, <1>4
<1>6. \A r \in Rings : blkif'[r] = blkif[r] \/ (r \in Up /\ Core(blkif[r], blkif'[r]))
  BY <1>3, <1>4
<1> QED BY <1>1, <1>2, <1>5, <1>6, EventsOK

LEMMA InitOK == Init => IInv
<1> SUFFICES ASSUME Init PROVE IInv
  OBVIOUS
<1>1. Types
  BY NewBlkif, Idle DEF Init, Types
<1>2. Running(proc, blkif)
  BY Idle DEF Init, Running
<1>3. ASSUME NEW r \in Rings PROVE RingOK(blkif[r], Work(proc, r), kicking = r)
  <2>1. blkif[r] = new_blkif /\ Work(proc, r) = << >>
    BY Idle DEF Init
  <2> QED BY <2>1, NewBlkif DEF RingOK
<1> QED BY <1>1, <1>2, <1>3 DEF IInv

LEMMA NextOK == IInv /\ [Next]_vars => IInv'
<1> SUFFICES ASSUME IInv, [Next]_vars PROVE IInv'
  OBVIOUS
<1>1. CASE \E r \in Rings : \E q \in Reqs : Push(r, q)
  BY <1>1, PushOK
<1>2. CASE \E r \in Rings : RingEvent(r)
  BY <1>2, RingEventOK
<1>3. CASE \E r \in Rings : CheckRingEvent(r)
  BY <1>3, CheckRingEventOK
<1>4. CASE \E r \in Rings : StopPolling(r)
  BY <1>4, StopPollingOK
<1>5. CASE \E r \in Rings : RequestCb(r)
  BY <1>5, RequestCbOK
<1>6. CASE \E r \in Rings : Connect(r)
  BY <1>6, ConnectOK
<1>7. CASE \E r \in Rings : Disconnect(r)
  BY <1>7, DisconnectOK
<1>8. CASE CheckRing
  BY <1>8, CheckRingOK
<1>9. CASE RecheckRing
  BY <1>9, RecheckRingOK
<1>10. CASE QueueRequest
  BY <1>10, QueueRequestOK
<1>11. CASE QueueDone
  BY <1>11, QueueDoneOK
<1>12. CASE Sigusr2
  BY <1>12, Sigusr2OK
<1>13. CASE LowmemEvent \/ LowmemTimeout
  BY <1>13 DEF LowmemEvent, LowmemTimeout, IInv, Types
<1>14. CASE Pause("pausing") \/ Pause("paused")
  BY <1>14, MaskOK DEF Pause
<1>15. CASE Resume
  BY <1>15, MaskOK DEF Resume
<1>16. CASE UNCHANGED vars
  BY <1>16 DEF vars, IInv, Types
<1> QED BY <1>1, <1>2, <1>3, <1>4, <1>5, <1>6, <1>7, <1>8, <1>9, <1>10, <1>11, <1>12, <1>13,
           <1>14, <1>15, <1>16 DEF Next

\* What the invariant says of one ring.
LEMMA RingFacts ==
  ASSUME IInv, NEW r \in Rings
  PROVE  LET b == blkif[r]
         IN  /\ b \in Blkif /\ b.free \in 0 .. RingSize /\ b.req_cons <= Len(b.ring)
             /\ b.rsp_prod <= Len(b.rsp)
             /\ b.state = "dead" => b.queued # {}
             /\ b.state = "up" => \E A : Ring(b, A, Elems(Work(proc, r)) \cap Flushes, kicking = r)
<1> DEFINE b == blkif[r]
           A == Active(b, Work(proc, r))
           fl == Elems(Work(proc, r)) \cap Flushes
<1>1. b \in Blkif /\ RingOK(b, Work(proc, r), kicking = r)
  BY DEF IInv, Types
<1>2. CASE Off(b)
  <2>1. /\ b.free = RingSize /\ b.req_cons = 0 /\ b.rsp = << >> /\ b.rsp_prod = 0
        /\ b.state \notin {"up", "dead"}
    BY <1>2 DEF Off
  <2>2. Len(b.ring) \in Nat /\ Len(b.rsp) = 0
    BY <1>1, <2>1 DEF Blkif
  <2>3. b.free \in 0 .. RingSize
    BY <2>1, XenBlkifAssumption
  <2> QED BY <1>1, <2>1, <2>2, <2>3
<1>3. CASE ~Off(b)
  <2>1. Ring(b, A, fl, kicking = r) /\ (b.state = "dead" => b.queued # {})
    BY <1>1, <1>3 DEF RingOK
  <2>2. b.free \in 0 .. RingSize
    BY <1>1, <2>1, InUse DEF Ring
  <2>3. b.req_cons <= Len(b.ring) /\ b.rsp_prod <= Len(b.rsp)
    BY <2>1 DEF Ring, Indices
  <2> HIDE DEF A
  <2> QED BY <1>1, <2>1, <2>2, <2>3
<1> QED BY <1>2, <1>3

LEMMA Safe == IInv => RingSound /\ BarrierFence
<1> SUFFICES ASSUME IInv PROVE RingSound /\ BarrierFence
  OBVIOUS
<1>1. TypeOK
  <2>1. \A r \in Rings : /\ blkif[r].free \in 0 .. RingSize
                         /\ blkif[r].req_cons <= Len(blkif[r].ring)
                         /\ blkif[r].rsp_prod <= Len(blkif[r].rsp)
    BY RingFacts
  <2> QED BY <2>1 DEF IInv, Types, TypeOK
<1>2. DeadRingHeld
  BY RingFacts DEF DeadRingHeld
<1>3. ASSUME NEW r \in Up
      PROVE  LET b == blkif[r]
             IN  /\ reqs_pending(b) = b.req_cons - Len(b.rsp)
                 /\ \A k, m \in DOMAIN b.rsp : b.rsp[k].id = b.rsp[m].id => k = m
                 /\ \A k \in DOMAIN b.rsp : \E i \in 1 .. b.req_cons : b.ring[i] = b.rsp[k].id
                 /\ Ready /\ reqs_pending(b) = 0 => b.rsp_prod = Len(b.rsp)
                 /\ \A i \in DOMAIN b.ring : b.ring[i] \in BarrierOp =>
                       /\ responded(b, i) => \A j \in 1 .. i : responded(b, j)
                       /\ i <= b.req_cons /\ ~responded(b, i) => b.req_cons = i
  <2> DEFINE b == blkif[r]
             fl == Elems(Work(proc, r)) \cap Flushes
             k == kicking = r
  <2>1. r \in Rings /\ b.state = "up" /\ b \in Blkif
    BY DEF Up, IInv, Types
  <2>2. PICK A : Ring(b, A, fl, k)
    BY <2>1, RingFacts
  <2>3. Ready => ~k
    BY <2>1, XenBlkifAssumption DEF Ready
  <2> HIDE DEF b, fl, k
  <2>4. /\ b.req_cons - Len(b.rsp) = RingSize - b.free
        /\ \A i, j \in DOMAIN b.rsp : b.rsp[i].id = b.rsp[j].id => i = j
        /\ Taken(b) = A \cup Fence(b) \cup Ids(b) /\ Ids(b) \cap (A \cup Fence(b)) = {}
        /\ \A i \in 1 .. b.req_cons : b.ring[i] \in BarrierOp \cap Ids(b) =>
              \A j \in 1 .. i : b.ring[j] \in Ids(b)
        /\ b.rsp_prod = Len(b.rsp) \/ k \/ b.msg # None
    BY <2>1, <2>2 DEF Ring, Told
  <2>5. reqs_pending(b) = 0 => b.msg = None
    BY <2>1, <2>2, InUse DEF Ring, Fence
  <2>6. \A j : responded(b, j) <=> b.ring[j] \in Ids(b)
    BY DEF responded, Ids
  <2>7. \A m \in DOMAIN b.rsp : \E i \in 1 .. b.req_cons : b.ring[i] = b.rsp[m].id
    <3>1. Ids(b) \subseteq Taken(b)
      BY <2>4
    <3> QED BY <3>1 DEF Ids, Taken
  <2>8. b.req_cons \in Nat /\ DOMAIN b.ring = 1 .. Len(b.ring) /\ Len(b.ring) \in Nat
        /\ b.req_cons <= Len(b.ring)
    BY <2>1, <2>2 DEF Blkif, Ring, Indices
  <2>9. ASSUME NEW i \in DOMAIN b.ring, b.ring[i] \in BarrierOp, responded(b, i)
        PROVE  \A j \in 1 .. i : responded(b, j)
    <3>1. PICK m \in DOMAIN b.rsp : b.rsp[m].id = b.ring[i]
      BY <2>9 DEF responded
    <3>2. PICK h \in 1 .. b.req_cons : b.ring[h] = b.ring[i]
      BY <2>7, <3>1
    <3>3. h \in DOMAIN b.ring
      BY <2>8
    <3>4. h = i
      BY <2>2, <3>2, <3>3 DEF Ring, Indices
    <3> QED BY <2>4, <2>6, <2>9, <3>2, <3>4
  <2>10. ASSUME NEW i \in DOMAIN b.ring, b.ring[i] \in BarrierOp, i <= b.req_cons, ~responded(b, i)
         PROVE  b.req_cons = i
    <3>1. i \in 1 .. b.req_cons /\ b.req_cons \in DOMAIN b.ring
      BY <2>8, <2>10
    <3>2. b.ring[i] \in A \cup Fence(b)
      BY <2>4, <2>6, <2>10, <3>1 DEF Taken
    <3>3. b.ring[i] = b.msg /\ b.msg # None
      <4>1. CASE b.ring[i] \in A
        BY <2>2, <2>10, <4>1, XenBlkifAssumption DEF Ring, Descriptors, OneBarrier, BarrierOp
      <4>2. CASE b.ring[i] \in Fence(b)
        BY <4>2 DEF Fence
      <4> QED BY <3>2, <4>1, <4>2
    <3>4. b.ring[b.req_cons] = b.ring[i]
      BY <2>2, <3>3 DEF Ring, OneBarrier
    <3> QED BY <2>2, <3>1, <3>4 DEF Ring, Indices
  <2>11. reqs_pending(b) = b.req_cons - Len(b.rsp)
    BY <2>4 DEF reqs_pending
  <2>12. Ready /\ reqs_pending(b) = 0 => b.rsp_prod = Len(b.rsp)
    BY <2>3, <2>4, <2>5
  <2> QED BY <2>4, <2>7, <2>9, <2>10, <2>11, <2>12 DEF b
<1>4. AnsweredOnce
  BY <1>3 DEF AnsweredOnce
<1>5. NoStrandedAnswer
  BY <1>3 DEF NoStrandedAnswer
<1>6. BarrierFence
  BY <1>3 DEF BarrierFence
<1> QED BY <1>1, <1>2, <1>4, <1>5, <1>6 DEF RingSound

-----------------------------------------------------------------------------
(* The theorems *)

\* Every request of a ring is answered once (complete_request retires it once,
\* from whichever of its three callers), no answer is left unpublished in an
\* idle ring, the descriptors stay within the ring, and a ring that died with
\* requests in flight is held by one of them in the VBD.
THEOREM RingsAreSound == Spec => []RingSound
<1>1. Spec => []IInv
  BY InitOK, NextOK, PTL DEF Spec
<1> QED BY <1>1, Safe, PTL

\* process_ring stops at a barrier and complete_request holds it back: it is
\* answered after everything before it, and nothing behind it is taken until
\* then.
THEOREM BarriersAreFences == Spec => []BarrierFence
<1>1. Spec => []IInv
  BY InitOK, NextOK, PTL DEF Spec
<1> QED BY <1>1, Safe, PTL
-----------------------------------------------------------------------------
(* What the guest is told is true *)

\* An answer more.
LEMMA HonestRetire ==
  ASSUME NEW b \in Blkif, NEW q \in Reqs, NEW err \in BOOLEAN, NEW final \in BOOLEAN, NEW o,
         Honest(b, o), ~err <=> (q \in Flushes \/ o[q] = "ok")
  PROVE  Honest(retire(b, q, err, final), o)
<1> DEFINE c == retire(b, q, err, final)
           e == [id |-> q, status |-> Status(err)]
<1>1. /\ c \in Blkif /\ c.state = b.state /\ c.ring = b.ring /\ c.req_cons = b.req_cons
      /\ c.queued = b.queued /\ c.io_done = b.io_done /\ c.free = b.free + 1
      /\ c.msg = (IF q \in BarrierOp THEN None ELSE b.msg)
      /\ b.state = "dead" => c.rsp = b.rsp /\ c.rsp_prod = b.rsp_prod
      /\ b.state # "dead" => /\ c.rsp = Append(b.rsp, e)
                             /\ c.rsp_prod = (IF final THEN Len(c.rsp) ELSE b.rsp_prod)
  BY RetireFields
<1>2. e.id = q /\ (e.status = "OKAY" <=> ~err)
  BY DEF Status
<1> HIDE DEF c, e
<1>3. SUFFICES ASSUME b.state = "up" PROVE Honest(c, o)
  BY <1>1 DEF Honest, c
<1>4. \A k \in DOMAIN c.rsp : (k \in DOMAIN b.rsp /\ c.rsp[k] = b.rsp[k]) \/ c.rsp[k] = e
  <2>1. c.rsp = Append(b.rsp, e) /\ b.rsp \in Seq(Response)
    BY <1>1, <1>3 DEF Blkif
  <2> QED BY <2>1
<1>5. \A k \in DOMAIN c.rsp :
         c.rsp[k].status = "OKAY" <=> (c.rsp[k].id \in Flushes \/ o[c.rsp[k].id] = "ok")
  BY <1>2, <1>3, <1>4 DEF Honest
<1>6. c.msg \in Barriers /\ c.io_done => o[c.msg] = "ok"
  BY <1>1, <1>3, XenBlkifAssumption DEF Honest
<1> QED BY <1>5, <1>6 DEF Honest

\* Nothing is said, and no barrier's I/O has ended.
Quiet(b, c) ==
    /\ c.state = b.state /\ c.ring = b.ring /\ c.rsp = b.rsp
    /\ (c.msg = b.msg /\ c.io_done = b.io_done) \/ ~c.io_done

LEMMA HonestQuiet ==
  ASSUME NEW b, NEW c, NEW o, Honest(b, o), Quiet(b, c)
  PROVE  Honest(c, o)
BY DEF Honest, Quiet

LEMMA CoreQuiet ==
  ASSUME NEW a, NEW b, NEW c, Core(b, c)
  PROVE  /\ Quiet(b, c)
         /\ Quiet(a, b) => Quiet(a, c)
BY DEF Core, Quiet

LEMMA HonestRelease ==
  ASSUME NEW b \in Blkif, NEW o, Honest(b, o), b.msg # None => b.msg \in BarrierOp
  PROVE  Honest(release(b), o)
<1>1. ASSUME NEW c \in Blkif, Honest(c, o) PROVE Honest(reap(c), o)
  <2>1. destroy(c).state = "gone"
    BY NewBlkif
  <2> QED BY <1>1, <2>1 DEF Honest, reap
<1>2. ASSUME NEW c \in Blkif, Honest(c, o) PROVE sched_chkrng(c) \in Blkif /\ Honest(sched_chkrng(c), o)
  BY <1>2, SchedFields, CoreQuiet, HonestQuiet
<1>3. CASE b.msg = None
  <2>1. release(b) = reap(sched_chkrng(b))
    BY <1>3 DEF release
  <2> QED BY <1>1, <1>2, <2>1
<1>4. CASE b.msg # None /\ ~barrier_should_complete(b)
  <2>1. release(b) = reap(b)
    BY <1>4 DEF release
  <2> QED BY <1>1, <2>1
<1>5. CASE b.msg # None /\ barrier_should_complete(b)
  <2> DEFINE q == b.msg
             c == retire(b, q, FALSE, TRUE)
  <2>1. release(b) = reap(sched_chkrng(c)) /\ q \in Reqs
    BY <1>5 DEF release, Blkif
  <2>2. c \in Blkif /\ c.state = b.state
    BY <2>1, RetireFields
  <2>3. CASE b.state # "up"
    <3>1. Honest(c, o)
      BY <2>2, <2>3 DEF Honest
    <3> HIDE DEF c
    <3> QED BY <1>1, <1>2, <2>1, <2>2, <3>1
  <2>4. CASE b.state = "up" /\ (q \in Flushes \/ q \in Barriers)
    <3>1. q \in Flushes \/ o[q] = "ok"
      BY <1>5, <2>4 DEF barrier_should_complete, Honest
    <3> HIDE DEF q
    <3>2. Honest(c, o)
      BY <2>1, <3>1, HonestRetire
    <3> HIDE DEF c
    <3> QED BY <1>1, <1>2, <2>1, <2>2, <3>2
  <2> QED BY <1>5, <2>3, <2>4 DEF BarrierOp
<1> QED BY <1>3, <1>4, <1>5

\* complete_request, of a request whose I/O has ended: err is what became of it.
LEMMA HonestComplete ==
  ASSUME NEW b \in Blkif, NEW A, NEW fl, NEW k, Ring(b, A, fl, k), b.state \in {"up", "dead"},
         NEW q \in A, NEW err \in BOOLEAN, NEW final \in BOOLEAN, err => q \notin Barriers,
         NEW o \in [Reqs -> {"none", "ok", "err"}], Honest(b, o)
  PROVE  Honest(complete_request(b, q, err, final), [o EXCEPT ![q] = IF err THEN "err" ELSE "ok"])
<1> DEFINE w == [o EXCEPT ![q] = IF err THEN "err" ELSE "ok"]
           x == [b EXCEPT !.io_done = TRUE]
<1>1. /\ q \in Reqs /\ q \notin Flushes /\ q \in Taken(b)
      /\ b.msg # None => b.msg \in BarrierOp
      /\ q \in Barriers => q = b.msg
  BY DEF Ring, Descriptors, OneBarrier
<1>2. (~err <=> w[q] = "ok") /\ \A z : z # q => w[z] = o[z]
  BY <1>1
<1> HIDE DEF w
<1>3. ASSUME b.state = "up"
      PROVE  \A j \in DOMAIN b.rsp : b.rsp[j].id # q
  <2>1. q \notin Ids(b)
    BY <1>3 DEF Ring, Told
  <2> QED BY <2>1 DEF Ids
<1>4. CASE q \notin BarrierOp
  <2>1. b.msg # q
    BY <1>1, <1>4, XenBlkifAssumption
  <2>2. Honest(b, w)
    BY <1>2, <1>3, <2>1 DEF Honest
  <2> DEFINE c == retire(b, q, err, final)
  <2>3. Honest(c, w)
    BY <1>1, <1>2, <2>2, HonestRetire
  <2>4. c \in Blkif /\ c.msg = b.msg
    BY <1>1, <1>4, RetireSame
  <2>5. complete_request(b, q, err, final) = release(c)
    BY <1>4 DEF complete_request, BarrierOp
  <2> HIDE DEF c
  <2>6. Honest(release(c), w)
    BY <1>1, <2>3, <2>4, HonestRelease
  <2> QED BY <2>5, <2>6 DEF w
<1>5. CASE q \in BarrierOp
  <2>1. q \in Barriers /\ q = b.msg /\ ~err /\ w[q] = "ok"
    BY <1>1, <1>2, <1>5 DEF BarrierOp
  <2>2. /\ x \in Blkif /\ x.state = b.state /\ x.msg = b.msg /\ x.rsp = b.rsp
    BY DEF Blkif
  <2>3. complete_request(b, q, err, final) =
           IF ~barrier_should_complete(x) THEN x ELSE release(retire(x, q, FALSE, final))
    BY <1>5, <2>1 DEF complete_request
  <2> HIDE DEF x
  <2>4. Honest(x, w)
    BY <1>2, <1>3, <2>1, <2>2 DEF Honest
  <2> DEFINE c == retire(x, q, FALSE, final)
  <2>5. Honest(c, w)
    BY <1>1, <2>1, <2>2, <2>4, HonestRetire
  <2>6. c \in Blkif /\ c.msg = None
    BY <1>1, <1>5, <2>2, RetireFields, ZenonT(40)
  <2> HIDE DEF c
  <2>7. Honest(release(c), w)
    BY <2>5, <2>6, HonestRelease
  <2>8. complete_request(b, q, err, final) = x \/ complete_request(b, q, err, final) = release(c)
    BY <2>3 DEF c
  <2> QED BY <2>4, <2>7, <2>8 DEF w
<1> QED BY <1>4, <1>5

\* queue_request.
LEMMA HonestQueue ==
  ASSUME Faulty \cap Barriers = {},
         NEW b \in Blkif, NEW got \in Seq(Reqs), got # << >>, NEW k, RingOK(b, got, k),
         NEW err \in BOOLEAN, err => Head(got) \in Faulty,
         NEW o \in [Reqs -> {"none", "ok", "err"}], Honest(b, o)
  PROVE  Honest(queue_request(b, Head(got), err), IF err THEN [o EXCEPT ![Head(got)] = "err"] ELSE o)
<1> DEFINE q == Head(got)
           A == Active(b, got)
           fl == Elems(got) \cap Flushes
<1>1. /\ b.state \in {"up", "dead"} /\ Ring(b, A, fl, k)
      /\ \A i, j \in DOMAIN got : got[i] = got[j] => i = j
  BY DEF RingOK
<1>2. q \in Reqs /\ q \in Elems(got)
  BY <1>1, HeadTail
<1> HIDE DEF q, fl
<1>3. CASE err
  <2>1. q \notin Flushes /\ q \in A /\ q \notin Barriers
    BY <1>2, <1>3, XenBlkifAssumption DEF Active, q
  <2> HIDE DEF A
  <2>2. Honest(complete_request(b, q, TRUE, TRUE), [o EXCEPT ![q] = IF TRUE THEN "err" ELSE "ok"])
    BY <1>1, <2>1, HonestComplete
  <2>3. queue_request(b, q, err) = complete_request(b, q, TRUE, TRUE)
    BY <1>3 DEF queue_request
  <2>4. Honest(queue_request(b, q, err), [o EXCEPT ![q] = "err"])
    BY <2>2, <2>3
  <2> QED BY <1>3, <2>4 DEF q
<1>4. CASE ~err /\ q \notin Flushes
  <2> DEFINE c == [b EXCEPT !.queued = @ \cup {q}]
  <2>1. c.state = b.state /\ c.ring = b.ring /\ c.rsp = b.rsp /\ c.msg = b.msg /\ c.io_done = b.io_done
    BY DEF Blkif
  <2>2. queue_request(b, q, err) = c
    BY <1>4 DEF queue_request
  <2> HIDE DEF c
  <2>3. Honest(c, o)
    BY <2>1, HonestQuiet DEF Quiet
  <2> QED BY <1>4, <2>2, <2>3 DEF q
<1>5. CASE ~err /\ q \in Flushes
  <2>1. CASE barrier_should_complete(b)
    <3> DEFINE m == b.msg
               c == retire(b, m, FALSE, TRUE)
    <3>1. m = q
      BY <1>1, <1>2, <1>5, <2>1 DEF barrier_should_complete, Ring, OneBarrier, fl
    <3>2. queue_request(b, q, err) = release(c)
      BY <1>5, <2>1, <3>1, XenBlkifAssumption DEF queue_request, complete_request
    <3>3. m \in Reqs /\ m \in Flushes /\ m \in BarrierOp
      BY <1>2, <1>5, <3>1 DEF BarrierOp
    <3> HIDE DEF m
    <3>4. Honest(c, o)
      BY <3>3, HonestRetire
    <3>5. c \in Blkif /\ c.msg = None
      BY <3>3, RetireFields
    <3> HIDE DEF c
    <3>6. Honest(release(c), o)
      BY <3>4, <3>5, HonestRelease
    <3> QED BY <1>5, <3>2, <3>6 DEF q
  <2>2. CASE ~barrier_should_complete(b)
    <3>1. queue_request(b, q, err) = b
      BY <1>5, <2>2 DEF queue_request
    <3> QED BY <1>5, <3>1 DEF q
  <2> QED BY <2>1, <2>2
<1> QED BY <1>3, <1>4, <1>5
\* The rings of IInv: what has been said in one is in the ring.
LEMMA SaidInRing ==
  ASSUME IInv, NEW r \in Rings, blkif[r].state = "up"
  PROVE  /\ \A k \in DOMAIN blkif[r].rsp : blkif[r].rsp[k].id \in Elems(blkif[r].ring)
         /\ blkif[r].msg # None => blkif[r].msg \in Elems(blkif[r].ring)
<1> DEFINE b == blkif[r]
<1>1. b \in Blkif
  BY DEF IInv, Types
<1>2. PICK A : Ring(b, A, Elems(Work(proc, r)) \cap Flushes, kicking = r)
  BY RingFacts
<1>3. Taken(b) = A \cup Fence(b) \cup Ids(b) /\ b.state = "up"
  BY <1>2 DEF Ring, Told
<1>4. b.req_cons \in Nat /\ DOMAIN b.ring = 1 .. Len(b.ring) /\ b.req_cons <= Len(b.ring)
      /\ Len(b.ring) \in Nat
  BY <1>1, <1>2 DEF Ring, Indices, Blkif
<1> HIDE DEF b
<1>5. \A i \in 1 .. b.req_cons : i \in DOMAIN b.ring
  BY <1>4
<1>6. Taken(b) \subseteq Elems(b.ring)
  BY <1>5 DEF Taken, Elems
<1>7. \A k \in DOMAIN b.rsp : b.rsp[k].id \in Elems(b.ring)
  BY <1>3, <1>6 DEF Ids
<1>8. b.msg # None => b.msg \in Elems(b.ring)
  BY <1>3, <1>6 DEF Fence
<1> QED BY <1>7, <1>8 DEF b

\* A step of one ring, which tells the truth of its own requests.
LEMMA HonestStep ==
  ASSUME IInv, HonestInv, NEW r \in Rings, NEW b \in Blkif, blkif' = [blkif EXCEPT ![r] = b],
         Elems(b.ring) \subseteq Elems(blkif[r].ring), Honest(b, io'),
         \A q \in Reqs : q \notin Elems(blkif[r].ring) => io'[q] = io[q]
  PROVE  HonestInv'
<1>1. blkif \in [Rings -> Blkif]
  BY DEF IInv, Types
<1>2. blkif'[r] = b /\ \A s \in Rings \ {r} : blkif'[s] = blkif[s]
  BY <1>1
<1>3. Separate'
  <2>1. \A s \in Rings : Elems(blkif'[s].ring) \subseteq Elems(blkif[s].ring)
    BY <1>2
  <2>2. \A s, t \in Rings : s # t => Elems(blkif[s].ring) \cap Elems(blkif[t].ring) = {}
    BY DEF HonestInv, Separate
  <2>3. \A s, t \in Rings : s # t => Elems(blkif'[s].ring) \cap Elems(blkif'[t].ring) = {}
    BY <2>1, <2>2
  <2> QED BY <2>3 DEF Separate
<1>4. ASSUME NEW s \in Rings PROVE Honest(blkif'[s], io')
  <2>1. CASE s = r
    BY <1>2, <2>1
  <2>2. CASE s # r
    <3> DEFINE c == blkif[s]
               o == io'
    <3>1. Elems(c.ring) \cap Elems(blkif[r].ring) = {} /\ Honest(c, io)
      BY <2>2 DEF HonestInv, Separate
    <3>2. SUFFICES ASSUME c.state = "up" PROVE Honest(c, o)
      BY <1>2, <2>2 DEF Honest
    <3>3. /\ \A k \in DOMAIN c.rsp : c.rsp[k].id \in Elems(c.ring)
          /\ c.msg # None => c.msg \in Elems(c.ring)
      BY <3>2, SaidInRing
    <3>4. c.rsp \in Seq(Response) /\ c.msg \in Reqs \cup {None} /\ \A k \in DOMAIN c.rsp : c.rsp[k].id \in Reqs
      <4>1. c.rsp \in Seq(Response) /\ c.msg \in Reqs \cup {None}
        BY <1>1 DEF Blkif
      <4>2. \A k \in DOMAIN c.rsp : c.rsp[k] \in Response
        BY <4>1
      <4> QED BY <4>1, <4>2 DEF Response
    <3>5. \A q \in Reqs \cap Elems(c.ring) : o[q] = io[q]
      BY <3>1
    <3> HIDE DEF c, o
    <3>6. \A k \in DOMAIN c.rsp : o[c.rsp[k].id] = io[c.rsp[k].id]
      BY <3>3, <3>4, <3>5
    <3>7. c.msg # None => o[c.msg] = io[c.msg]
      BY <3>3, <3>4, <3>5
    <3> QED BY <3>1, <3>2, <3>6, <3>7, XenBlkifAssumption DEF Honest
  <2> QED BY <2>1, <2>2
<1> QED BY <1>3, <1>4 DEF HonestInv

LEMMA QuietStep ==
  ASSUME IInv, HonestInv, NEW r \in Rings, NEW b \in Blkif, blkif' = [blkif EXCEPT ![r] = b],
         Quiet(blkif[r], b), io' = io
  PROVE  HonestInv'
<1>1. Honest(blkif[r], io)
  BY DEF HonestInv
<1>2. Honest(b, io')
  BY <1>1, HonestQuiet
<1>3. Elems(b.ring) \subseteq Elems(blkif[r].ring) /\ \A q \in Reqs : io'[q] = io[q]
  BY DEF Quiet
<1> QED BY <1>2, <1>3, HonestStep

LEMMA QuietReturn0 ==
  ASSUME NEW r, NEW b \in Blkif, NEW caller, Return0(r, b, caller)
  PROVE  \E c \in Blkif : blkif' = [blkif EXCEPT ![r] = c] /\ Core(b, c)
<1>1. CASE caller = "stoppolling"
  <2> DEFINE c == [b EXCEPT !.polling = FALSE, !.chkrng = FALSE, !.stop = FALSE]
  <2>1. blkif' = [blkif EXCEPT ![r] = c]
    BY <1>1 DEF Return0
  <2>2. c \in Blkif /\ Core(b, c)
    BY EventFields
  <2> HIDE DEF c
  <2> QED BY <2>1, <2>2
<1>2. CASE caller # "stoppolling"
  BY <1>2 DEF Return0, Core
<1> QED BY <1>1, <1>2

LEMMA QuietCollected ==
  ASSUME NEW b \in Blkif, NEW p, Collected(b, p)
  PROVE  \E c \in Blkif : blkif' = [blkif EXCEPT ![p.r] = c] /\ Core(b, c)
<1>1. CASE p.got = << >>
  <2>1. Return0(p.r, b, p.caller)
    BY <1>1 DEF Collected
  <2> QED BY <2>1, QuietReturn0
<1>2. CASE p.got # << >>
  <2>1. PICK c \in {b, [b EXCEPT !.stop = TRUE], start_polling(b)} : blkif' = [blkif EXCEPT ![p.r] = c]
    BY <1>2 DEF Collected
  <2>2. c \in Blkif /\ Core(b, c)
    <3>1. Core(b, b)
      BY DEF Core
    <3> QED BY <2>1, <3>1, EventFields
  <2> QED BY <2>1, <2>2
<1> QED BY <1>1, <1>2

LEMMA QuietNextPass ==
  ASSUME NEW b \in Blkif, NextPass(b)
  PROVE  \E c \in Blkif : blkif' = [blkif EXCEPT ![proc.r] = c] /\ Core(b, c)
<1>1. CASE proc.pass
  BY <1>1 DEF NextPass, Core
<1>2. CASE ~proc.pass
  BY <1>2, QuietCollected DEF NextPass
<1> QED BY <1>1, <1>2

LEMMA QuietTake ==
  ASSUME IInv, proc.step \in {"check", "recheck"}, unconsumed(blkif[proc.r]) > 0, Take(blkif[proc.r])
  PROVE  \E c \in Blkif : blkif' = [blkif EXCEPT ![proc.r] = c] /\ Quiet(blkif[proc.r], c)
<1> DEFINE r == proc.r
           b == blkif[r]
           n == batch(b)
           cons == b.req_cons + n
           last == b.ring[cons]
           g == proc.got \o SubSeq(b.ring, b.req_cons + 1, cons)
           c == [b EXCEPT !.req_cons = cons, !.free = b.free - n]
           d == [c EXCEPT !.msg = last, !.io_done = FALSE]
           v == [proc EXCEPT !.step = "check", !.pass = TRUE, !.limit = proc.limit - n, !.got = g]
<1>1. /\ proc \in Process /\ r \in Rings /\ b \in Blkif
      /\ proc.limit \in 0 .. b.free /\ proc.limit \in Int
  BY Looking
<1>2. CASE proc.limit = 0
  <2>1. NextPass(b)
    BY <1>2 DEF Take
  <2> QED BY <1>1, <2>1, QuietNextPass, CoreQuiet
<1>3. CASE proc.limit # 0
  <2>1. b.req_cons \in Nat /\ b.free \in Int /\ Len(b.ring) \in Nat /\ Len(b.rsp) \in Nat
        /\ b.ring \in Seq(Reqs)
    BY <1>1 DEF Blkif
  <2>2. b.req_cons < Len(b.ring)
    <3> DEFINE x == Len(b.ring) - b.req_cons
               y == RingSize - (b.req_cons - Len(b.rsp))
    <3>1. x \in Int /\ y \in Int /\ (IF x < y THEN x ELSE y) > 0
      BY <2>1, XenBlkifAssumption DEF unconsumed
    <3> HIDE DEF y
    <3>2. x > 0
      BY <3>1
    <3> QED BY <2>1, <3>2
  <2>3. proc.limit \in Nat \ {0}
    BY <1>1, <1>3
  <2>4. n \in 1 .. proc.limit /\ cons <= Len(b.ring)
    BY <1>1, <2>2, <2>3, BatchFacts
  <2>5. IF last \in BarrierOp
        THEN Collected(d, v)
        ELSE blkif' = [blkif EXCEPT ![r] = c]
    BY <1>3 DEF Take
  <2> HIDE DEF n
  <2>6. cons \in Nat /\ b.free - n \in Int /\ cons \in 1 .. Len(b.ring)
    BY <1>1, <2>1, <2>3, <2>4
  <2>7. last \in Reqs
    BY <2>1, <2>6
  <2> HIDE DEF cons, last, b, g
  <2>8. /\ c \in Blkif /\ c.state = b.state /\ c.ring = b.ring /\ c.rsp = b.rsp
        /\ c.msg = b.msg /\ c.io_done = b.io_done
    BY <1>1, <2>6 DEF Blkif
  <2> HIDE DEF c
  <2>9. /\ d \in Blkif /\ d.state = b.state /\ d.ring = b.ring /\ d.rsp = b.rsp /\ d.io_done = FALSE
    BY <2>7, <2>8 DEF Blkif
  <2>10. v.r = r
    BY <1>1 DEF Process
  <2> HIDE DEF d, v
  <2>11. Quiet(b, c) /\ Quiet(b, d)
    BY <2>8, <2>9 DEF Quiet
  <2>12. CASE last \notin BarrierOp
    BY <2>5, <2>8, <2>11, <2>12 DEF b
  <2>13. CASE last \in BarrierOp
    <3>1. PICK z \in Blkif : blkif' = [blkif EXCEPT ![v.r] = z] /\ Core(d, z)
      BY <2>5, <2>9, <2>13, QuietCollected
    <3>2. Quiet(b, z)
      BY <2>11, <3>1, CoreQuiet
    <3> QED BY <2>10, <3>1, <3>2 DEF b
  <2> QED BY <2>12, <2>13
<1> QED BY <1>2, <1>3

\* process_ring and the events that start it say nothing.
LEMMA QuietProcess ==
  ASSUME IInv, NEW r \in Rings, NEW b \in Blkif, Core(blkif[r], b), NEW final, NEW caller,
         ProcessRing(r, b, final, caller)
  PROVE  \E c \in Blkif : blkif' = [blkif EXCEPT ![r] = c] /\ Quiet(blkif[r], c)
<1>1. Quiet(blkif[r], b)
  BY CoreQuiet
<1>2. CASE b.msg # None
  <2>1. Return0(r, b, caller)
    BY <1>2 DEF ProcessRing
  <2> QED BY <1>1, <2>1, QuietReturn0, CoreQuiet
<1>3. CASE b.msg = None
  BY <1>1, <1>3 DEF ProcessRing
<1> QED BY <1>2, <1>3

LEMMA QuietEvents ==
  ASSUME IInv, HonestInv, NEW r \in Rings, RingEvent(r) \/ CheckRingEvent(r) \/ StopPolling(r)
  PROVE  HonestInv'
<1> DEFINE b == blkif[r]
<1>1. b \in Blkif
  BY DEF IInv, Types
<1>2. io' = io
  BY DEF RingEvent, CheckRingEvent, StopPolling
<1>3. \E c \in Blkif : blkif' = [blkif EXCEPT ![r] = c] /\ Quiet(blkif[r], c)
  <2>1. CASE RingEvent(r)
    <3> DEFINE d == [b EXCEPT !.port = FALSE]
    <3>1. ProcessRing(r, d, FALSE, "event")
      BY <2>1 DEF RingEvent
    <3>2. d \in Blkif /\ Core(blkif[r], d)
      BY <1>1, EventFields
    <3> HIDE DEF d
    <3> QED BY <3>1, <3>2, QuietProcess
  <2>2. CASE CheckRingEvent(r)
    <3> DEFINE d == [b EXCEPT !.chkrng = b.polling]
               f == ~b.polling
    <3>1. ProcessRing(r, d, f, "chkrng")
      BY <2>2 DEF CheckRingEvent
    <3>2. d \in Blkif /\ Core(blkif[r], d)
      <4> HIDE DEF b
      <4>1. d \in Blkif /\ Core(b, d)
        BY <1>1, EventFields
      <4> QED BY <4>1 DEF b
    <3> HIDE DEF d, f
    <3> QED BY <3>1, <3>2, QuietProcess
  <2>3. CASE StopPolling(r)
    <3>1. ProcessRing(r, b, TRUE, "stoppolling") /\ Core(blkif[r], b)
      BY <2>3 DEF StopPolling, Core
    <3> QED BY <1>1, <3>1, QuietProcess
  <2> QED BY <2>1, <2>2, <2>3
<1> QED BY <1>2, <1>3, QuietStep

LEMMA QuietChecks ==
  ASSUME IInv, HonestInv, CheckRing \/ RecheckRing
  PROVE  HonestInv'
<1> DEFINE r == proc.r
           b == blkif[r]
<1>1. proc.step \in {"check", "recheck"} /\ io' = io
  BY DEF CheckRing, RecheckRing
<1>2. r \in Rings /\ b \in Blkif
  BY <1>1, Looking
<1>3. \E c \in Blkif : blkif' = [blkif EXCEPT ![r] = c] /\ Quiet(b, c)
  <2>1. CASE unconsumed(b) > 0 /\ Take(b)
    BY <1>1, <2>1, QuietTake
  <2>2. CASE NextPass(b)
    BY <1>2, <2>2, QuietNextPass, CoreQuiet
  <2>3. CASE blkif' = [blkif EXCEPT ![proc.r].req_event = b.req_cons + 1]
    <3> DEFINE n == b.req_cons + 1
               c == [b EXCEPT !.req_event = n]
    <3>1. n \in Nat
      BY <1>2, SMTT(30) DEF Blkif
    <3>2. blkif' = [blkif EXCEPT ![r] = c]
      BY <2>3 DEF IInv, Types
    <3> HIDE DEF n, b
    <3>3. c \in Blkif /\ Core(b, c)
      BY <1>2, <3>1, EventFields
    <3> HIDE DEF c
    <3> QED BY <3>2, <3>3, CoreQuiet
  <2> QED BY <2>1, <2>2, <2>3 DEF CheckRing, RecheckRing
<1> QED BY <1>1, <1>2, <1>3, QuietStep
LEMMA HonestPush ==
  ASSUME IInv, HonestInv, NEW r \in Rings, NEW q \in Reqs, Push(r, q)
  PROVE  HonestInv'
<1> DEFINE b == blkif[r]
           m == b.port \/ b.req_event = Len(b.ring) + 1
           s == Append(b.ring, q)
           c == [b EXCEPT !.ring = s, !.port = m]
<1>1. b \in Blkif /\ blkif \in [Rings -> Blkif] /\ q \notin Used /\ io' = io
  BY DEF IInv, Types, Push
<1>2. blkif' = [blkif EXCEPT ![r] = c]
  BY <1>1 DEF Push
<1>3. s \in Seq(Reqs) /\ Elems(s) = Elems(b.ring) \cup {q}
  <2>1. b.ring \in Seq(Reqs)
    BY <1>1 DEF Blkif
  <2> DEFINE t == b.ring
             l == Len(t)
  <2>2. /\ DOMAIN s = 1 .. l + 1 /\ DOMAIN t = 1 .. l /\ l \in Nat /\ s[l + 1] = q
        /\ \A i \in 1 .. l : s[i] = t[i]
    BY <2>1
  <2>3. s \in Seq(Reqs)
    BY <2>1
  <2> HIDE DEF s, t, l
  <2>4. \A i \in DOMAIN s : i = l + 1 \/ i \in DOMAIN t
    BY <2>2
  <2>5. l + 1 \in DOMAIN s /\ \A i \in DOMAIN t : i \in DOMAIN s /\ s[i] = t[i]
    BY <2>2
  <2>6. Elems(s) = Elems(t) \cup {q}
    BY <2>2, <2>4, <2>5 DEF Elems
  <2> QED BY <2>3, <2>6 DEF t
<1> HIDE DEF s, m
<1>4. /\ c.state = b.state /\ c.ring = s /\ c.rsp = b.rsp /\ c.msg = b.msg /\ c.io_done = b.io_done
  BY <1>1 DEF Blkif
<1> HIDE DEF c
<1>5. blkif'[r] = c /\ \A t \in Rings \ {r} : blkif'[t] = blkif[t]
  BY <1>1, <1>2
<1>6. Separate'
  <2>1. \A t \in Rings : q \notin Elems(blkif[t].ring)
    BY <1>1 DEF Used
  <2>2. \A t, u \in Rings : t # u => Elems(blkif[t].ring) \cap Elems(blkif[u].ring) = {}
    BY DEF HonestInv, Separate
  <2>3. Elems(blkif'[r].ring) = Elems(blkif[r].ring) \cup {q}
    BY <1>3, <1>4, <1>5
  <2>4. \A t, u \in Rings : t # u => Elems(blkif'[t].ring) \cap Elems(blkif'[u].ring) = {}
    BY <1>5, <2>1, <2>2, <2>3
  <2> QED BY <2>4 DEF Separate
<1>7. ASSUME NEW t \in Rings PROVE Honest(blkif'[t], io')
  <2>1. Honest(blkif[t], io)
    BY DEF HonestInv
  <2>2. CASE t = r
    <3>1. Honest(c, io)
      BY <1>4, <2>1, <2>2 DEF Honest
    <3> QED BY <1>1, <1>5, <2>2, <3>1
  <2>3. CASE t # r
    BY <1>1, <1>5, <2>1, <2>3
  <2> QED BY <2>2, <2>3
<1> QED BY <1>6, <1>7 DEF HonestInv

LEMMA HonestQueueRequest ==
  ASSUME Faulty \cap Barriers = {}, IInv, HonestInv, QueueRequest
  PROVE  HonestInv'
<1> DEFINE r == proc.r
           b == blkif[r]
           g == proc.got
           q == Head(g)
           c(err) == queue_request(b, q, err)
           w(err) == IF err THEN [io EXCEPT ![q] = "err"] ELSE io
<1>1. /\ proc \in Process /\ proc.step = "queue" /\ g # << >> /\ r \in Rings
      /\ b \in Blkif /\ b.state \in {"up", "dead"} /\ g \in Seq(Reqs)
      /\ io \in [Reqs -> {"none", "ok", "err"}] /\ blkif \in [Rings -> Blkif]
  BY DEF QueueRequest, IInv, Types, Running, Process
<1>2. RingOK(b, g, kicking = r) /\ Honest(b, io)
  BY <1>1 DEF IInv, Work, HonestInv
<1>3. PICK err \in BOOLEAN :
         /\ err => q \in Faulty
         /\ blkif' = [blkif EXCEPT ![r] = queue_request(@, q, err)]
         /\ io' = w(err)
  BY DEF QueueRequest
<1>4. blkif' = [blkif EXCEPT ![r] = c(err)]
  BY <1>1, <1>3
<1>5. c(err) \in Blkif /\ c(err).ring = b.ring
  <2> HIDE DEF g, b
  <2>1. LET d == queue_request(b, Head(g), err)
        IN  /\ d \in Blkif /\ d.state = b.state /\ d.ring = b.ring /\ RingOK(d, Tail(g), kicking = r)
    BY <1>1, <1>2, <1>3, QueueOK
  <2> QED BY <2>1
<1>6. Honest(c(err), w(err))
  <2> HIDE DEF g, b
  <2> QED BY <1>1, <1>2, <1>3, HonestQueue
<1>7. q \in Elems(b.ring) /\ q \in Reqs
  <2>1. /\ Ring(b, Active(b, g), Elems(g) \cap Flushes, kicking = r)
        /\ \A i, j \in DOMAIN g : g[i] = g[j] => i = j
    BY <1>1, <1>2 DEF RingOK
  <2>2. q \in Elems(g) /\ q \in Reqs
    <3> HIDE DEF g
    <3>1. Head(g) \in Elems(g) /\ Head(g) \in Reqs
      BY <1>1, <2>1, HeadTail
    <3> QED BY <3>1
  <2>3. q \in Taken(b)
    BY <2>1, <2>2 DEF Ring, Descriptors, OneBarrier, Active
  <2>4. b.req_cons \in Nat /\ DOMAIN b.ring = 1 .. Len(b.ring) /\ b.req_cons <= Len(b.ring)
        /\ Len(b.ring) \in Nat
    BY <1>1, <2>1 DEF Ring, Indices, Blkif
  <2>5. \A i \in 1 .. b.req_cons : i \in DOMAIN b.ring
    BY <2>4
  <2> HIDE DEF b, q
  <2> QED BY <2>2, <2>3, <2>5 DEF Taken, Elems
<1>8. \A z \in Reqs : z \notin Elems(b.ring) => io'[z] = io[z]
  BY <1>1, <1>3, <1>7
<1> DEFINE x == c(err)
<1>9. x \in Blkif /\ blkif' = [blkif EXCEPT ![r] = x] /\ Elems(x.ring) \subseteq Elems(blkif[r].ring)
      /\ Honest(x, io')
  <2>1. Elems(x.ring) = Elems(b.ring)
    BY <1>5
  <2> QED BY <1>3, <1>4, <1>5, <1>6, <2>1
<1> HIDE DEF x, c, w
<1> QED BY <1>1, <1>8, <1>9, HonestStep

LEMMA HonestRequestCb ==
  ASSUME Faulty \cap Barriers = {}, IInv, HonestInv, NEW r \in Rings, RequestCb(r)
  PROVE  HonestInv'
<1> DEFINE b == blkif[r]
           x(q) == [b EXCEPT !.queued = @ \ {q}]
           w(q, err) == [io EXCEPT ![q] = IF err THEN "err" ELSE "ok"]
<1>1. PICK q \in b.queued, err \in BOOLEAN, final \in BOOLEAN :
         /\ proc.step = "idle" /\ (err => q \in Faulty)
         /\ blkif' = [blkif EXCEPT ![r] = complete_request(x(q), q, err, final)]
         /\ io' = w(q, err)
  BY DEF RequestCb
<1> DEFINE y == x(q)
           c == complete_request(y, q, err, final)
<1>2. /\ b \in Blkif /\ RingOK(b, << >>, kicking = r) /\ Honest(b, io)
      /\ io \in [Reqs -> {"none", "ok", "err"}]
  BY <1>1, AtRest DEF HonestInv, IInv, Types
<1>3. c \in Blkif /\ c.ring = b.ring
  <2> HIDE DEF b
  <2>1. LET z == complete_request([b EXCEPT !.queued = @ \ {q}], q, err, final)
        IN  z \in Blkif /\ z.ring = b.ring /\ RingOK(z, << >>, ~final)
    BY <1>1, <1>2, CallbackOK
  <2> QED BY <2>1
<1>4. /\ b.state \in {"up", "dead"} /\ Ring(b, b.queued, {}, kicking = r)
  <2>1. Elems(<< >>) = {} /\ ~Off(b)
    BY <1>1 DEF Elems, Off
  <2>2. Active(b, << >>) = b.queued
    BY <2>1 DEF Active
  <2> QED BY <1>2, <2>1, <2>2 DEF RingOK
<1>5. q \in Elems(b.ring) /\ q \in Reqs
  <2>1. q \in Taken(b) /\ q \in Reqs
    BY <1>1, <1>4 DEF Ring, Descriptors
  <2>2. b.req_cons \in Nat /\ DOMAIN b.ring = 1 .. Len(b.ring) /\ b.req_cons <= Len(b.ring)
        /\ Len(b.ring) \in Nat
    BY <1>2, <1>4 DEF Ring, Indices, Blkif
  <2>3. \A i \in 1 .. b.req_cons : i \in DOMAIN b.ring
    BY <2>2
  <2> HIDE DEF b
  <2> QED BY <2>1, <2>3 DEF Taken, Elems
<1>6. Honest(c, w(q, err))
  <2> DEFINE A == b.queued
  <2>1. /\ y \in Blkif /\ y.state = b.state /\ y.ring = b.ring
        /\ y.req_cons = b.req_cons /\ y.rsp = b.rsp /\ y.rsp_prod = b.rsp_prod
        /\ y.free = b.free /\ y.msg = b.msg /\ y.io_done = b.io_done
    BY <1>2 DEF Blkif
  <2> HIDE DEF y, A
  <2>2. Fence(y) = Fence(b) /\ Taken(y) = Taken(b) /\ Ids(y) = Ids(b)
    BY <2>1 DEF Fence, Taken, Ids
  <2>3. Ring(b, A, {}, kicking = r)
    BY <1>4 DEF A
  <2>4. Ring(y, A, {}, kicking = r)
    <3>1. Indices(y)
      BY <2>1, <2>3 DEF Ring, Indices
    <3>2. Descriptors(y, A)
      BY <2>1, <2>2, <2>3 DEF Ring, Descriptors
    <3>3. OneBarrier(y, A, {})
      BY <2>1, <2>2, <2>3 DEF Ring, OneBarrier
    <3>4. Told(y, A, kicking = r)
      <4>1. Told(b, A, kicking = r)
        BY <2>3 DEF Ring
      <4> QED BY <2>1, <2>2, <4>1 DEF Told
    <3> QED BY <3>1, <3>2, <3>3, <3>4 DEF Ring
  <2>5. Honest(y, io)
    BY <1>2, <2>1, HonestQuiet DEF Quiet
  <2>6. q \in A /\ (err => q \notin Barriers) /\ y.state \in {"up", "dead"}
    BY <1>1, <1>4, <2>1 DEF A
  <2> HIDE DEF b
  <2> QED BY <1>1, <1>2, <2>1, <2>4, <2>5, <2>6, HonestComplete
<1>7. \A z \in Reqs : z \notin Elems(b.ring) => io'[z] = io[z]
  BY <1>1, <1>2, <1>5
<1>8. blkif' = [blkif EXCEPT ![r] = c] /\ Elems(c.ring) \subseteq Elems(blkif[r].ring) /\ Honest(c, io')
  BY <1>1, <1>3, <1>6
<1> HIDE DEF c, w, x
<1> QED BY <1>3, <1>7, <1>8, HonestStep

\* The other steps say nothing.
LEMMA QuietOthers ==
  ASSUME IInv, HonestInv, NEW r \in Rings, QueueDone \/ Connect(r) \/ Disconnect(r)
  PROVE  HonestInv'
<1>1. CASE QueueDone
  <2> DEFINE s == proc.r
             b == blkif[s]
             n == Len(b.rsp)
             c == IF proc.errors THEN [b EXCEPT !.rsp_prod = n] ELSE b
  <2>1. /\ s \in Rings /\ b \in Blkif /\ io' = io
    BY <1>1 DEF QueueDone, IInv, Types, Running
  <2>2. blkif' = [blkif EXCEPT ![s] = c]
    BY <1>1, <2>1 DEF QueueDone, IInv, Types, push_responses
  <2>3. n \in Nat
    BY <2>1 DEF Blkif
  <2> HIDE DEF n, b
  <2>4. c \in Blkif /\ Quiet(b, c)
    BY <2>1, <2>3 DEF Blkif, Quiet
  <2> HIDE DEF c
  <2> QED BY <2>1, <2>2, <2>4, QuietStep DEF b
<1>2. CASE Connect(r)
  <2> DEFINE c == [new_blkif EXCEPT !.state = "up"]
  <2>1. c \in Blkif
    BY ConnectRing
  <2>2. blkif' = [blkif EXCEPT ![r] = c] /\ io' = io
    BY <1>2 DEF Connect
  <2>3. c.ring = << >> /\ c.rsp = << >> /\ c.msg = None /\ c.state = "up"
    BY DEF new_blkif
  <2> HIDE DEF c
  <2>4. DOMAIN << >> = {}
    OBVIOUS
  <2>5. Elems(c.ring) = {} /\ DOMAIN c.rsp = {}
    BY <2>3, <2>4 DEF Elems
  <2>6. Honest(c, io')
    BY <2>3, <2>5, XenBlkifAssumption DEF Honest
  <2>7. Elems(c.ring) \subseteq Elems(blkif[r].ring) /\ \A q \in Reqs : io'[q] = io[q]
    BY <2>2, <2>5
  <2> QED BY <2>1, <2>2, <2>6, <2>7, HonestStep
<1>3. CASE Disconnect(r)
  <2> DEFINE b == blkif[r]
             c == IF reqs_pending(b) = 0 THEN destroy(b)
                  ELSE [b EXCEPT !.state = "dead", !.port = FALSE]
  <2>1. b \in Blkif /\ blkif' = [blkif EXCEPT ![r] = c] /\ io' = io
    BY <1>3 DEF Disconnect, IInv, Types
  <2>2. c \in Blkif /\ c.ring = b.ring /\ c.state # "up"
    <3> HIDE DEF b
    <3>1. /\ destroy(b) \in Blkif /\ destroy(b).ring = b.ring /\ destroy(b).state = "gone"
      BY <2>1, NewBlkif
    <3>2. /\ [b EXCEPT !.state = "dead", !.port = FALSE] \in Blkif
          /\ [b EXCEPT !.state = "dead", !.port = FALSE].ring = b.ring
          /\ [b EXCEPT !.state = "dead", !.port = FALSE].state = "dead"
      BY <2>1 DEF Blkif
    <3>3. CASE reqs_pending(b) = 0
      BY <3>1, <3>3
    <3>4. CASE reqs_pending(b) # 0
      BY <3>2, <3>4
    <3> QED BY <3>3, <3>4
  <2> HIDE DEF c
  <2>3. Honest(c, io')
    BY <2>2 DEF Honest
  <2>4. Elems(c.ring) \subseteq Elems(blkif[r].ring) /\ \A q \in Reqs : io'[q] = io[q]
    BY <2>1, <2>2
  <2> QED BY <2>1, <2>2, <2>3, <2>4, HonestStep
<1> QED BY <1>1, <1>2, <1>3

LEMMA QuietAll ==
  ASSUME HonestInv, io' = io,
         \A r \in Rings : blkif'[r] = blkif[r] \/ Core(blkif[r], blkif'[r])
  PROVE  HonestInv'
<1>1. \A r \in Rings : Honest(blkif'[r], io')
  BY HonestQuiet, CoreQuiet DEF HonestInv
<1>2. \A r \in Rings : blkif'[r].ring = blkif[r].ring
  BY DEF Core
<1>3. \A r, s \in Rings : r # s => Elems(blkif'[r].ring) \cap Elems(blkif'[s].ring) = {}
  BY <1>2 DEF HonestInv, Separate
<1> QED BY <1>1, <1>3 DEF HonestInv, Separate

LEMMA QuietSignals ==
  ASSUME IInv, HonestInv,
         \/ Sigusr2 \/ LowmemEvent \/ LowmemTimeout
         \/ Pause("pausing") \/ Pause("paused") \/ Resume \/ UNCHANGED vars
  PROVE  HonestInv'
<1>1. blkif \in [Rings -> Blkif]
  BY DEF IInv, Types
<1>2. CASE Sigusr2
  <2>1. /\ blkif' = [r \in Rings |-> IF r \in Up THEN start_polling(blkif[r]) ELSE blkif[r]]
        /\ io' = io
    BY <1>2 DEF Sigusr2
  <2>2. \A r \in Rings : Core(blkif[r], start_polling(blkif[r]))
    BY <1>1, EventFields
  <2>3. \A r \in Rings : blkif'[r] = blkif[r] \/ Core(blkif[r], blkif'[r])
    BY <2>1, <2>2
  <2> QED BY <2>1, <2>3, QuietAll
<1>3. ASSUME NEW m \in BOOLEAN, mask_rings(m), io' = io
      PROVE  HonestInv'
  <2>1. blkif' = [r \in Rings |-> IF r \in Up THEN [blkif[r] EXCEPT !.masked = m] ELSE blkif[r]]
    BY <1>3 DEF mask_rings
  <2>2. ASSUME NEW r \in Rings PROVE blkif'[r] = blkif[r] \/ Core(blkif[r], blkif'[r])
    <3> DEFINE b == blkif[r]
               c == blkif'[r]
    <3>1. b \in Blkif /\ c = IF r \in Up THEN [b EXCEPT !.masked = m] ELSE b
      BY <1>1, <2>1
    <3> HIDE DEF b, c
    <3>2. c = b \/ Core(b, c)
      BY <3>1 DEF Core, Blkif
    <3> QED BY <3>2 DEF b, c
  <2> QED BY <1>3, <2>2, QuietAll
<1>4. CASE Pause("pausing") \/ Pause("paused")
  BY <1>3, <1>4 DEF Pause
<1>5. CASE Resume
  BY <1>3, <1>5 DEF Resume
<1>6. CASE LowmemEvent \/ LowmemTimeout \/ UNCHANGED vars
  BY <1>6, QuietAll DEF LowmemEvent, LowmemTimeout, vars
<1> QED BY <1>2, <1>4, <1>5, <1>6

LEMMA HonestInit == Init => HonestInv
<1> SUFFICES ASSUME Init PROVE HonestInv
  OBVIOUS
<1>1. \A r \in Rings : blkif[r] = new_blkif
  BY DEF Init
<1>2. new_blkif.ring = << >> /\ new_blkif.state = "off"
  BY DEF new_blkif
<1>3. Elems(<< >>) = {}
  BY DEF Elems
<1>4. Separate
  BY <1>1, <1>2, <1>3 DEF Separate
<1>5. \A r \in Rings : Honest(blkif[r], io)
  BY <1>1, <1>2 DEF Honest
<1> QED BY <1>4, <1>5 DEF HonestInv

LEMMA HonestNext ==
  ASSUME Faulty \cap Barriers = {}
  PROVE  IInv /\ HonestInv /\ [Next]_vars => HonestInv'
<1> SUFFICES ASSUME IInv, HonestInv, [Next]_vars PROVE HonestInv'
  OBVIOUS
<1>1. CASE \E r \in Rings : \E q \in Reqs : Push(r, q)
  BY <1>1, HonestPush
<1>2. CASE \E r \in Rings : RingEvent(r) \/ CheckRingEvent(r) \/ StopPolling(r)
  BY <1>2, QuietEvents
<1>3. CASE \E r \in Rings : RequestCb(r)
  BY <1>3, HonestRequestCb
<1>4. CASE \E r \in Rings : Connect(r) \/ Disconnect(r)
  BY <1>4, QuietOthers
<1>5. CASE CheckRing \/ RecheckRing
  BY <1>5, QuietChecks
<1>6. CASE QueueRequest
  BY <1>6, HonestQueueRequest
<1>7. CASE QueueDone
  <2>1. proc.r \in Rings
    BY <1>7 DEF QueueDone, IInv, Running
  <2> QED BY <1>7, <2>1, QuietOthers
<1>8. CASE \/ Sigusr2 \/ LowmemEvent \/ LowmemTimeout
           \/ Pause("pausing") \/ Pause("paused") \/ Resume \/ UNCHANGED vars
  BY <1>8, QuietSignals
<1> QED BY <1>1, <1>2, <1>3, <1>4, <1>5, <1>6, <1>7, <1>8 DEF Next

\* A barrier comes after everything before it, and the guest is told OKAY exactly
\* when the I/O succeeded, if the I/O of barriers with data does not fail: the
\* error of a barrier that has to wait goes to barrier.io_err, which nothing
\* reads, and that is the one way in which the interface misleads its guest.
THEOREM AnswersAreHonest ==
  ASSUME Faulty \cap Barriers = {}
  PROVE  Spec => []BarrierSound
<1>1. Init => IInv /\ HonestInv
  BY InitOK, HonestInit
<1>2. IInv /\ HonestInv /\ [Next]_vars => IInv' /\ HonestInv'
  BY NextOK, HonestNext
<1>3. IInv /\ HonestInv => BarrierSound
  <2> SUFFICES ASSUME IInv, HonestInv PROVE BarrierSound
    OBVIOUS
  <2>1. BarrierFence
    BY Safe
  <2>2. HonestAnswers
    BY DEF HonestInv, Honest, HonestAnswers, Up
  <2> QED BY <2>1, <2>2 DEF BarrierSound
<1> QED BY <1>1, <1>2, <1>3, PTL DEF Spec
=============================================================================
