------------------------------ MODULE XenBlkif ------------------------------
(***************************************************************************)
(* The Xen block interface of tapdisk: the shared request and response     *)
(* ring (drivers/td-ctx.c), the life of a ring request and the write       *)
(* barrier (td-req.c), connection, polling, suspension and disconnection   *)
(* (td-blkif.c), and low-memory mode (tapdisk-server.c).                   *)
(*                                                                         *)
(* The front-end is another domain: it runs between any two accesses to    *)
(* the shared ring.  The back-end is one thread: a callback runs to its    *)
(* end before the next one starts, so "proc" is the one process_ring that  *)
(* may be in progress.  The VBD behind the rings is a set of queued        *)
(* requests that it answers in any order.                                  *)
(***************************************************************************)
EXTENDS Integers, Sequences, FiniteSets

CONSTANTS
  Rings,       \* struct td_xenblkif instances, all of one context and VBD
  Reqs,        \* requests the front-ends may put in a ring
  Barriers,    \* BLKIF_OP_WRITE_BARRIER with data
  Flushes,     \* BLKIF_OP_WRITE_BARRIER without segments
  Faulty,      \* requests that may fail, when queued or in the VBD
  RingSize,    \* blkif->ring_size
  Polling,     \* blkif->poll_duration # 0
  LowMemory,   \* memory pressure may occur
  None

ASSUME XenBlkifAssumption ==
  /\ Barriers \subseteq Reqs
  /\ Flushes \subseteq Reqs \ Barriers
  /\ Faulty \subseteq Reqs \ Flushes
  /\ RingSize \in Nat \ {0}
  /\ Polling \in BOOLEAN
  /\ LowMemory \in BOOLEAN
  /\ None \notin Reqs
  /\ None \notin Rings

VARIABLES
  blkif,       \* struct td_xenblkif and its shared ring, per ring
  proc,        \* the running tapdisk_xenio_ctx_process_ring
  ring_masked, \* ctx->ring_event is masked; the event is shared by all rings
  kicking,     \* the ring whose batch of answers tapdisk_vbd_kick delivers
  vbd,         \* "run", "pausing" (PAUSE_REQUESTED) or "paused"
  low,         \* server.mem_state.mode = LOW_MEMORY_MODE
  io           \* history: what happened to the I/O of a request

vars == <<blkif, proc, ring_masked, kicking, vbd, low, io>>

Statuses == {"OKAY", "ERROR"}
Response == [id : Reqs, status : Statuses]

Blkif ==
  [state     : {"off", "up", "dead", "gone"},
   ring      : Seq(Reqs),       \* every request ever put in; req_prod is its length
   req_cons  : Nat,
   req_event : Nat,
   rsp       : Seq(Response),   \* every response; rsp_prod_pvt is its length
   rsp_prod  : Nat,
   port      : BOOLEAN,         \* an event is pending on blkif->port
   free      : Int,             \* n_reqs_free
   queued    : SUBSET Reqs,     \* handed to the VBD and not yet called back
   msg       : Reqs \cup {None},\* barrier.msg
   io_done   : BOOLEAN,
   chkrng    : BOOLEAN,         \* timeout is TV_ZERO, not TV_INF
   masked    : BOOLEAN,         \* chkrng_event is masked
   polling   : BOOLEAN,         \* in_polling
   stop      : BOOLEAN]         \* stoppolling_event has a timeout

\* calloc and BACK_RING_INIT; the front-end's SHARED_RING_INIT sets req_event.
new_blkif ==
  [state |-> "off", ring |-> <<>>, req_cons |-> 0, req_event |-> 1,
   rsp |-> <<>>, rsp_prod |-> 0, port |-> FALSE, free |-> RingSize,
   queued |-> {}, msg |-> None, io_done |-> FALSE, chkrng |-> FALSE,
   masked |-> FALSE, polling |-> FALSE, stop |-> FALSE]

Process ==
  [step   : {"idle", "check", "recheck", "queue"},
   r      : Rings \cup {None},
   final  : BOOLEAN,
   pass   : BOOLEAN,    \* the current get_requests has found something
   limit  : Int,
   got    : Seq(Reqs),
   errors : BOOLEAN,
   caller : {"event", "chkrng", "stoppolling"}]

idle == [step |-> "idle", r |-> None, final |-> FALSE, pass |-> FALSE,
         limit |-> 0, got |-> <<>>, errors |-> FALSE, caller |-> "event"]

Init ==
  /\ blkif = [r \in Rings |-> new_blkif]
  /\ proc = idle
  /\ ring_masked = FALSE
  /\ kicking = None
  /\ vbd = "run"
  /\ low = FALSE
  /\ io = [q \in Reqs |-> "none"]

\* The server loop is in select(): any event may be dispatched next.
Ready == proc.step = "idle" /\ kicking = None

Up == {r \in Rings : blkif[r].state = "up"}

Elems(s) == {s[i] : i \in DOMAIN s}

-----------------------------------------------------------------------------
(* Completion of a ring request.                                            *)

BarrierOp == Barriers \cup Flushes

reqs_pending(b) == RingSize - b.free

barrier_should_complete(b) ==
  b.msg # None /\ reqs_pending(b) = 1 /\ (b.msg \in Flushes \/ b.io_done)

\* Mutant: returns early for a failed request and pushes nothing.
put_response_mutant(b, q, status, final) ==
  LET rsp == Append(b.rsp, [id |-> q, status |-> status])
  IN  [b EXCEPT !.rsp = rsp,
                !.rsp_prod = IF final /\ status = "OKAY" THEN Len(rsp) ELSE @]

put_response(b, q, status, final) ==
  LET rsp == Append(b.rsp, [id |-> q, status |-> status])
  IN  [b EXCEPT !.rsp = rsp,
                !.rsp_prod = IF final THEN Len(rsp) ELSE b.rsp_prod]

free_request(b) == [b EXCEPT !.free = b.free + 1]

\* The request leaves the ring: response (unless the ring is dead), buffer.
retire(b, q, err, final) ==
  LET answered == IF b.state = "dead" THEN b
                  ELSE put_response(b, q, IF err THEN "ERROR" ELSE "OKAY", final)
  IN  [free_request(answered) EXCEPT !.msg = IF q \in BarrierOp THEN None ELSE @]

sched_chkrng(b) == IF b.state = "dead" THEN b ELSE [b EXCEPT !.chkrng = TRUE]

destroy(b) == [new_blkif EXCEPT !.state = "gone", !.ring = b.ring]

reap(b) == IF b.state = "dead" /\ reqs_pending(b) = 0 THEN destroy(b) ELSE b

\* Mutant: no ring check after a barrier that waited.
release_mutant(b) ==
  reap(IF b.msg = None THEN sched_chkrng(b)
       ELSE IF barrier_should_complete(b) THEN retire(b, b.msg, FALSE, TRUE) ELSE b)

\* The ring check or the waiting barrier that a finished request releases,
\* then the destruction of a dead ring.
release(b) ==
  reap(IF b.msg = None THEN sched_chkrng(b)
       ELSE IF barrier_should_complete(b)
            THEN sched_chkrng(retire(b, b.msg, FALSE, TRUE))
            ELSE b)

complete_request(b, q, err, final) ==
  LET noted == IF q \in Barriers THEN [b EXCEPT !.io_done = TRUE] ELSE b
  IN  IF q \in BarrierOp /\ ~barrier_should_complete(noted)
      THEN noted
      ELSE release(retire(noted, q, err, final))

\* tapdisk_xenio_ctx_put: the last interface closes the context, and the
\* next one registers a new ring event.
ctx_put(all) ==
  ring_masked' = (ring_masked /\ \E r \in Rings : all[r].state \in {"up", "dead"})

-----------------------------------------------------------------------------
(* The front-end.                                                           *)

Used == UNION {Elems(blkif[r].ring) : r \in Rings}

\* RING_PUSH_REQUESTS_AND_CHECK_NOTIFY, and the event channel.
Push(r, q) ==
  LET b == blkif[r]
      prod == Len(b.ring) + 1
  IN  /\ b.state = "up"
      /\ q \notin Used
      /\ Len(b.ring) - b.rsp_prod < RingSize
      /\ blkif' = [blkif EXCEPT
           ![r].ring = Append(b.ring, q),
           ![r].port = b.port \/ b.req_event = prod]
      /\ UNCHANGED <<proc, ring_masked, kicking, vbd, low, io>>

-----------------------------------------------------------------------------
(* tapdisk_xenio_ctx_process_ring.                                          *)

\* RING_HAS_UNCONSUMED_REQUESTS.
unconsumed(b) ==
  LET req  == Len(b.ring) - b.req_cons
      room == RingSize - (b.req_cons - Len(b.rsp))
  IN  IF req < room THEN req ELSE room

ring_limit(b) ==
  IF ~low THEN b.free
  ELSE IF b.free = RingSize THEN 1 ELSE 0

\* No requests: what the stoppolling callback does with the 0 it gets back.
Return0(r, b, caller) ==
  /\ proc' = idle
  /\ IF caller = "stoppolling"
     THEN /\ blkif' = [blkif EXCEPT
               ![r] = [b EXCEPT !.polling = FALSE, !.chkrng = FALSE, !.stop = FALSE]]
          /\ ring_masked' = FALSE
     ELSE blkif' = [blkif EXCEPT ![r] = b] /\ UNCHANGED ring_masked

ProcessRing(r, b, final, caller) ==
  IF b.msg # None
  THEN Return0(r, b, caller)
  ELSE /\ proc' = [idle EXCEPT !.step = "check", !.r = r, !.final = final,
                               !.limit = ring_limit(b), !.caller = caller]
       /\ blkif' = [blkif EXCEPT ![r] = b]
       /\ UNCHANGED ring_masked

\* Polling goes on, or starts if the CPU is idle enough.
start_polling(b) ==
  [b EXCEPT !.polling = TRUE, !.chkrng = TRUE, !.stop = TRUE]

Collected(b, p) ==
  IF p.got = <<>>
  THEN Return0(p.r, b, p.caller)
  ELSE /\ proc' = [p EXCEPT !.step = "queue"]
       /\ \/ /\ b.polling
             /\ blkif' = [blkif EXCEPT ![p.r] = [b EXCEPT !.stop = TRUE]]
             /\ UNCHANGED ring_masked
          \/ /\ ~b.polling
             /\ blkif' = [blkif EXCEPT ![p.r] = b]
             /\ UNCHANGED ring_masked
          \/ /\ ~b.polling
             /\ Polling
             /\ blkif' = [blkif EXCEPT ![p.r] = start_polling(b)]
             /\ ring_masked' = TRUE

\* get_requests returned: once more, with the final check, or done.
NextPass(b) ==
  IF proc.pass
  THEN /\ proc' = [proc EXCEPT !.step = "check", !.final = TRUE, !.pass = FALSE]
       /\ blkif' = [blkif EXCEPT ![proc.r] = b]
       /\ UNCHANGED ring_masked
  ELSE Collected(b, proc)

\* Mutant: does not stop at a barrier.
batch_mutant(b) ==
  IF proc.limit < Len(b.ring) - b.req_cons THEN proc.limit
  ELSE Len(b.ring) - b.req_cons

\* __xenio_blkif_get_requests: up to the limit, up to the first barrier.
batch(b) ==
  LET most == IF proc.limit < Len(b.ring) - b.req_cons THEN proc.limit
              ELSE Len(b.ring) - b.req_cons
      ends == {i \in 1 .. most : b.ring[b.req_cons + i] \in BarrierOp}
  IN  IF ends = {} THEN most ELSE CHOOSE i \in ends : \A j \in ends : i <= j

Take(b) ==
  IF proc.limit = 0
  THEN NextPass(b)
  ELSE LET n    == batch(b)
           cons == b.req_cons + n
           last == b.ring[cons]
           b2   == [b EXCEPT !.req_cons = cons, !.free = b.free - n]
           p2   == [proc EXCEPT !.step = "check", !.pass = TRUE,
                      !.limit = proc.limit - n,
                      !.got = proc.got \o SubSeq(b.ring, b.req_cons + 1, cons)]
       IN  IF last \in BarrierOp
           THEN Collected([b2 EXCEPT !.msg = last, !.io_done = FALSE], p2)
           ELSE /\ proc' = p2
                /\ blkif' = [blkif EXCEPT ![proc.r] = b2]
                /\ UNCHANGED ring_masked

\* RING_FINAL_CHECK_FOR_REQUESTS: look, arm the notification, look again.
CheckRing ==
  LET b == blkif[proc.r]
  IN  /\ proc.step = "check"
      /\ \/ unconsumed(b) > 0 /\ Take(b)
         \/ unconsumed(b) <= 0 /\ ~proc.final /\ NextPass(b)
         \/ /\ unconsumed(b) <= 0
            /\ proc.final
            /\ blkif' = [blkif EXCEPT ![proc.r].req_event = b.req_cons + 1]
            /\ proc' = [proc EXCEPT !.step = "recheck"]
            /\ UNCHANGED ring_masked
      /\ UNCHANGED <<kicking, vbd, low, io>>

RecheckRing ==
  LET b == blkif[proc.r]
  IN  /\ proc.step = "recheck"
      /\ IF unconsumed(b) > 0 THEN Take(b) ELSE NextPass(b)
      /\ UNCHANGED <<kicking, vbd, low, io>>

-----------------------------------------------------------------------------
(* tapdisk_xenblkif_queue_requests, one request of the batch at a time.     *)

\* queue_request: a bad request fails in make_vbd_request and is completed
\* on the spot; an empty barrier that nothing precedes completes too.
queue_request(b, q, err) ==
  IF err THEN complete_request(b, q, TRUE, TRUE)
  ELSE IF q \notin Flushes THEN [b EXCEPT !.queued = @ \cup {q}]
  ELSE IF barrier_should_complete(b) THEN complete_request(b, b.msg, FALSE, TRUE)
  ELSE b

QueueRequest ==
  /\ proc.step = "queue"
  /\ proc.got # <<>>
  /\ \E err \in BOOLEAN :
       LET q == Head(proc.got)
       IN  /\ err => q \in Faulty
           /\ blkif' = [blkif EXCEPT ![proc.r] = queue_request(@, q, err)]
           /\ ctx_put(blkif')
           /\ proc' = [proc EXCEPT !.got = Tail(@), !.errors = @ \/ err]
           /\ io' = IF err THEN [io EXCEPT ![q] = "err"] ELSE io
  /\ UNCHANGED <<kicking, vbd, low>>

\* After errors a bare put_response pushes what is in the ring.  "blkif" is a
\* parameter that the loop cannot clear: the check of it does nothing, and the
\* interface must not have been destroyed by one of the completions.
push_responses(b) == [b EXCEPT !.rsp_prod = Len(b.rsp)]

QueueDone ==
  /\ proc.step = "queue"
  /\ proc.got = <<>>
  /\ proc' = idle
  /\ blkif' = IF proc.errors THEN [blkif EXCEPT ![proc.r] = push_responses(@)] ELSE blkif
  /\ UNCHANGED <<ring_masked, kicking, vbd, low, io>>

-----------------------------------------------------------------------------
(* Events of the server loop.                                               *)

RingEvent(r) ==
  /\ Ready
  /\ blkif[r].port
  /\ ~ring_masked
  /\ ProcessRing(r, [blkif[r] EXCEPT !.port = FALSE], FALSE, "event")
  /\ UNCHANGED <<kicking, vbd, low, io>>

CheckRingEvent(r) ==
  LET b == blkif[r]
  IN  /\ Ready
      /\ b.chkrng
      /\ ~b.masked
      /\ ProcessRing(r, [b EXCEPT !.chkrng = b.polling], ~b.polling, "chkrng")
      /\ UNCHANGED <<kicking, vbd, low, io>>

StopPolling(r) ==
  /\ Ready
  /\ blkif[r].stop
  /\ ProcessRing(r, blkif[r], TRUE, "stoppolling")
  /\ UNCHANGED <<kicking, vbd, low, io>>

\* SIGUSR2 starts polling on every ring, if the CPU is idle enough.  Taken
\* between callbacks: the signal interrupts select().
Sigusr2 ==
  /\ Polling /\ Ready
  /\ Up # {}
  /\ blkif' = [r \in Rings |-> IF r \in Up THEN start_polling(blkif[r]) ELSE blkif[r]]
  /\ ring_masked' = TRUE
  /\ UNCHANGED <<proc, kicking, vbd, low, io>>

LowmemEvent ==
  /\ Ready
  /\ LowMemory
  /\ ~low
  /\ low' = TRUE
  /\ UNCHANGED <<blkif, proc, ring_masked, kicking, vbd, io>>

LowmemTimeout ==
  /\ Ready
  /\ low
  /\ low' = FALSE
  /\ UNCHANGED <<blkif, proc, ring_masked, kicking, vbd, io>>

\* tapdisk_vbd_kick: the answers for one ring are called back together, the
\* last of them with final set.  A request fails in the VBD or, after a read,
\* in the copy to the guest.
RequestCb(r) ==
  \E q \in blkif[r].queued, err \in BOOLEAN, final \in BOOLEAN :
    LET b == [blkif[r] EXCEPT !.queued = @ \ {q}]
    IN  /\ proc.step = "idle"
        /\ err => q \in Faulty
        /\ kicking = r \/ (kicking = None /\ vbd # "paused")
        /\ ~final => b.queued # {}
        /\ blkif' = [blkif EXCEPT ![r] = complete_request(b, q, err, final)]
        /\ ctx_put(blkif')
        /\ kicking' = IF final THEN None ELSE r
        /\ io' = [io EXCEPT ![q] = IF err THEN "err" ELSE "ok"]
        /\ UNCHANGED <<proc, vbd, low>>

-----------------------------------------------------------------------------
(* Control messages.                                                        *)

Connect(r) ==
  /\ Ready
  /\ blkif[r].state = "off"
  /\ blkif' = [blkif EXCEPT ![r] = [new_blkif EXCEPT !.state = "up"]]
  /\ UNCHANGED <<proc, ring_masked, kicking, vbd, low, io>>

Disconnect(r) ==
  LET b == blkif[r]
  IN  /\ Ready
      /\ b.state = "up"
      /\ blkif' = [blkif EXCEPT
           ![r] = IF reqs_pending(b) = 0 THEN destroy(b)
                  ELSE [b EXCEPT !.state = "dead", !.port = FALSE]]
      /\ ctx_put(blkif')
      /\ UNCHANGED <<proc, kicking, vbd, low, io>>

mask_rings(masked) ==
  /\ blkif' = [r \in Rings |->
       IF r \in Up THEN [blkif[r] EXCEPT !.masked = masked] ELSE blkif[r]]
  /\ ring_masked' = IF Up = {} THEN ring_masked ELSE masked

\* tapdisk_vbd_pause is called again until the queue is quiescent.
Pause(next) ==
  /\ Ready
  /\ vbd # "paused"
  /\ mask_rings(TRUE)
  /\ vbd' = next
  /\ UNCHANGED <<proc, kicking, low, io>>

Resume ==
  /\ Ready
  /\ vbd = "paused"
  /\ mask_rings(FALSE)
  /\ vbd' = "run"
  /\ UNCHANGED <<proc, kicking, low, io>>

Next ==
  \/ \E r \in Rings : \/ \E q \in Reqs : Push(r, q)
                      \/ RingEvent(r)
                      \/ CheckRingEvent(r)
                      \/ StopPolling(r)
                      \/ RequestCb(r)
                      \/ Connect(r)
                      \/ Disconnect(r)
  \/ CheckRing
  \/ RecheckRing
  \/ QueueRequest
  \/ QueueDone
  \/ Sigusr2
  \/ LowmemEvent
  \/ LowmemTimeout
  \/ Pause("pausing")
  \/ Pause("paused")
  \/ Resume

Spec == Init /\ [][Next]_vars

\* A callback that has started runs on; the loop dispatches every event that
\* is due again and again; the VBD answers what it accepted (Vbd!Answered); a
\* pause that was asked for is completed (Vbd!PauseEnds) and then resumed.
\* Nothing obliges the front-end, the memory pressure or the tool stack.
Fairness ==
  /\ WF_vars(CheckRing \/ RecheckRing \/ QueueRequest \/ QueueDone)
  /\ \A r \in Rings : /\ SF_vars(RingEvent(r))
                      /\ SF_vars(CheckRingEvent(r))
                      /\ SF_vars(StopPolling(r))
                      /\ SF_vars(RequestCb(r))
  /\ SF_vars(Resume \/ (vbd = "pausing" /\ Pause("paused")))

FairSpec == Spec /\ Fairness

-----------------------------------------------------------------------------
(* Properties.                                                              *)

\* Type invariant of the interface, the ring indices included: the consumer
\* never passes the producer and the descriptors in use never exceed the ring
\* (the ASSERTs on n_reqs_free of process_ring and free_request).
TypeOK ==
  /\ blkif \in [Rings -> Blkif]
  /\ \A r \in Rings : /\ blkif[r].free \in 0 .. RingSize
                      /\ blkif[r].req_cons <= Len(blkif[r].ring)
                      /\ blkif[r].rsp_prod <= Len(blkif[r].rsp)
  /\ proc \in Process
  /\ ring_masked \in BOOLEAN
  /\ kicking \in Rings \cup {None}
  /\ vbd \in {"run", "pausing", "paused"}
  /\ low \in BOOLEAN
  /\ io \in [Reqs -> {"none", "ok", "err"}]

responded(b, i) == \E k \in DOMAIN b.rsp : b.rsp[k].id = b.ring[i]

\* Every descriptor in use belongs to one consumed request without a
\* response, and a request gets one response: complete_request, reached from
\* the VBD, from the error path of queue_requests and from itself for a
\* barrier, retires a request exactly once.
AnsweredOnce ==
  \A r \in Up :
    LET b == blkif[r]
    IN  /\ reqs_pending(b) = b.req_cons - Len(b.rsp)
        /\ \A k, m \in DOMAIN b.rsp : b.rsp[k].id = b.rsp[m].id => k = m
        /\ \A k \in DOMAIN b.rsp : \E i \in 1 .. b.req_cons : b.ring[i] = b.rsp[k].id

\* A write barrier is answered after every request before it in the ring,
\* and until then nothing behind it is taken from the ring: process_ring
\* stops at a barrier and complete_request holds the barrier back.
BarrierFence ==
  \A r \in Up : \A i \in DOMAIN blkif[r].ring :
    LET b == blkif[r]
    IN  b.ring[i] \in BarrierOp =>
          /\ responded(b, i) => \A j \in 1 .. i : responded(b, j)
          /\ i <= b.req_cons /\ ~responded(b, i) => b.req_cons = i

\* The guest is told OKAY exactly when the I/O of the request succeeded; an
\* empty barrier has no I/O.
HonestAnswers ==
  \A r \in Up : \A k \in DOMAIN blkif[r].rsp :
    LET answer == blkif[r].rsp[k]
    IN  answer.status = "OKAY" <=> (answer.id \in Flushes \/ io[answer.id] = "ok")

\* No response waits unpublished in an idle ring: completions with final = 0
\* leave theirs to a later one, also when the last callback of the batch is
\* that of a barrier which has to wait.
NoStrandedAnswer ==
  Ready => \A r \in Up : reqs_pending(blkif[r]) = 0 =>
                           blkif[r].rsp_prod = Len(blkif[r].rsp)

\* A ring disconnected with requests in flight always has one of them in the
\* VBD: it is destroyed from the VBD's callback and no other place, so a ring
\* check or the end of polling that still runs on it never loses it between
\* two requests of a batch (the seg fault the comment in queue_requests fears).
DeadRingHeld == \A r \in Rings : blkif[r].state = "dead" => blkif[r].queued # {}

published(b, q) == \E k \in 1 .. b.rsp_prod : b.rsp[k].id = q

\* Every request in the ring of a connected front-end is answered in the end
\* and the answer published, whatever the interleaving of notifications,
\* ring checks, polling, barriers, pauses and low-memory mode (no wakeup is
\* lost between RING_FINAL_CHECK_FOR_REQUESTS and the front-end's push), and
\* a ring disconnected with requests in flight is destroyed in the end, so
\* that its VBD can be closed.  The front-ends put in each request once:
\* from some time on nothing is left to answer.
EventuallyServed ==
  <>[](\A r \in Rings :
         /\ blkif[r].state # "dead"
         /\ r \in Up => \A q \in Elems(blkif[r].ring) : published(blkif[r], q))

\* The ring and its descriptors: each request is answered once, no answer is
\* left unpublished, and a dead ring is reached from the VBD until it is freed.
RingSound == TypeOK /\ AnsweredOnce /\ NoStrandedAnswer /\ DeadRingHeld

\* What the guest learns: a barrier's answer comes after everything before it,
\* and every answer tells what became of the I/O.
BarrierSound == BarrierFence /\ HonestAnswers
====
