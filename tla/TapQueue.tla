------------------------------ MODULE TapQueue ------------------------------
(***************************************************************************)
(* The queue of asynchronous I/O of a tapdisk (drivers/libaio-backend.c)   *)
(* and the merging of neighbouring requests (drivers/io-optimize.c).       *)
(*                                                                         *)
(* The owner of a tiocb queues it and is called back once.  A tiocb that   *)
(* finds the queue full is deferred; deferred tiocbs and the tiocbs of a   *)
(* submission that failed are chained by the same field, tiocb->next.  A   *)
(* callback may queue more tiocbs, so that the queue is entered while it   *)
(* works on its lists: callbacks are steps of their own here.              *)
(***************************************************************************)
EXTENDS Integers, Sequences, FiniteSets, SequencesExt

CONSTANTS
    Tiocbs,       \* the tiocbs of the drivers
    Io,           \* the request each is used for: operation and offset
    Size,         \* queue->size
    UioFastIov,   \* UIO_FASTIOV
    MaxIssues,    \* bound on the tiocbs queued
    MaxErrors,    \* bound on the submissions that fail
    FailCrowded,  \* whether one may fail with tiocbs deferred, or its callbacks
                  \* may queue tiocbs when the queue is full
    ReuseOnCancel \* whether a callback of one may queue its own tiocb again

NULL == 0

VARIABLES
    iocbs,     \* queue->iocbs, the first queue->queued of them
    next,      \* tiocb->next
    deferred,  \* queue->deferred
    ndeferred, nTiocbs, nIocbs, \* tiocbs_deferred, tiocbs_pending, iocbs_pending
    freeOpios, \* opioctx.free_opio_cnt
    aio,       \* iocbs the kernel has, each the sequence of tiocbs merged in it
    events,    \* iocbs it has completed
    mode,      \* where in the code of the queue the tapdisk is
    work,      \* the tiocbs of the events taken, or the tiocb being cancelled
    count,     \* tiocbs that cancel_tiocbs will report
    owed,      \* tiocbs whose owner is waiting for the callback
    again,     \* one was called back that its owner was not waiting for
    issues, errs

lists == <<iocbs, next, deferred, ndeferred>>
vars == <<lists, nTiocbs, nIocbs, freeOpios, aio, events, mode, work, count, owed, again,
          issues, errs>>

Init ==
    /\ iocbs = << >> /\ next = [t \in Tiocbs |-> NULL]
    /\ deferred = [head |-> NULL, tail |-> NULL]
    /\ ndeferred = 0 /\ nTiocbs = 0 /\ nIocbs = 0 /\ freeOpios = Size
    /\ aio = {} /\ events = {} /\ mode = "idle" /\ work = << >> /\ count = 0
    /\ owed = {} /\ again = FALSE /\ issues = 0 /\ errs = 0

-----------------------------------------------------------------------------
(* The lists.  A record q holds iocbs, next, deferred and ndeferred. *)

Lists == [iocbs |-> iocbs, next |-> next, deferred |-> deferred, ndeferred |-> ndeferred]

SetLists(q) ==
    /\ iocbs' = q.iocbs /\ next' = q.next
    /\ deferred' = q.deferred /\ ndeferred' = q.ndeferred

\* Mutant: one more than the queue has room for.
QueueFull_mutant(q) == nTiocbs + Len(q.iocbs) > Size

\* libaio_backend_queue_full.
QueueFull(q) == nTiocbs + Len(q.iocbs) >= Size

\* queue_tiocb: chained behind the last tiocb of the queue.
QueueTiocb(q, t) ==
    [q EXCEPT !.iocbs = Append(@, t),
              !.next = IF q.iocbs = << >> THEN @ ELSE [@ EXCEPT ![Last(q.iocbs)] = t]]

\* defer_tiocb.
DeferTiocb(q, t) ==
    IF q.deferred.head = NULL
    THEN [q EXCEPT !.deferred = [head |-> t, tail |-> t], !.ndeferred = @ + 1]
    ELSE [q EXCEPT !.next[q.deferred.tail] = t, !.deferred.tail = t, !.ndeferred = @ + 1]

\* libaio_backend_prep_tiocb and libaio_backend_queue_tiocb.
PrepAndQueue(q, t) ==
    LET p == [q EXCEPT !.next[t] = NULL]
    IN IF QueueFull(p) THEN DeferTiocb(p, t) ELSE QueueTiocb(p, t)

\* queue_deferred_tiocb: the tiocb keeps its next.
QueueDeferredTiocb(q) ==
    LET t == q.deferred.head
        n == q.next[t]
    IN QueueTiocb([q EXCEPT !.deferred = [head |-> n, tail |-> IF n = NULL THEN NULL ELSE @.tail],
                            !.ndeferred = @ - 1], t)

\* Mutant: one is queued, and only behind iocbs that are pending.
QueueDeferred_mutant(q) ==
    IF q.deferred.head = NULL \/ QueueFull(q) \/ nIocbs = 0 THEN q ELSE QueueDeferredTiocb(q)

\* queue_deferred_tiocbs.
QueueDeferred(q) ==
    LET Step(p, i) == IF QueueFull(p) \/ p.deferred.head = NULL THEN p ELSE QueueDeferredTiocb(p)
    IN FoldLeft(Step, q, [i \in 1 .. Size |-> i])

-----------------------------------------------------------------------------
(* io-optimize.c.  An iocb given to the kernel is a sequence of tiocbs. *)

\* merge: the same operation, contiguous, and a vector with room.
Mergeable(g, t) ==
    /\ Io[g[1]].op = Io[t].op
    /\ Io[g[1]].off + Len(g) = Io[t].off
    /\ Len(g) < UioFastIov

\* io_merge: each iocb joins the last one on the queue or follows it.
IoMerge(q) ==
    LET Step(gs, t) == IF gs # << >> /\ Mergeable(Last(gs), t)
                       THEN [gs EXCEPT ![Len(gs)] = Append(@, t)]
                       ELSE Append(gs, <<t>>)
    IN FoldLeft(Step, << >>, q)

\* The opios of merged iocbs: opio_get takes one for every tiocb of a vector.
Opios(gs) == FoldLeft(LAMBDA n, g : IF Len(g) = 1 THEN n ELSE n + Len(g), 0, gs)

\* io_expand_iocbs and io_split give the tiocbs back in order.
Expand(gs) == FlattenSeq(gs)

-----------------------------------------------------------------------------
(* Callbacks *)

\* The tiocbs that a callback on t, or a driver, may queue.
Issuable(except) == {u \in Tiocbs \ owed : issues < MaxIssues /\ u # except}

\* complete_tiocb: tiocb->cb, in which the owner may queue a tiocb.
Callback(t, except) ==
    /\ again' = (again \/ t \notin owed)
    /\ \/ SetLists(Lists) /\ owed' = owed \ {t} /\ issues' = issues
       \/ \E u \in Issuable(except) \union ({t} \ {except}) :
             /\ issues < MaxIssues
             /\ mode = "cancel" => FailCrowded \/ ~QueueFull(Lists)
             /\ SetLists(PrepAndQueue(Lists, u))
             /\ owed' = (owed \ {t}) \union {u}
             /\ issues' = issues + 1

\* A driver queues a tiocb.
Issue(t) ==
    /\ mode = "idle" /\ t \in Issuable(NULL)
    /\ SetLists(PrepAndQueue(Lists, t))
    /\ owed' = owed \union {t} /\ issues' = issues + 1
    /\ UNCHANGED <<nTiocbs, nIocbs, freeOpios, aio, events, mode, work, count, again, errs>>

-----------------------------------------------------------------------------
(* Submission *)

\* libaio_backend_lio_submit when io_submit takes everything.
Submit ==
    /\ mode \in {"idle", "submit"} /\ iocbs # << >>
    /\ LET merged == IoMerge(iocbs)
       IN /\ aio' = aio \union Range(merged)
          /\ nIocbs' = nIocbs + Len(merged)
          /\ nTiocbs' = nTiocbs + Len(iocbs)
          /\ freeOpios' = freeOpios - Opios(merged)
    /\ iocbs' = << >> /\ mode' = "idle"
    /\ UNCHANGED <<next, deferred, ndeferred, events, work, count, owed, again, issues, errs>>

\* libaio_backend_lio_submit when io_submit takes n of them: fail_tiocbs.
SubmitFails(n) ==
    /\ mode \in {"idle", "submit"} /\ iocbs # << >> /\ errs < MaxErrors
    /\ FailCrowded \/ deferred.head = NULL
    /\ LET merged == IoMerge(iocbs)
           taken  == SubSeq(merged, 1, n)
           failed == Expand(SubSeq(merged, n + 1, Len(merged)))
       IN /\ n < Len(merged)
          /\ aio' = aio \union Range(taken)
          /\ nIocbs' = nIocbs + n
          /\ nTiocbs' = nTiocbs + Len(iocbs)
          /\ freeOpios' = freeOpios - Opios(taken)
          /\ work' = <<failed[1]>> /\ count' = Len(failed)
    /\ iocbs' = << >> /\ mode' = "cancel" /\ errs' = errs + 1
    /\ UNCHANGED <<next, deferred, ndeferred, events, owed, again, issues>>

\* The step of the loop: tiocb->next is read after the callback.
Following(t) == next'[t]

\* cancel_tiocbs: the callback of the tiocb reached, then its next.
Cancel ==
    /\ mode = "cancel" /\ work # << >>
    /\ Callback(work[1], IF ReuseOnCancel THEN NULL ELSE work[1])
    /\ work' = IF Following(work[1]) = NULL THEN << >> ELSE <<Following(work[1])>>
    /\ UNCHANGED <<nTiocbs, nIocbs, freeOpios, aio, events, mode, count, errs>>

\* Its end; libaio_backend_submit_all_tiocbs goes on with what the callbacks queued.
CancelEnds ==
    /\ mode = "cancel" /\ work = << >>
    /\ nTiocbs' = nTiocbs - count /\ count' = 0
    /\ mode' = IF iocbs = << >> THEN "idle" ELSE "submit"
    /\ UNCHANGED <<lists, nIocbs, freeOpios, aio, events, work, owed, again, issues, errs>>

-----------------------------------------------------------------------------
(* Completion *)

\* The kernel completes an iocb, in any order.
KernelCompletes(g) ==
    /\ aio' = aio \ {g} /\ events' = events \union {g}
    /\ UNCHANGED <<lists, nTiocbs, nIocbs, freeOpios, mode, work, count, owed, again, issues,
                   errs>>

\* libaio_backend_lio_event takes the events there are and splits them.
LioEvent ==
    /\ mode = "idle" /\ events # {}
    /\ LET taken == SetToSeq(events)
       IN /\ nIocbs' = nIocbs - Len(taken)
          /\ nTiocbs' = nTiocbs - Len(Expand(taken))
          /\ freeOpios' = freeOpios + Opios(taken)
          /\ work' = Expand(taken)
    /\ events' = {} /\ mode' = "event"
    /\ UNCHANGED <<lists, aio, count, owed, again, issues, errs>>

\* Its loop over the tiocbs: the owners' callbacks.
CompleteTiocb ==
    /\ mode = "event" /\ work # << >>
    /\ Callback(work[1], NULL)
    /\ work' = Tail(work)
    /\ UNCHANGED <<nTiocbs, nIocbs, freeOpios, aio, events, mode, count, errs>>

\* Its end: the deferred tiocbs that there is room for.
LioEventEnds ==
    /\ mode = "event" /\ work = << >>
    /\ SetLists(QueueDeferred(Lists))
    /\ mode' = "idle"
    /\ UNCHANGED <<nTiocbs, nIocbs, freeOpios, aio, events, work, count, owed, again, issues, errs>>

-----------------------------------------------------------------------------

Runs == Submit \/ Cancel \/ CancelEnds \/ LioEvent \/ CompleteTiocb \/ LioEventEnds

Next ==
    \/ \E t \in Tiocbs : Issue(t)
    \/ Submit \/ Cancel \/ CancelEnds
    \/ \E n \in 0 .. Size - 1 : SubmitFails(n)
    \/ \E g \in aio : KernelCompletes(g)
    \/ LioEvent \/ CompleteTiocb \/ LioEventEnds

Spec == Init /\ [][Next]_vars

\* tapdisk_server_iterate submits and polls in every round, and the kernel
\* completes what it has taken.
Fairness == WF_vars(Runs) /\ WF_vars(\E g \in aio : KernelCompletes(g))

FairSpec == Spec /\ Fairness

-----------------------------------------------------------------------------
(* Properties *)

DeferredTiocbs ==
    LET Step(s, i) == IF s = << >> \/ next[Last(s)] = NULL \/ Last(s) = deferred.tail
                      THEN s ELSE Append(s, next[Last(s)])
    IN FoldLeft(Step, IF deferred.head = NULL THEN << >> ELSE <<deferred.head>>,
                [i \in 1 .. Cardinality(Tiocbs) |-> i])

InKernel == FlattenSeq(SetToSeq(aio \union events))

\* Between the callbacks every tiocb whose owner waits is in one place, once: on
\* the queue, deferred, or in the kernel; and no owner is called back twice for
\* what it queued once.
OncePlaced ==
    /\ ~again
    /\ mode = "idle" =>
         LET places == iocbs \o DeferredTiocbs \o InKernel
         IN Range(places) = owed /\ Len(places) = Cardinality(owed)

\* The counters are those of the lists; the queue array, the events array and the
\* pool of opios, each of the size of the queue, are never exceeded.
QueueBounded ==
    /\ nTiocbs + Len(iocbs) <= Size
    /\ freeOpios \in 0 .. Size
    /\ mode = "idle" =>
         /\ nTiocbs = Len(InKernel) /\ nIocbs = Cardinality(aio \union events)
         /\ ndeferred = Len(DeferredTiocbs)

\* Every owner is called back in the end.
AllCalledBack == <>[](owed = {})
=============================================================================
