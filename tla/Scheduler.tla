----------------------------- MODULE Scheduler -----------------------------
(***************************************************************************)
(* The event loop of a tapdisk process (drivers/scheduler.c).              *)
(*                                                                         *)
(* Events sit on a list in the order of their registration.  One call of   *)
(* scheduler_wait_for_events selects, marks the ready events pending and   *)
(* walks the list running the callback of each pending one.  A callback    *)
(* may register, unregister and mask events, and may wait for events       *)
(* itself (a control handler that waits for I/O does): the walks nest, and *)
(* an inner one first continues with what the outer one left pending.      *)
(* Unregistered events stay on the list, dead, until the outermost walk    *)
(* has ended.                                                              *)
(*                                                                         *)
(* Time is abstracted: a timer that is not infinite may be found expired   *)
(* by any select.                                                          *)
(***************************************************************************)
EXTENDS Integers, Sequences, FiniteSets, SequencesExt

CONSTANTS
    MaxEvents,      \* bound on the events on the list, dead ones included
    MaxId,          \* INT_MAX, the largest event id
    MaxDepth,       \* bound on nested calls of scheduler_wait_for_events
    MaxRegister,    \* bound on registrations
    DropMasked      \* TRUE if an event that is still pending may be both
                    \* unregistered and masked

ASSUME BoundsAssumption ==
    /\ MaxEvents \in Nat \ {0}
    /\ MaxId \in Nat \ {0, 1} /\ MaxId >= MaxEvents
    /\ MaxDepth \in Nat \ {0}
    /\ MaxRegister \in Nat
    /\ DropMasked \in BOOLEAN

VARIABLES
    events,     \* s->events, in list order
    walks,      \* the nested calls: position of each walk and what it ran
    uuid,       \* s->uuid
    overflow,   \* s->uuid_overflow
    registered, \* registrations made, for the bound
    panicked    \* BUG_ON has called td_panic

vars == <<events, walks, uuid, overflow, registered, panicked>>

Modes == {"fd", "timer"}

\* A fresh event: an fd event, or a timer armed or with an infinite timeout.
Event(id, mode, inf) ==
    [id |-> id, mode |-> mode, inf |-> inf,
     masked |-> FALSE, dead |-> FALSE, pending |-> FALSE]

\* A call of scheduler_wait_for_events.  It is about to look at the event at
\* pos, or (in = TRUE) in the callback of that event.
Walk(first) == [pos |-> 1, in |-> FALSE, ran |-> FALSE, first |-> first, id |-> 0]

\* The innermost call; outside every call the owner of the loop runs.
Top == IF walks = << >> THEN [Walk(FALSE) EXCEPT !.in = TRUE] ELSE walks[Len(walks)]
SetTop(w) == [walks EXCEPT ![Len(walks)] = w]

Init ==
    /\ events = << Event(1, "fd", TRUE) >>
    /\ walks = << >>
    /\ uuid = 2
    /\ overflow = FALSE
    /\ registered = 0
    /\ panicked = FALSE

-----------------------------------------------------------------------------
(* Identifiers *)

Succ(id) == IF id = MaxId THEN 1 ELSE id + 1

\* The first identifier from id on that no event of the list carries.
FirstFree(id) ==
    LET used == {events[i].id : i \in DOMAIN events}
        free == {k \in 0 .. MaxId - 1 : ((id + k - 1) % MaxId) + 1 \notin used}
        k == CHOOSE k \in free : \A j \in free : k <= j
    IN ((id + k - 1) % MaxId) + 1

\* scheduler_get_event_uuid.
GetUuid == IF overflow THEN FirstFree(uuid) ELSE uuid

-----------------------------------------------------------------------------
(* What the owner of the loop, or a callback, may do at any time the loop is *)
(* not walking past an event.                                               *)

Running == ~panicked /\ Top.in

\* scheduler_register_event: at the tail of the list, unmasked.
RegisterEvent(mode, inf) ==
    /\ Running
    /\ registered < MaxRegister
    /\ Len(events) < MaxEvents
    /\ events' = Append(events, Event(GetUuid, mode, inf))
    /\ uuid' = Succ(GetUuid)
    /\ overflow' = (overflow \/ GetUuid = MaxId)
    /\ registered' = registered + 1
    /\ UNCHANGED <<walks, panicked>>

\* scheduler_unregister_event: the event is only marked.
UnregisterEvent(i) ==
    /\ Running
    /\ ~events[i].dead
    /\ DropMasked \/ ~(events[i].masked /\ events[i].pending)
    /\ events' = [events EXCEPT ![i].dead = TRUE]
    /\ UNCHANGED <<walks, uuid, overflow, registered, panicked>>

\* scheduler_mask_event.
MaskEvent(i, masked) ==
    /\ Running
    /\ events[i].masked # masked
    /\ DropMasked \/ ~(masked /\ events[i].dead /\ events[i].pending)
    /\ events' = [events EXCEPT ![i].masked = masked]
    /\ UNCHANGED <<walks, uuid, overflow, registered, panicked>>

\* scheduler_event_set_timeout on a timer, to infinity or to a deadline.
SetTimeout(i, inf) ==
    /\ Running
    /\ events[i].mode = "timer" /\ events[i].inf # inf
    /\ events' = [events EXCEPT ![i].inf = inf]
    /\ UNCHANGED <<walks, uuid, overflow, registered, panicked>>

-----------------------------------------------------------------------------
(* scheduler_wait_for_events *)

\* scheduler_prepare_events and select: the ready fd events are among the
\* live, unmasked ones; scheduler_check_timeouts looks at every live timer,
\* masked or not, after its BUG_ON has looked at every event.
Polled == {i \in DOMAIN events :
              events[i].mode = "fd" /\ ~events[i].masked /\ ~events[i].dead}
Timers == {i \in DOMAIN events :
              events[i].mode = "timer" /\ ~events[i].inf /\ ~events[i].dead}

CheckTimeoutsBug == \E i \in DOMAIN events : events[i].pending /\ events[i].masked

MarkPending(ready) ==
    events' = [i \in DOMAIN events |->
                  IF i \in ready THEN [events[i] EXCEPT !.pending = TRUE]
                                 ELSE events[i]]

\* The outermost call selects at once; a nested one walks what is pending.
Wait ==
    /\ Running
    /\ walks = << >> \/ Len(walks) < MaxDepth
    /\ \/ /\ walks # << >>
          /\ walks' = Append(walks, Walk(TRUE))
          /\ UNCHANGED <<events, panicked>>
       \/ /\ walks = << >>
          /\ panicked' = CheckTimeoutsBug
          /\ \E ready \in SUBSET (Polled \union Timers) : MarkPending(ready)
          /\ walks' = << Walk(FALSE) >>
    /\ UNCHANGED <<uuid, overflow, registered>>

Walking == ~panicked /\ ~Top.in

\* The walk passes an event that is dead or not pending.
SkipEvent ==
    /\ Walking /\ Top.pos \in DOMAIN events
    /\ events[Top.pos].dead \/ ~events[Top.pos].pending
    /\ walks' = SetTop([Top EXCEPT !.pos = @ + 1])
    /\ UNCHANGED <<events, uuid, overflow, registered, panicked>>

\* scheduler_run_events and scheduler_event_callback: pending is cleared
\* first; the callback of a masked event is left out.
RunEvent ==
    /\ Walking /\ Top.pos \in DOMAIN events
    /\ ~events[Top.pos].dead /\ events[Top.pos].pending
    /\ events' = [events EXCEPT ![Top.pos].pending = FALSE]
    /\ walks' = SetTop(IF events[Top.pos].masked
                       THEN [Top EXCEPT !.pos = @ + 1, !.ran = TRUE]
                       ELSE [Top EXCEPT !.in = TRUE, !.ran = TRUE,
                                        !.id = events[Top.pos].id])
    /\ UNCHANGED <<uuid, overflow, registered, panicked>>

\* The callback returns to the walk that called it.
CallbackReturns ==
    /\ ~panicked /\ walks # << >> /\ Top.in
    /\ walks' = SetTop([Top EXCEPT !.in = FALSE, !.pos = @ + 1, !.id = 0])
    /\ UNCHANGED <<events, uuid, overflow, registered, panicked>>

\* The positions of the events that are not dead, and how many of those come up to i.
Alive(es) == {i \in DOMAIN es : ~es[i].dead}
Rank(es, i) == Cardinality({j \in Alive(es) : j <= i})

\* The list without its dead events: the k-th event left is the one of rank k.
Reaped(es) ==
    [k \in 1 .. Cardinality(Alive(es)) |-> es[CHOOSE i \in Alive(es) : Rank(es, i) = k]]

\* Mutant: every call takes the dead events off the list.
GcEvents_mutant(depth, es) == Reaped(es)

\* scheduler_gc_events, by the outermost call only.
GcEvents(depth, es) == IF depth = 1 THEN Reaped(es) ELSE es

\* A walk ends.  A nested call that found nothing pending selects and walks
\* again, or returns if select fails; every other call returns.  (A select that
\* fails in the outermost call leaves everything as it is.)
EndWalk ==
    /\ Walking /\ Top.pos > Len(events)
    /\ \/ /\ Top.first /\ ~Top.ran
          /\ panicked' = CheckTimeoutsBug
          /\ \E ready \in SUBSET (Polled \union Timers) : MarkPending(ready)
          /\ walks' = SetTop(Walk(FALSE))
       \/ /\ events' = GcEvents(Len(walks), events)
          /\ walks' = Front(walks)
          /\ UNCHANGED panicked
    /\ UNCHANGED <<uuid, overflow, registered>>

Next ==
    \/ \E mode \in Modes, inf \in BOOLEAN : RegisterEvent(mode, inf)
    \/ \E i \in DOMAIN events : UnregisterEvent(i)
    \/ \E i \in DOMAIN events, masked \in BOOLEAN : MaskEvent(i, masked)
    \/ \E i \in DOMAIN events, inf \in BOOLEAN : SetTimeout(i, inf)
    \/ Wait \/ SkipEvent \/ RunEvent \/ CallbackReturns \/ EndWalk

Spec == Init /\ [][Next]_vars

-----------------------------------------------------------------------------
(* Properties *)

TypeOK ==
    /\ events \in Seq([id : 1 .. MaxId, mode : Modes, inf : BOOLEAN, masked : BOOLEAN,
                       dead : BOOLEAN, pending : BOOLEAN])
    /\ Len(events) <= MaxEvents
    /\ walks \in Seq([pos : 1 .. MaxEvents + 1, in : BOOLEAN, ran : BOOLEAN,
                      first : BOOLEAN, id : 0 .. MaxId])
    /\ Len(walks) <= MaxDepth
    /\ uuid \in 1 .. MaxId
    /\ overflow \in BOOLEAN
    /\ registered \in 0 .. MaxRegister
    /\ panicked \in BOOLEAN

\* No two events of the list have the same id, however often the ids have
\* wrapped: an owner that unregisters or masks its event never hits another.
UniqueIds ==
    \A i, j \in DOMAIN events : i # j => events[i].id # events[j].id

\* A callback that waits for events finds its own event, and the list its
\* walk continues on, where they were: nothing a nested walk unregisters or
\* runs is taken off the list under an outer walk.
WalkSafe ==
    \A k \in DOMAIN walks :
        walks[k].in => /\ walks[k].pos \in DOMAIN events
                       /\ events[walks[k].pos].id = walks[k].id

\* An event found ready is run, or was masked or unregistered by a callback
\* before its turn: none is still pending when the loop goes back to select.
NoneForgotten ==
    walks = << >> => \A i \in DOMAIN events : ~events[i].pending

\* The BUG_ON of scheduler_check_timeouts never fires.
NeverPanics == ~panicked

\* What the owners of events rely on, whatever callbacks do to the list they are
\* called from.
SchedulerSafe == UniqueIds /\ WalkSafe /\ NoneForgotten /\ NeverPanics
=============================================================================
