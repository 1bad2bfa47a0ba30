--------------------------- MODULE SchedulerProofs ---------------------------
(* The event loop: what the owners of events rely on, for every number of   *)
(* events, every range of ids and every depth of nested calls.              *)
EXTENDS Scheduler, FiniteSetTheorems, WellFoundedInduction, TLAPS

EventType == [id : 1 .. MaxId, mode : Modes, inf : BOOLEAN, masked : BOOLEAN,
              dead : BOOLEAN, pending : BOOLEAN]

WalkType == [pos : 1 .. MaxEvents + 1, in : BOOLEAN, ran : BOOLEAN,
             first : BOOLEAN, id : 0 .. MaxId]

-----------------------------------------------------------------------------
(* Natural numbers *)

\* A set of natural numbers has a least element.
LEMMA LeastNatural ==
  ASSUME NEW S \in SUBSET Nat, S # {}
  PROVE  \E n \in S : \A m \in S : n <= m
<1> DEFINE R == OpToRel(<, Nat)
<1>1. IsWellFoundedOn(R, Nat)
  BY NatLessThanWellFounded
<1> HIDE DEF R
<1>2. PICK x \in S : \A y \in S : ~(<<y, x>> \in R)
  BY <1>1, WFMin
<1>3. \A y \in S : ~(y < x)
  BY <1>2 DEF R, OpToRel
<1> QED BY <1>3

LEMMA Modulo ==
  ASSUME NEW N \in Nat \ {0}, NEW a \in 0 .. N - 1
  PROVE  a % N = a /\ (a + N) % N = a
OBVIOUS

\* A function on 1 .. n is a sequence.
LEMMA FunctionIsSeq ==
  ASSUME NEW n \in Nat, NEW S, NEW f \in [1 .. n -> S]
  PROVE  f \in Seq(S) /\ Len(f) = n /\ DOMAIN f = 1 .. n
OBVIOUS

LEMMA AppendSeq ==
  ASSUME NEW S, NEW s \in Seq(S), NEW e \in S
  PROVE  /\ Append(s, e) \in Seq(S) /\ Len(Append(s, e)) = Len(s) + 1
         /\ Append(s, e) # << >> /\ DOMAIN Append(s, e) = 1 .. Len(s) + 1
         /\ Append(s, e)[Len(s) + 1] = e /\ \A k \in 1 .. Len(s) : Append(s, e)[k] = s[k]
OBVIOUS

-----------------------------------------------------------------------------
(* Identifiers *)

\* The ids of fewer than MaxId events leave one free.
LEMMA SomeIdFree ==
  ASSUME NEW es \in Seq(EventType), Len(es) < MaxId
  PROVE  \E v \in 1 .. MaxId : \A i \in DOMAIN es : es[i].id # v
<1> SUFFICES ASSUME \A v \in 1 .. MaxId : \E i \in DOMAIN es : es[i].id = v PROVE FALSE
  OBVIOUS
<1> DEFINE f == [i \in 1 .. Len(es) |-> es[i].id]
<1>1. MaxId \in Nat \ {0} /\ Len(es) \in Nat /\ DOMAIN es = 1 .. Len(es)
  BY BoundsAssumption
<1>2. f \in [1 .. Len(es) -> 1 .. MaxId]
  <2>1. \A i \in 1 .. Len(es) : es[i] \in EventType
    BY <1>1
  <2>2. \A e \in EventType : e.id \in 1 .. MaxId
    BY DEF EventType
  <2> QED BY <2>1, <2>2
<1>3. f \in Surjection(1 .. Len(es), 1 .. MaxId)
  BY <1>1, <1>2 DEF Surjection
<1>4. /\ IsFiniteSet(1 .. Len(es))
      /\ Cardinality(1 .. Len(es)) = Len(es) /\ Cardinality(1 .. MaxId) = MaxId
  <2>1. 1 \in Int /\ Len(es) \in Int /\ MaxId \in Int
    BY <1>1
  <2>2. IsFiniteSet(1 .. Len(es))
    BY <2>1, FS_Interval
  <2>3. Cardinality(1 .. Len(es)) = IF 1 > Len(es) THEN 0 ELSE Len(es) - 1 + 1
    BY <2>1, FS_Interval
  <2>4. Cardinality(1 .. MaxId) = IF 1 > MaxId THEN 0 ELSE MaxId - 1 + 1
    BY <2>1, FS_Interval
  <2> QED BY <1>1, <2>2, <2>3, <2>4
<1>5. Cardinality(1 .. MaxId) <= Cardinality(1 .. Len(es))
  BY <1>3, <1>4, FS_Surjection
<1> QED BY <1>1, <1>4, <1>5

\* The search of scheduler_get_event_uuid ends, at an id that no event has.
LEMMA FirstFreeIsFree ==
  ASSUME NEW id \in 1 .. MaxId, events \in Seq(EventType), Len(events) < MaxId
  PROVE  /\ FirstFree(id) \in 1 .. MaxId
         /\ \A i \in DOMAIN events : events[i].id # FirstFree(id)
<1> DEFINE used == {events[i].id : i \in DOMAIN events}
           free == {k \in 0 .. MaxId - 1 : ((id + k - 1) % MaxId) + 1 \notin used}
<1>1. MaxId \in Nat \ {0}
  BY BoundsAssumption
<1>2. PICK v \in 1 .. MaxId : v \notin used
  BY SomeIdFree
<1>3. free # {}
  <2>1. CASE v >= id
    <3> DEFINE k == v - id
    <3>1. id + k - 1 = v - 1 /\ k \in 0 .. MaxId - 1
      BY <1>1, <2>1
    <3>2. (id + k - 1) % MaxId = v - 1
      BY <1>1, <3>1, Modulo
    <3> HIDE DEF k, used
    <3>3. ((id + k - 1) % MaxId) + 1 \notin used
      BY <1>2, <3>2
    <3> QED BY <3>1, <3>3
  <2>2. CASE v < id
    <3> DEFINE k == v - id + MaxId
    <3>1. id + k - 1 = (v - 1) + MaxId /\ k \in 0 .. MaxId - 1
      BY <1>1, <2>2
    <3>2. (id + k - 1) % MaxId = v - 1
      BY <1>1, <3>1, Modulo
    <3> HIDE DEF k, used
    <3>3. ((id + k - 1) % MaxId) + 1 \notin used
      BY <1>2, <3>2
    <3> QED BY <3>1, <3>3
  <2> QED BY <1>1, <2>1, <2>2
<1>4. PICK n \in free : \A m \in free : n <= m
  <2>1. free \in SUBSET Nat
    BY <1>1
  <2> HIDE DEF free
  <2> QED BY <2>1, <1>3, LeastNatural
<1> DEFINE k == CHOOSE k \in free : \A j \in free : k <= j
<1>5. k \in free
  BY <1>4
<1>6. FirstFree(id) = ((id + k - 1) % MaxId) + 1
  BY DEF FirstFree
<1> HIDE DEF k
<1>7. (id + k - 1) % MaxId \in 0 .. MaxId - 1
  BY <1>1, <1>5
<1> QED BY <1>1, <1>5, <1>6, <1>7

-----------------------------------------------------------------------------
(* scheduler_gc_events *)

LEMMA AliveFinite ==
  ASSUME NEW es \in Seq(EventType)
  PROVE  /\ Alive(es) \in SUBSET (1 .. Len(es)) /\ IsFiniteSet(Alive(es))
         /\ Cardinality(Alive(es)) \in 0 .. Len(es)
<1>1. Alive(es) \in SUBSET (1 .. Len(es)) /\ Len(es) \in Nat
  BY DEF Alive
<1>2. IsFiniteSet(1 .. Len(es)) /\ Cardinality(1 .. Len(es)) = IF 1 > Len(es) THEN 0 ELSE Len(es) - 1 + 1
  <2>1. 1 \in Int /\ Len(es) \in Int
    BY <1>1
  <2> QED BY <2>1, FS_Interval
<1>3. IsFiniteSet(Alive(es)) /\ Cardinality(Alive(es)) <= Cardinality(1 .. Len(es))
  BY <1>1, <1>2, FS_Subset
<1>4. Cardinality(Alive(es)) \in Nat
  BY <1>3, FS_CardinalityType
<1> QED BY <1>1, <1>2, <1>3, <1>4

\* There is an event of every rank.
LEMMA RankReached ==
  ASSUME NEW es \in Seq(EventType), NEW k \in 1 .. Cardinality(Alive(es))
  PROVE  \E i \in Alive(es) : Rank(es, i) = k
<1> DEFINE n == Len(es)
           upto(i) == {j \in Alive(es) : j <= i}
           S == {i \in Nat : Cardinality(upto(i)) >= k}
<1>1. /\ n \in Nat /\ Alive(es) \in SUBSET (1 .. n) /\ IsFiniteSet(Alive(es))
      /\ k \in Nat \ {0} /\ k <= Cardinality(Alive(es))
  BY AliveFinite
<1>2. \A i : upto(i) \in SUBSET Alive(es)
  OBVIOUS
<1>3. upto(n) = Alive(es) /\ upto(0) = {}
  BY <1>1
<1>4. ASSUME NEW i \in Nat \ {0}
      PROVE  IF i \in Alive(es) THEN upto(i) = upto(i - 1) \cup {i} /\ i \notin upto(i - 1)
                                ELSE upto(i) = upto(i - 1)
  BY <1>1
<1>5. \A i : Rank(es, i) = Cardinality(upto(i))
  BY DEF Rank
<1> HIDE DEF upto
<1>6. \A i : IsFiniteSet(upto(i)) /\ Cardinality(upto(i)) \in Nat
  BY <1>1, <1>2, FS_Subset, FS_CardinalityType
<1>7. PICK i \in S : \A m \in S : i <= m
  <2>1. S \in SUBSET Nat /\ n \in S
    BY <1>1, <1>3
  <2> HIDE DEF S
  <2> QED BY <2>1, LeastNatural
<1>8. i \in Nat \ {0}
  <2>1. Cardinality(upto(0)) = 0
    BY <1>3, FS_EmptySet
  <2> QED BY <1>1, <1>7, <2>1
<1>9. Cardinality(upto(i)) >= k /\ Cardinality(upto(i - 1)) < k
  <2>1. i - 1 \in Nat /\ i - 1 \notin S
    BY <1>7, <1>8
  <2> QED BY <1>1, <1>6, <1>7, <2>1
<1>10. CASE i \in Alive(es)
  <2>1. Cardinality(upto(i)) = Cardinality(upto(i - 1)) + 1
    BY <1>4, <1>6, <1>8, <1>10, FS_AddElement
  <2>2. Cardinality(upto(i)) = k
    BY <1>1, <1>6, <1>9, <2>1
  <2> QED BY <1>5, <1>10, <2>2
<1>11. CASE i \notin Alive(es)
  BY <1>1, <1>4, <1>6, <1>8, <1>9, <1>11
<1> QED BY <1>10, <1>11

\* What is left on the list is live events of it, no two of them the same.
LEMMA ReapedEvents ==
  ASSUME NEW es \in Seq(EventType)
  PROVE  /\ Reaped(es) \in Seq(EventType) /\ Len(Reaped(es)) <= Len(es)
         /\ \E f \in [1 .. Len(Reaped(es)) -> Alive(es)] :
               /\ \A k \in 1 .. Len(Reaped(es)) : Reaped(es)[k] = es[f[k]]
               /\ \A k, m \in 1 .. Len(Reaped(es)) : k # m => f[k] # f[m]
<1> DEFINE n == Cardinality(Alive(es))
           f == [k \in 1 .. n |-> CHOOSE i \in Alive(es) : Rank(es, i) = k]
<1>1. n \in Nat /\ n <= Len(es) /\ Alive(es) \in SUBSET (1 .. Len(es))
  BY AliveFinite
<1>2. ASSUME NEW k \in 1 .. n PROVE f[k] \in Alive(es) /\ Rank(es, f[k]) = k
  BY RankReached
<1>3. Reaped(es) = [k \in 1 .. n |-> es[f[k]]]
  BY DEF Reaped
<1>4. f \in [1 .. n -> Alive(es)]
  BY <1>2
<1> HIDE DEF f, n
<1>5. Reaped(es) \in [1 .. n -> EventType]
  BY <1>1, <1>3, <1>4
<1>6. Reaped(es) \in Seq(EventType) /\ Len(Reaped(es)) = n
  BY <1>1, <1>5, FunctionIsSeq
<1>7. \A k, m \in 1 .. n : k # m => f[k] # f[m]
  BY <1>2
<1> QED BY <1>1, <1>3, <1>4, <1>6, <1>7

-----------------------------------------------------------------------------
(* The inductive invariant *)

\* While the ids have not wrapped, the next one is above all that are in use.
FreshIds == ~overflow => \A i \in DOMAIN events : events[i].id < uuid

\* The innermost walk has left no live event pending behind it, nor the event whose
\* callback it is in.
Behind(i) == i < Top.pos \/ (Top.in /\ i = Top.pos)

WalkedClean ==
    walks # << >> => \A i \in DOMAIN events : Behind(i) => events[i].dead \/ ~events[i].pending

ListInv == TypeOK /\ UniqueIds /\ FreshIds /\ WalkSafe
WalkInv == NoneForgotten /\ WalkedClean

\* The list is the same, event by event, but for the fields that owners change.
SameEvents(es) ==
    /\ es \in Seq(EventType) /\ Len(es) = Len(events)
    /\ \A i \in 1 .. Len(events) : es[i].id = events[i].id

LEMMA EventTypes ==
  ASSUME NEW e \in EventType, NEW b \in BOOLEAN
  PROVE  /\ [e EXCEPT !.dead = b] \in EventType /\ [e EXCEPT !.masked = b] \in EventType
         /\ [e EXCEPT !.inf = b] \in EventType /\ [e EXCEPT !.pending = b] \in EventType
BY DEF EventType

LEMMA EventFields ==
  \A e \in EventType : \A b \in BOOLEAN :
    /\ LET f == [e EXCEPT !.dead = b] IN f.masked = e.masked /\ f.pending = e.pending
    /\ LET f == [e EXCEPT !.inf = b]
       IN f.dead = e.dead /\ f.masked = e.masked /\ f.pending = e.pending
BY DEF EventType

LEMMA MaskFields ==
  \A e \in EventType : \A b \in BOOLEAN :
    LET f == [e EXCEPT !.masked = b]
    IN f.dead = e.dead /\ f.pending = e.pending /\ (f.masked => b)
BY DEF EventType

LEMMA TypeFacts ==
  ASSUME TypeOK
  PROVE  /\ events \in Seq(EventType) /\ Len(events) \in 0 .. MaxEvents
         /\ DOMAIN events = 1 .. Len(events)
         /\ \A i \in 1 .. Len(events) : events[i] \in EventType
         /\ walks \in Seq(WalkType) /\ Len(walks) \in 0 .. MaxDepth
         /\ DOMAIN walks = 1 .. Len(walks)
         /\ \A k \in 1 .. Len(walks) : walks[k] \in WalkType
         /\ walks # << >> => Top = walks[Len(walks)] /\ Len(walks) \in 1 .. MaxDepth
         /\ walks = << >> => Len(walks) = 0
<1>1. events \in Seq(EventType) /\ walks \in Seq(WalkType)
  BY DEF TypeOK, EventType, WalkType
<1>2. Len(events) <= MaxEvents /\ Len(walks) <= MaxDepth /\ MaxEvents \in Nat /\ MaxDepth \in Nat
  BY BoundsAssumption DEF TypeOK
<1> QED BY <1>1, <1>2 DEF Top

LEMMA WalkTypes ==
  /\ \A b \in BOOLEAN : Walk(b) \in WalkType
  /\ \A w \in WalkType, p \in 1 .. MaxEvents + 1 :
        /\ [w EXCEPT !.pos = p] \in WalkType
        /\ [w EXCEPT !.pos = p, !.ran = TRUE] \in WalkType
        /\ [w EXCEPT !.in = FALSE, !.pos = p, !.id = 0] \in WalkType
  /\ \A w \in WalkType, i \in 0 .. MaxId : [w EXCEPT !.in = TRUE, !.ran = TRUE, !.id = i] \in WalkType
<1>1. MaxEvents \in Nat \ {0} /\ MaxId \in Nat \ {0}
  BY BoundsAssumption
<1>2. 1 \in 1 .. MaxEvents + 1 /\ 0 \in 0 .. MaxId
  BY <1>1
<1> QED BY <1>2, Zenon DEF Walk, WalkType

\* Replacing the innermost walk.
LEMMA SetTopSeq ==
  ASSUME TypeOK, walks # << >>, NEW w \in WalkType
  PROVE  /\ SetTop(w) \in Seq(WalkType) /\ Len(SetTop(w)) = Len(walks)
         /\ SetTop(w)[Len(walks)] = w /\ SetTop(w) # << >>
         /\ \A k \in 1 .. Len(walks) - 1 : SetTop(w)[k] = walks[k]
<1>1. walks \in Seq(WalkType) /\ Len(walks) \in 1 .. MaxDepth
  BY TypeFacts
<1> QED BY <1>1 DEF SetTop

LEMMA TypeFromFacts ==
  ASSUME events \in Seq(EventType), Len(events) <= MaxEvents,
         walks \in Seq(WalkType), Len(walks) <= MaxDepth,
         uuid \in 1 .. MaxId, overflow \in BOOLEAN, registered \in 0 .. MaxRegister,
         panicked \in BOOLEAN
  PROVE  TypeOK
BY DEF TypeOK, EventType, WalkType

-----------------------------------------------------------------------------
(* Steps that leave the list as long as it is: what they keep of it. *)

LEMMA SameListKept ==
  ASSUME ListInv, SameEvents(events'), UNCHANGED <<uuid, overflow, registered>>,
         panicked' \in BOOLEAN, walks' \in Seq(WalkType), Len(walks') <= MaxDepth,
         \A k \in DOMAIN walks' :
            walks'[k].in => \/ k \in DOMAIN walks /\ walks'[k] = walks[k]
                           \/ /\ walks'[k].pos \in DOMAIN events
                              /\ events[walks'[k].pos].id = walks'[k].id
  PROVE  ListInv'
<1>1. /\ events' \in Seq(EventType) /\ Len(events') = Len(events)
      /\ DOMAIN events' = 1 .. Len(events) /\ DOMAIN events = 1 .. Len(events)
      /\ \A i \in 1 .. Len(events) : events'[i].id = events[i].id
  BY TypeFacts DEF ListInv, SameEvents
<1>2. TypeOK'
  BY <1>1 DEF ListInv, TypeOK, EventType, WalkType
<1>3. UniqueIds'
  BY <1>1 DEF ListInv, UniqueIds
<1>4. FreshIds'
  BY <1>1 DEF ListInv, FreshIds
<1>5. WalkSafe'
  BY <1>1 DEF ListInv, WalkSafe
<1> QED BY <1>2, <1>3, <1>4, <1>5 DEF ListInv

\* What an owner does to its own event.
OwnerStep ==
    \/ \E i \in DOMAIN events : UnregisterEvent(i)
    \/ \E i \in DOMAIN events, masked \in BOOLEAN : MaskEvent(i, masked)
    \/ \E i \in DOMAIN events, inf \in BOOLEAN : SetTimeout(i, inf)

\* No event becomes pending and no dead event comes to life.
NoneRoused ==
    \A i \in 1 .. Len(events) :
        /\ events'[i].pending => events[i].pending
        /\ events[i].dead => events'[i].dead

LEMMA OwnerStepChanges ==
  ASSUME TypeOK, OwnerStep
  PROVE  /\ SameEvents(events') /\ NoneRoused
         /\ UNCHANGED <<walks, uuid, overflow, registered, panicked>>
<1>1. /\ events \in Seq(EventType) /\ Len(events) \in Nat /\ DOMAIN events = 1 .. Len(events)
      /\ \A i \in 1 .. Len(events) : events[i] \in EventType
  BY TypeFacts
<1>2. ASSUME NEW i \in DOMAIN events, UnregisterEvent(i)
      PROVE  \E e \in EventType : /\ e.id = events[i].id /\ e.pending = events[i].pending
                                  /\ events[i].dead => e.dead
                                  /\ events' = [events EXCEPT ![i] = e]
  <2>1. /\ [events[i] EXCEPT !.dead = TRUE] \in EventType
        /\ events' = [events EXCEPT ![i] = [events[i] EXCEPT !.dead = TRUE]]
    BY <1>1, <1>2, EventTypes DEF UnregisterEvent
  <2> QED BY <1>1, <2>1 DEF EventType
<1>3. ASSUME NEW i \in DOMAIN events, NEW b \in BOOLEAN, MaskEvent(i, b)
      PROVE  \E e \in EventType : /\ e.id = events[i].id /\ e.pending = events[i].pending
                                  /\ events[i].dead => e.dead
                                  /\ events' = [events EXCEPT ![i] = e]
  <2>1. /\ [events[i] EXCEPT !.masked = b] \in EventType
        /\ events' = [events EXCEPT ![i] = [events[i] EXCEPT !.masked = b]]
    BY <1>1, <1>3, EventTypes DEF MaskEvent
  <2> QED BY <1>1, <2>1 DEF EventType
<1>4. ASSUME NEW i \in DOMAIN events, NEW b \in BOOLEAN, SetTimeout(i, b)
      PROVE  \E e \in EventType : /\ e.id = events[i].id /\ e.pending = events[i].pending
                                  /\ events[i].dead => e.dead
                                  /\ events' = [events EXCEPT ![i] = e]
  <2>1. /\ [events[i] EXCEPT !.inf = b] \in EventType
        /\ events' = [events EXCEPT ![i] = [events[i] EXCEPT !.inf = b]]
    BY <1>1, <1>4, EventTypes DEF SetTimeout
  <2> QED BY <1>1, <2>1 DEF EventType
<1>5. PICK i \in DOMAIN events : \E e \in EventType :
            /\ e.id = events[i].id /\ e.pending = events[i].pending
            /\ events[i].dead => e.dead
            /\ events' = [events EXCEPT ![i] = e]
  BY <1>2, <1>3, <1>4 DEF OwnerStep
<1>6. UNCHANGED <<walks, uuid, overflow, registered, panicked>>
  BY DEF OwnerStep, UnregisterEvent, MaskEvent, SetTimeout
<1>7. PICK e \in EventType :
            /\ e.id = events[i].id /\ e.pending = events[i].pending
            /\ events[i].dead => e.dead
            /\ events' = [events EXCEPT ![i] = e]
  BY <1>5
<1>8. i \in 1 .. Len(events)
  BY <1>1
<1>9. events' \in Seq(EventType) /\ Len(events') = Len(events)
  BY <1>1, <1>7, <1>8
<1>10. \A j \in 1 .. Len(events) : IF j = i THEN events'[j] = e ELSE events'[j] = events[j]
  BY <1>1, <1>7, <1>8
<1>11. SameEvents(events')
  BY <1>7, <1>9, <1>10 DEF SameEvents
<1>12. NoneRoused
  BY <1>7, <1>10, Zenon DEF NoneRoused
<1> QED BY <1>6, <1>11, <1>12

LEMMA OwnerStepKeeps ==
  ASSUME ListInv, WalkInv, OwnerStep
  PROVE  ListInv' /\ WalkInv'
<1> USE DEF ListInv, WalkInv
<1>1. /\ SameEvents(events') /\ NoneRoused
      /\ UNCHANGED <<walks, uuid, overflow, registered, panicked>>
  BY OwnerStepChanges
<1>2. ListInv'
  BY <1>1, SameListKept, TypeFacts DEF TypeOK
<1>3. DOMAIN events' = DOMAIN events /\ DOMAIN events = 1 .. Len(events)
  BY <1>1, TypeFacts DEF SameEvents
<1>4. Top' = Top
  BY <1>1 DEF Top, Walk
<1>5. NoneForgotten'
  BY <1>1, <1>3, Zenon DEF NoneForgotten, NoneRoused
<1>6. WalkedClean'
  <2>1. SUFFICES ASSUME walks # << >>, NEW i \in 1 .. Len(events), Behind(i)
                 PROVE  events'[i].dead \/ ~events'[i].pending
    BY <1>1, <1>3, <1>4 DEF WalkedClean, Behind
  <2>2. events[i].dead \/ ~events[i].pending
    BY <1>3, <2>1 DEF WalkedClean
  <2> QED BY <1>1, <2>2, Zenon DEF NoneRoused
<1> QED BY <1>2, <1>5, <1>6

-----------------------------------------------------------------------------
(* Registration *)

LEMMA RegisterKeeps ==
  ASSUME ListInv, WalkInv, NEW mode \in Modes, NEW inf \in BOOLEAN, RegisterEvent(mode, inf)
  PROVE  ListInv' /\ WalkInv'
<1> USE DEF ListInv, WalkInv
<1> DEFINE id == GetUuid
           new == Event(id, mode, inf)
           n == Len(events)
<1>1. /\ events \in Seq(EventType) /\ n \in Nat /\ DOMAIN events = 1 .. n
      /\ \A i \in 1 .. n : events[i] \in EventType
  BY TypeFacts
<1>2. /\ MaxId \in Nat \ {0, 1} /\ MaxEvents \in Nat /\ MaxId >= MaxEvents /\ MaxRegister \in Nat
      /\ n < MaxEvents /\ registered < MaxRegister /\ registered \in Nat
      /\ uuid \in 1 .. MaxId /\ overflow \in BOOLEAN
  BY BoundsAssumption DEF RegisterEvent, TypeOK
<1>3. /\ id \in 1 .. MaxId /\ \A i \in 1 .. n : events[i].id # id
      /\ ~overflow => id = uuid
  <2>1. CASE overflow
    <3>1. Len(events) < MaxId
      BY <1>1, <1>2
    <3>2. /\ FirstFree(uuid) \in 1 .. MaxId
          /\ \A i \in DOMAIN events : events[i].id # FirstFree(uuid)
      BY <1>1, <1>2, <3>1, FirstFreeIsFree
    <3>3. id = FirstFree(uuid)
      BY <2>1 DEF GetUuid
    <3> QED BY <1>1, <2>1, <3>2, <3>3
  <2>2. CASE ~overflow
    <3>1. \A i \in 1 .. n : events[i].id \in 1 .. MaxId
      BY <1>1 DEF EventType
    <3> QED BY <1>1, <1>2, <2>2, <3>1 DEF GetUuid, FreshIds
  <2> QED BY <2>1, <2>2
<1> HIDE DEF id
<1>4. new \in EventType /\ new.id = id /\ new.pending = FALSE
  BY <1>3 DEF Event, EventType
<1>5. /\ events' = Append(events, new) /\ uuid' = Succ(id)
      /\ overflow' = (overflow \/ id = MaxId) /\ registered' = registered + 1
      /\ UNCHANGED <<walks, panicked>>
  BY DEF RegisterEvent, id
<1> HIDE DEF new
<1>6. /\ events' \in Seq(EventType) /\ Len(events') = n + 1 /\ DOMAIN events' = 1 .. n + 1
      /\ \A i \in 1 .. n : events'[i] = events[i]
      /\ events'[n + 1] = new
  BY <1>1, <1>4, <1>5
<1>7. uuid' \in 1 .. MaxId /\ (id # MaxId => uuid' = id + 1)
  BY <1>2, <1>3, <1>5 DEF Succ
<1>8. TypeOK'
  <2>1. Len(events') <= MaxEvents /\ registered' \in 0 .. MaxRegister /\ overflow' \in BOOLEAN
    BY <1>2, <1>5, <1>6
  <2> QED BY <2>1, <1>5, <1>6, <1>7 DEF TypeOK, EventType
<1>9. UniqueIds'
  BY <1>1, <1>3, <1>4, <1>6 DEF UniqueIds
<1>10. FreshIds'
  <2>1. SUFFICES ASSUME ~overflow', NEW i \in 1 .. n + 1 PROVE events'[i].id < uuid'
    BY <1>6 DEF FreshIds
  <2>2. ~overflow /\ id # MaxId /\ id = uuid /\ uuid' = id + 1
    BY <1>3, <1>5, <1>7, <2>1
  <2>3. CASE i = n + 1
    BY <1>3, <1>4, <1>6, <2>2, <2>3
  <2>4. CASE i \in 1 .. n
    <3>1. events[i].id \in 1 .. MaxId /\ events[i].id < uuid
      BY <1>1, <2>2, <2>4 DEF FreshIds, EventType
    <3> QED BY <1>3, <1>6, <2>2, <2>4, <3>1
  <2> QED BY <1>1, <2>1, <2>3, <2>4
<1>11. WalkSafe'
  BY <1>1, <1>5, <1>6 DEF WalkSafe
<1>12. Top' = Top
  BY <1>5 DEF Top, Walk
<1>13. NoneForgotten'
  BY <1>1, <1>4, <1>5, <1>6 DEF NoneForgotten
<1>14. WalkedClean'
  BY <1>1, <1>4, <1>5, <1>6, <1>12 DEF WalkedClean, Behind
<1> QED BY <1>8, <1>9, <1>10, <1>11, <1>13, <1>14

-----------------------------------------------------------------------------
(* scheduler_wait_for_events *)

\* Marking the ready events pending changes nothing else.
LEMMA MarkPendingSame ==
  ASSUME TypeOK, NEW ready, MarkPending(ready)
  PROVE  SameEvents(events')
<1>1. /\ events \in Seq(EventType) /\ Len(events) \in Nat /\ DOMAIN events = 1 .. Len(events)
      /\ \A i \in 1 .. Len(events) : events[i] \in EventType
  BY TypeFacts
<1>2. \A i \in 1 .. Len(events) :
        /\ [events[i] EXCEPT !.pending = TRUE] \in EventType
        /\ [events[i] EXCEPT !.pending = TRUE].id = events[i].id
  BY <1>1, EventTypes, ZenonT(40) DEF EventType
<1>3. events' \in [1 .. Len(events) -> EventType]
  BY <1>1, <1>2 DEF MarkPending
<1>4. events' \in Seq(EventType) /\ Len(events') = Len(events)
  BY <1>1, <1>3, FunctionIsSeq
<1> QED BY <1>1, <1>2, <1>4 DEF SameEvents, MarkPending

LEMMA WaitKeeps ==
  ASSUME ListInv, WalkInv, Wait
  PROVE  ListInv' /\ WalkInv'
<1> USE DEF ListInv, WalkInv
<1>1. /\ walks \in Seq(WalkType) /\ Len(walks) \in 0 .. MaxDepth /\ DOMAIN walks = 1 .. Len(walks)
      /\ events \in Seq(EventType) /\ Len(events) \in Nat /\ DOMAIN events = 1 .. Len(events)
      /\ MaxDepth \in Nat \ {0}
  BY TypeFacts, BoundsAssumption
<1>2. Walk(TRUE) \in WalkType /\ Walk(FALSE) \in WalkType
  BY WalkTypes
<1>3. \A b : Walk(b).in = FALSE /\ Walk(b).pos = 1
  BY DEF Walk
<1>4. CASE walks # << >> /\ walks' = Append(walks, Walk(TRUE)) /\ UNCHANGED <<events, panicked>>
  <2>1. Len(walks) < MaxDepth /\ UNCHANGED <<uuid, overflow, registered>>
    BY <1>4 DEF Wait
  <2>2. /\ walks' \in Seq(WalkType) /\ Len(walks') = Len(walks) + 1 /\ walks' # << >>
        /\ DOMAIN walks' = 1 .. Len(walks) + 1
        /\ walks'[Len(walks) + 1] = Walk(TRUE) /\ \A k \in 1 .. Len(walks) : walks'[k] = walks[k]
    <3> DEFINE w == Walk(TRUE)
    <3>1. w \in WalkType /\ walks' = Append(walks, w)
      BY <1>2, <1>4
    <3> HIDE DEF w
    <3>2. /\ walks' \in Seq(WalkType) /\ Len(walks') = Len(walks) + 1 /\ walks' # << >>
          /\ DOMAIN walks' = 1 .. Len(walks) + 1
          /\ walks'[Len(walks) + 1] = w /\ \A k \in 1 .. Len(walks) : walks'[k] = walks[k]
      BY <1>1, <3>1, AppendSeq
    <3> QED BY <3>2 DEF w
  <2>3. SameEvents(events')
    BY <1>1, <1>4 DEF SameEvents
  <2>4. ListInv'
    <3>1. panicked' \in BOOLEAN /\ Len(walks') <= MaxDepth
      BY <1>1, <1>4, <2>1, <2>2 DEF TypeOK
    <3>2. ASSUME NEW k \in DOMAIN walks', walks'[k].in
          PROVE  k \in DOMAIN walks /\ walks'[k] = walks[k]
      <4>1. Len(walks) \in Nat /\ k \in 1 .. Len(walks) + 1
        BY <1>1, <2>2
      <4>2. k # Len(walks) + 1
        <5>1. ~Walk(TRUE).in
          BY <1>3
        <5> QED BY <2>2, <3>2, <5>1
      <4> QED BY <1>1, <2>2, <4>1, <4>2
    <3> QED BY <2>1, <2>2, <2>3, <3>1, <3>2, SameListKept
  <2>5. Top'.pos = 1 /\ ~Top'.in
    BY <1>3, <2>2 DEF Top
  <2>6. \A i \in 1 .. Len(events) : ~(i < 1)
    BY <1>1
  <2>7. NoneForgotten' /\ WalkedClean'
    BY <1>1, <1>4, <2>2, <2>5, <2>6 DEF NoneForgotten, WalkedClean, Behind
  <2> QED BY <2>4, <2>7
<1>5. CASE /\ walks = << >> /\ panicked' = CheckTimeoutsBug
           /\ \E ready \in SUBSET (Polled \union Timers) : MarkPending(ready)
           /\ walks' = << Walk(FALSE) >>
  <2>1. UNCHANGED <<uuid, overflow, registered>>
    BY DEF Wait
  <2>2. SameEvents(events')
    BY <1>5, MarkPendingSame
  <2>3. /\ walks' \in Seq(WalkType) /\ Len(walks') = 1 /\ walks' # << >> /\ DOMAIN walks' = {1}
        /\ walks'[1] = Walk(FALSE)
    <3> DEFINE w == Walk(FALSE)
    <3>1. w \in WalkType /\ walks' = <<w>>
      BY <1>2, <1>5
    <3> HIDE DEF w
    <3>2. walks' \in Seq(WalkType) /\ Len(walks') = 1 /\ walks' # << >> /\ DOMAIN walks' = {1} /\ walks'[1] = w
      BY <3>1
    <3> QED BY <3>2 DEF w
  <2>4. ListInv'
    <3>1. panicked' \in BOOLEAN /\ Len(walks') <= MaxDepth
      BY <1>1, <1>5, <2>3 DEF CheckTimeoutsBug
    <3>2. \A k \in DOMAIN walks' : ~walks'[k].in
      BY <1>3, <2>3
    <3> QED BY <2>1, <2>2, <2>3, <3>1, <3>2, SameListKept
  <2>5. Top'.pos = 1 /\ ~Top'.in
    BY <1>3, <2>3 DEF Top
  <2>6. DOMAIN events' = 1 .. Len(events)
    BY <1>1, <2>2 DEF SameEvents
  <2>7. \A i \in 1 .. Len(events) : ~(i < 1)
    BY <1>1
  <2>8. NoneForgotten' /\ WalkedClean'
    BY <2>3, <2>5, <2>6, <2>7 DEF NoneForgotten, WalkedClean, Behind
  <2> QED BY <2>4, <2>8
<1> QED BY <1>4, <1>5 DEF Wait

\* A step of the innermost walk: the list stays, that walk becomes w.
LEMMA TopReplaced ==
  ASSUME ListInv, walks # << >>, NEW w \in WalkType, walks' = SetTop(w), SameEvents(events'),
         UNCHANGED <<uuid, overflow, registered>>, panicked' \in BOOLEAN,
         w.in => w.pos \in DOMAIN events /\ events[w.pos].id = w.id
  PROVE  /\ ListInv' /\ Top' = w /\ walks' # << >>
         /\ DOMAIN events' = DOMAIN events /\ DOMAIN events = 1 .. Len(events)
<1> USE DEF ListInv
<1>1. /\ walks \in Seq(WalkType) /\ DOMAIN walks = 1 .. Len(walks) /\ Len(walks) \in 1 .. MaxDepth
      /\ MaxDepth \in Nat
  BY TypeFacts, BoundsAssumption
<1>2. /\ walks' \in Seq(WalkType) /\ Len(walks') = Len(walks) /\ walks'[Len(walks)] = w
      /\ walks' # << >> /\ \A k \in 1 .. Len(walks) - 1 : walks'[k] = walks[k]
      /\ DOMAIN walks' = 1 .. Len(walks)
  <2>1. /\ SetTop(w) \in Seq(WalkType) /\ Len(SetTop(w)) = Len(walks)
        /\ SetTop(w)[Len(walks)] = w /\ SetTop(w) # << >>
        /\ \A k \in 1 .. Len(walks) - 1 : SetTop(w)[k] = walks[k]
    BY SetTopSeq
  <2>2. walks' \in Seq(WalkType) /\ Len(walks') = Len(walks) /\ DOMAIN walks' = 1 .. Len(walks')
    BY <2>1
  <2> QED BY <2>1, <2>2
<1>3. ASSUME NEW k \in DOMAIN walks', walks'[k].in
      PROVE  \/ k \in DOMAIN walks /\ walks'[k] = walks[k]
             \/ walks'[k].pos \in DOMAIN events /\ events[walks'[k].pos].id = walks'[k].id
  <2>1. CASE k = Len(walks)
    BY <1>2, <1>3, <2>1
  <2>2. CASE k # Len(walks)
    <3>1. k \in 1 .. Len(walks) - 1
      BY <1>1, <1>2, <1>3, <2>2
    <3> QED BY <1>1, <1>2, <3>1
  <2> QED BY <2>1, <2>2
<1>4. ListInv'
  <2>1. Len(walks') <= MaxDepth
    BY <1>1, <1>2
  <2> QED BY <1>2, <1>3, <2>1, SameListKept
<1>5. DOMAIN events' = DOMAIN events /\ DOMAIN events = 1 .. Len(events)
  BY TypeFacts DEF SameEvents
<1> QED BY <1>2, <1>4, <1>5 DEF Top

\* The innermost walk, while a call is under way.
LEMMA TopFacts ==
  ASSUME TypeOK, walks # << >>
  PROVE  /\ Top \in WalkType /\ Top = walks[Len(walks)] /\ Len(walks) \in DOMAIN walks
         /\ Top.pos \in 1 .. MaxEvents + 1 /\ Top.in \in BOOLEAN
<1>1. Len(walks) \in DOMAIN walks /\ Top = walks[Len(walks)] /\ Top \in WalkType
  BY TypeFacts, BoundsAssumption
<1> QED BY <1>1 DEF WalkType

LEMMA SkipKeeps ==
  ASSUME ListInv, WalkInv, SkipEvent
  PROVE  ListInv' /\ WalkInv'
<1> USE DEF ListInv, WalkInv
<1>1. /\ walks # << >> /\ ~Top.in /\ Top.pos \in DOMAIN events
      /\ events[Top.pos].dead \/ ~events[Top.pos].pending
      /\ walks' = SetTop([Top EXCEPT !.pos = @ + 1])
      /\ UNCHANGED <<events, uuid, overflow, registered, panicked>>
  BY DEF SkipEvent, Walking, Top, Walk
<1>2. /\ Top \in WalkType /\ DOMAIN events = 1 .. Len(events) /\ Len(events) \in 0 .. MaxEvents
      /\ events \in Seq(EventType) /\ MaxEvents \in Nat /\ panicked' \in BOOLEAN
  BY <1>1, TopFacts, TypeFacts, BoundsAssumption DEF TypeOK
<1> DEFINE p == Top.pos + 1
           w == [Top EXCEPT !.pos = p]
<1>3. p \in 1 .. MaxEvents + 1
  BY <1>1, <1>2
<1>4. w \in WalkType /\ walks' = SetTop(w) /\ w.in = FALSE /\ w.pos = p
  <2> HIDE DEF p
  <2>1. w \in WalkType /\ w.in = FALSE /\ w.pos = p
    BY <1>1, <1>2, <1>3, WalkTypes DEF WalkType
  <2> QED BY <1>1, <2>1 DEF p
<1> HIDE DEF w
<1>5. SameEvents(events')
  BY <1>1, <1>2 DEF SameEvents
<1>6. ListInv' /\ Top' = w /\ walks' # << >>
  BY <1>1, <1>2, <1>4, <1>5, TopReplaced
<1>7. \A i \in 1 .. Len(events) : i < p => i < Top.pos \/ i = Top.pos
  BY <1>1, <1>2
<1>8. WalkedClean'
  BY <1>1, <1>2, <1>4, <1>6, <1>7 DEF WalkedClean, Behind
<1> QED BY <1>6, <1>8 DEF NoneForgotten

LEMMA RunKeeps ==
  ASSUME ListInv, WalkInv, RunEvent
  PROVE  ListInv' /\ WalkInv'
<1> USE DEF ListInv, WalkInv
<1>1. /\ walks # << >> /\ ~Top.in /\ Top.pos \in DOMAIN events
      /\ events' = [events EXCEPT ![Top.pos].pending = FALSE]
      /\ UNCHANGED <<uuid, overflow, registered, panicked>>
  BY DEF RunEvent, Walking, Top, Walk
<1>2. /\ Top \in WalkType /\ DOMAIN events = 1 .. Len(events) /\ Len(events) \in 0 .. MaxEvents
      /\ events \in Seq(EventType) /\ MaxEvents \in Nat /\ panicked' \in BOOLEAN
      /\ \A i \in 1 .. Len(events) : events[i] \in EventType
  BY <1>1, TopFacts, TypeFacts, BoundsAssumption DEF TypeOK
<1> DEFINE t == Top.pos
           e == [events[t] EXCEPT !.pending = FALSE]
           p == t + 1
           id == events[t].id
<1>3. e \in EventType /\ e.id = id /\ e.pending = FALSE
  <2>1. \A v \in EventType : /\ [v EXCEPT !.pending = FALSE] \in EventType
                             /\ [v EXCEPT !.pending = FALSE].id = v.id
                             /\ [v EXCEPT !.pending = FALSE].pending = FALSE
    BY DEF EventType
  <2>2. events[t] \in EventType
    BY <1>1, <1>2
  <2> QED BY <2>1, <2>2
<1>4. t \in 1 .. Len(events) /\ p \in 1 .. MaxEvents + 1 /\ id \in 1 .. MaxId
  BY <1>1, <1>2 DEF EventType
<1>5. events' = [events EXCEPT ![t] = e]
  BY <1>1
<1> HIDE DEF e
<1>6. /\ events' \in Seq(EventType) /\ Len(events') = Len(events) /\ events'[t] = e
      /\ \A i \in 1 .. Len(events) : i # t => events'[i] = events[i]
  BY <1>2, <1>3, <1>4, <1>5
<1>7. SameEvents(events')
  BY <1>3, <1>6 DEF SameEvents
<1>8. PICK w \in WalkType :
         /\ walks' = SetTop(w) /\ w.pos \in {t, p}
         /\ w.in => w.pos = t /\ w.id = id
  <2> HIDE DEF t, p, id
  <2>1. CASE events[t].masked
    <3> DEFINE w == [Top EXCEPT !.pos = p, !.ran = TRUE]
    <3>1. w \in WalkType /\ w.pos = p /\ w.in = FALSE
      BY <1>1, <1>2, <1>4, WalkTypes DEF WalkType
    <3>2. walks' = SetTop(w)
      BY <2>1 DEF RunEvent, t, p
    <3> QED BY <3>1, <3>2
  <2>2. CASE ~events[t].masked
    <3> DEFINE w == [Top EXCEPT !.in = TRUE, !.ran = TRUE, !.id = id]
    <3>1. id \in 0 .. MaxId
      BY <1>4, BoundsAssumption
    <3>2. w \in WalkType /\ w.pos = t /\ w.id = id
      BY <1>2, <3>1, WalkTypes DEF WalkType, t
    <3>3. walks' = SetTop(w)
      BY <2>2 DEF RunEvent, t, id
    <3> QED BY <3>2, <3>3
  <2> QED BY <2>1, <2>2
<1>9. ListInv' /\ Top' = w /\ walks' # << >> /\ DOMAIN events' = 1 .. Len(events)
  BY <1>1, <1>2, <1>4, <1>7, <1>8, TopReplaced
<1>10. \A i \in 1 .. Len(events) : i < w.pos \/ (w.in /\ i = w.pos) => i < t \/ i = t
  BY <1>4, <1>8
<1>11. WalkedClean'
  <2>1. SUFFICES ASSUME NEW i \in 1 .. Len(events), i < w.pos \/ (w.in /\ i = w.pos)
                 PROVE  events'[i].dead \/ ~events'[i].pending
    BY <1>9 DEF WalkedClean, Behind
  <2>2. CASE i = t
    BY <1>3, <1>6, <2>2
  <2>3. CASE i < t
    BY <1>1, <1>2, <1>4, <1>6, <2>1, <2>3 DEF WalkedClean, Behind
  <2> QED BY <1>10, <2>1, <2>2, <2>3
<1> QED BY <1>9, <1>11 DEF NoneForgotten

LEMMA ReturnKeeps ==
  ASSUME ListInv, WalkInv, CallbackReturns
  PROVE  ListInv' /\ WalkInv'
<1> USE DEF ListInv, WalkInv
<1>1. /\ walks # << >> /\ Top.in
      /\ walks' = SetTop([Top EXCEPT !.in = FALSE, !.pos = @ + 1, !.id = 0])
      /\ UNCHANGED <<events, uuid, overflow, registered, panicked>>
  BY DEF CallbackReturns
<1>2. /\ Top \in WalkType /\ DOMAIN events = 1 .. Len(events) /\ Len(events) \in 0 .. MaxEvents
      /\ events \in Seq(EventType) /\ MaxEvents \in Nat /\ panicked' \in BOOLEAN
      /\ Top.pos \in DOMAIN events
  BY <1>1, TopFacts, TypeFacts, BoundsAssumption DEF TypeOK, WalkSafe
<1> DEFINE p == Top.pos + 1
           w == [Top EXCEPT !.in = FALSE, !.pos = p, !.id = 0]
<1>3. p \in 1 .. MaxEvents + 1
  BY <1>1, <1>2
<1>4. w \in WalkType /\ walks' = SetTop(w) /\ w.in = FALSE /\ w.pos = p
  <2> HIDE DEF p
  <2>1. w \in WalkType /\ w.in = FALSE /\ w.pos = p
    BY <1>1, <1>2, <1>3, WalkTypes DEF WalkType
  <2> QED BY <1>1, <2>1 DEF p
<1> HIDE DEF w
<1>5. SameEvents(events')
  BY <1>1, <1>2 DEF SameEvents
<1>6. ListInv' /\ Top' = w /\ walks' # << >>
  BY <1>1, <1>2, <1>4, <1>5, TopReplaced
<1>7. \A i \in 1 .. Len(events) : i < p => i < Top.pos \/ i = Top.pos
  BY <1>1, <1>2
<1>8. WalkedClean'
  BY <1>1, <1>2, <1>4, <1>6, <1>7 DEF WalkedClean, Behind
<1> QED BY <1>6, <1>8 DEF NoneForgotten

\* A walk that has come to the end of the list has left nothing live pending.
LEMMA EndClean ==
  ASSUME ListInv, WalkInv, walks # << >>, Top.pos > Len(events)
  PROVE  \A i \in 1 .. Len(events) : events[i].dead \/ ~events[i].pending
<1>1. DOMAIN events = 1 .. Len(events) /\ Len(events) \in Nat /\ Top.pos \in Nat
  BY TypeFacts, TopFacts, BoundsAssumption DEF ListInv
<1>2. \A i \in 1 .. Len(events) : i < Top.pos
  BY <1>1
<1> QED BY <1>1, <1>2 DEF WalkInv, WalkedClean, Behind

LEMMA EndWalkKeeps ==
  ASSUME ListInv, WalkInv, EndWalk
  PROVE  ListInv' /\ WalkInv'
<1> USE DEF ListInv, WalkInv
<1>1. /\ walks # << >> /\ ~Top.in /\ Top.pos > Len(events)
      /\ UNCHANGED <<uuid, overflow, registered>>
  BY DEF EndWalk, Walking, Top, Walk
<1>2. /\ walks \in Seq(WalkType) /\ DOMAIN walks = 1 .. Len(walks) /\ Len(walks) \in 1 .. MaxDepth
      /\ events \in Seq(EventType) /\ Len(events) \in 0 .. MaxEvents
      /\ DOMAIN events = 1 .. Len(events) /\ MaxEvents \in Nat /\ MaxDepth \in Nat
      /\ \A i \in 1 .. Len(events) : events[i] \in EventType
  BY <1>1, TypeFacts, BoundsAssumption
<1>3. \A i \in 1 .. Len(events) : events[i].dead \/ ~events[i].pending
  BY <1>1, EndClean
<1>4. CASE /\ panicked' = CheckTimeoutsBug
           /\ \E ready \in SUBSET (Polled \union Timers) : MarkPending(ready)
           /\ walks' = SetTop(Walk(FALSE))
  <2>1. SameEvents(events') /\ panicked' \in BOOLEAN
    BY <1>4, MarkPendingSame DEF CheckTimeoutsBug
  <2> DEFINE w == Walk(FALSE)
  <2>2. w \in WalkType /\ w.in = FALSE /\ w.pos = 1 /\ walks' = SetTop(w)
    BY <1>4, WalkTypes DEF Walk
  <2> HIDE DEF w
  <2>3. ListInv' /\ Top' = w /\ walks' # << >> /\ DOMAIN events' = 1 .. Len(events)
    BY <1>1, <1>2, <2>1, <2>2, TopReplaced
  <2>4. \A i \in 1 .. Len(events) : ~(i < 1)
    BY <1>2
  <2>5. NoneForgotten' /\ WalkedClean'
    BY <2>2, <2>3, <2>4 DEF NoneForgotten, WalkedClean, Behind
  <2> QED BY <2>3, <2>5
<1>5. CASE /\ events' = GcEvents(Len(walks), events) /\ walks' = Front(walks)
           /\ UNCHANGED panicked
  <2>1. /\ walks' \in Seq(WalkType) /\ Len(walks') = Len(walks) - 1
        /\ DOMAIN walks' = 1 .. Len(walks) - 1
        /\ \A k \in 1 .. Len(walks) - 1 : walks'[k] = walks[k]
    BY <1>2, <1>5 DEF Front
  <2>2. CASE Len(walks) # 1
    <3>1. events' = events
      BY <1>5, <2>2 DEF GcEvents
    <3>2. ListInv'
      <4>1. SameEvents(events') /\ panicked' \in BOOLEAN /\ Len(walks') <= MaxDepth
        BY <1>2, <1>5, <2>1, <3>1 DEF SameEvents, TypeOK
      <4>2. \A k \in DOMAIN walks' : k \in DOMAIN walks /\ walks'[k] = walks[k]
        BY <1>2, <2>1
      <4> QED BY <1>1, <2>1, <4>1, <4>2, SameListKept
    <3>3. walks' # << >>
      BY <1>2, <2>1, <2>2
    <3> QED BY <1>2, <1>3, <3>1, <3>2, <3>3 DEF NoneForgotten, WalkedClean
  <2>3. CASE Len(walks) = 1
    <3>1. events' = Reaped(events) /\ walks' = << >>
      BY <1>2, <1>5, <2>1, <2>3 DEF GcEvents
    <3>2. events' \in Seq(EventType) /\ Len(events') <= Len(events)
      BY <1>2, <3>1, ReapedEvents
    <3>3. PICK f \in [1 .. Len(events') -> Alive(events)] :
             /\ \A k \in 1 .. Len(events') : events'[k] = events[f[k]]
             /\ \A k, m \in 1 .. Len(events') : k # m => f[k] # f[m]
      BY <1>2, <3>1, ReapedEvents, SMTT(30)
    <3>4. /\ DOMAIN events' = 1 .. Len(events')
          /\ \A k \in 1 .. Len(events') : f[k] \in 1 .. Len(events) /\ ~events[f[k]].dead
      BY <1>2, <3>2, <3>3 DEF Alive
    <3>5. TypeOK'
      <4>1. Len(events') <= MaxEvents /\ Len(walks') <= MaxDepth
        BY <1>2, <2>1, <3>2
      <4> QED BY <1>1, <1>5, <2>1, <3>2, <4>1 DEF TypeOK, EventType, WalkType
    <3>6. UniqueIds'
      BY <1>2, <3>3, <3>4 DEF UniqueIds
    <3>7. FreshIds'
      BY <1>1, <1>2, <3>3, <3>4 DEF FreshIds
    <3>8. WalkSafe'
      BY <2>1, <2>3 DEF WalkSafe
    <3>9. NoneForgotten'
      BY <1>3, <3>3, <3>4 DEF NoneForgotten
    <3>10. WalkedClean'
      BY <3>1 DEF WalkedClean
    <3> QED BY <3>5, <3>6, <3>7, <3>8, <3>9, <3>10
  <2> QED BY <2>2, <2>3
<1> QED BY <1>4, <1>5 DEF EndWalk

-----------------------------------------------------------------------------
(* Every behaviour of the loop *)

LEMMA InitKeeps ==
  ASSUME Init
  PROVE  ListInv /\ WalkInv
<1> DEFINE e == Event(1, "fd", TRUE)
<1>1. MaxId \in Nat \ {0, 1} /\ MaxEvents \in Nat \ {0} /\ MaxDepth \in Nat /\ MaxRegister \in Nat
  BY BoundsAssumption
<1>2. e \in EventType /\ e.id = 1 /\ e.pending = FALSE
  BY <1>1 DEF Event, EventType, Modes
<1>3. /\ events = <<e>> /\ walks = << >> /\ uuid = 2 /\ overflow = FALSE /\ registered = 0
      /\ panicked = FALSE
  BY DEF Init
<1> HIDE DEF e
<1>4. /\ events \in Seq(EventType) /\ Len(events) = 1 /\ DOMAIN events = {1} /\ events[1] = e
      /\ walks \in Seq(WalkType) /\ Len(walks) = 0 /\ DOMAIN walks = {}
  BY <1>2, <1>3
<1>5. TypeOK
  <2>1. /\ Len(events) <= MaxEvents /\ Len(walks) <= MaxDepth /\ uuid \in 1 .. MaxId
        /\ overflow \in BOOLEAN /\ registered \in 0 .. MaxRegister /\ panicked \in BOOLEAN
    <3>1. 1 <= MaxEvents /\ 0 <= MaxDepth /\ 2 \in 1 .. MaxId /\ 0 \in 0 .. MaxRegister
      BY <1>1
    <3> QED BY <1>3, <1>4, <3>1
  <2> QED BY <1>4, <2>1, TypeFromFacts
<1>6. UniqueIds /\ FreshIds /\ WalkSafe
  BY <1>2, <1>3, <1>4 DEF UniqueIds, FreshIds, WalkSafe
<1> QED BY <1>2, <1>3, <1>4, <1>5, <1>6 DEF ListInv, WalkInv, NoneForgotten, WalkedClean

LEMMA NextKeeps ==
  ASSUME ListInv, WalkInv, [Next]_vars
  PROVE  ListInv' /\ WalkInv'
<1>1. CASE UNCHANGED vars
  BY <1>1 DEF vars, ListInv, WalkInv, TypeOK, UniqueIds, FreshIds, WalkSafe, NoneForgotten,
              WalkedClean, Behind, Top, Walk
<1>2. CASE Next
  BY <1>2, RegisterKeeps, OwnerStepKeeps, WaitKeeps, SkipKeeps, RunKeeps, ReturnKeeps,
     EndWalkKeeps DEF Next, OwnerStep
<1> QED BY <1>1, <1>2

\* The types of the loop's state: the list and the nested calls stay within their
\* bounds, a walk is never past the place after the last event, and an id is never 0.
THEOREM SchedulerTypes == Spec => []TypeOK
<1>1. Init => ListInv /\ WalkInv
  BY InitKeeps
<1>2. ListInv /\ WalkInv /\ [Next]_vars => ListInv' /\ WalkInv'
  BY NextKeeps
<1>3. ListInv => TypeOK
  BY DEF ListInv
<1> QED BY <1>1, <1>2, <1>3, PTL DEF Spec

\* Whatever callbacks do to the list they are called from, and however they nest: no
\* two events have one id, a callback finds its event where it was, and no event that
\* was found ready is still pending when the loop goes back to select.
THEOREM LoopSafe == Spec => [](UniqueIds /\ WalkSafe /\ NoneForgotten)
<1>1. Init => ListInv /\ WalkInv
  BY InitKeeps
<1>2. ListInv /\ WalkInv /\ [Next]_vars => ListInv' /\ WalkInv'
  BY NextKeeps
<1>3. ListInv /\ WalkInv => UniqueIds /\ WalkSafe /\ NoneForgotten
  BY DEF ListInv, WalkInv
<1> QED BY <1>1, <1>2, <1>3, PTL DEF Spec

-----------------------------------------------------------------------------
(* The BUG_ON of scheduler_check_timeouts *)

\* An event that was unregistered while it was pending was not masked.
DeadUnmasked == \A i \in DOMAIN events : ~(events[i].dead /\ events[i].masked /\ events[i].pending)

\* What a select finds: nothing that is both pending and masked.
LEMMA SelectFindsNone ==
  ASSUME ListInv, WalkInv, DeadUnmasked,
         walks = << >> \/ (walks # << >> /\ Top.pos > Len(events))
  PROVE  ~CheckTimeoutsBug
<1>1. DOMAIN events = 1 .. Len(events)
  BY TypeFacts DEF ListInv
<1>2. \A i \in 1 .. Len(events) : events[i].dead \/ ~events[i].pending
  BY <1>1, EndClean DEF WalkInv, NoneForgotten
<1> QED BY <1>1, <1>2 DEF CheckTimeoutsBug, DeadUnmasked

LEMMA NextUnmasked ==
  ASSUME ~DropMasked, ListInv, WalkInv, DeadUnmasked, ~panicked, [Next]_vars
  PROVE  DeadUnmasked' /\ ~panicked'
<1>1. /\ events \in Seq(EventType) /\ Len(events) \in Nat /\ DOMAIN events = 1 .. Len(events)
      /\ \A i \in 1 .. Len(events) : events[i] \in EventType
  BY TypeFacts, BoundsAssumption DEF ListInv
<1> DEFINE fine(e) == ~(e.dead /\ e.masked /\ e.pending)
<1>2. \A i \in 1 .. Len(events) : fine(events[i])
  BY <1>1 DEF DeadUnmasked
<1>3. ASSUME NEW e \in EventType, NEW i \in 1 .. Len(events), events' = [events EXCEPT ![i] = e],
             fine(e)
      PROVE  DeadUnmasked'
  <2>1. /\ DOMAIN events' = 1 .. Len(events)
        /\ \A j \in 1 .. Len(events) : events'[j] = IF j = i THEN e ELSE events[j]
    BY <1>1, <1>3
  <2> QED BY <1>2, <1>3, <2>1 DEF DeadUnmasked
<1>4. ASSUME NEW mode \in Modes, NEW inf \in BOOLEAN, RegisterEvent(mode, inf)
      PROVE  DeadUnmasked' /\ ~panicked'
  <2> DEFINE e == Event(GetUuid, mode, inf)
  <2>1. events' = Append(events, e) /\ panicked' = panicked /\ ~e.dead
    BY <1>4 DEF RegisterEvent, Event
  <2> HIDE DEF e
  <2>2. /\ DOMAIN events' = 1 .. Len(events) + 1 /\ events'[Len(events) + 1] = e
        /\ \A i \in 1 .. Len(events) : events'[i] = events[i]
    BY <1>1, <2>1
  <2>3. \A i \in 1 .. Len(events) + 1 : i \in 1 .. Len(events) \/ i = Len(events) + 1
    BY <1>1
  <2> QED BY <1>2, <2>1, <2>2, <2>3 DEF DeadUnmasked
<1>5. ASSUME NEW i \in DOMAIN events, UnregisterEvent(i)
      PROVE  DeadUnmasked' /\ ~panicked'
  <2> DEFINE e == [events[i] EXCEPT !.dead = TRUE]
  <2>1. e \in EventType /\ e.masked = events[i].masked /\ e.pending = events[i].pending
    BY <1>1, <1>5, EventTypes, EventFields
  <2>2. events' = [events EXCEPT ![i] = e] /\ panicked' = panicked
        /\ ~(events[i].masked /\ events[i].pending)
    BY <1>5 DEF UnregisterEvent
  <2> HIDE DEF e
  <2>3. fine(e)
    BY <2>1, <2>2
  <2> QED BY <1>1, <1>3, <1>5, <2>1, <2>2, <2>3
<1>6. ASSUME NEW i \in DOMAIN events, NEW b \in BOOLEAN, MaskEvent(i, b)
      PROVE  DeadUnmasked' /\ ~panicked'
  <2> DEFINE e == [events[i] EXCEPT !.masked = b]
  <2>1. e \in EventType
    BY <1>1, <1>6, EventTypes
  <2>2. e.dead = events[i].dead /\ e.pending = events[i].pending /\ (e.masked => b)
    BY <1>1, <1>6, MaskFields
  <2>3. events' = [events EXCEPT ![i] = e] /\ panicked' = panicked
        /\ ~(b /\ events[i].dead /\ events[i].pending)
    BY <1>6 DEF MaskEvent
  <2> HIDE DEF e
  <2>4. fine(e)
    BY <2>2, <2>3
  <2> QED BY <1>1, <1>3, <1>6, <2>1, <2>3, <2>4
<1>7. ASSUME NEW i \in DOMAIN events, NEW b \in BOOLEAN, SetTimeout(i, b)
      PROVE  DeadUnmasked' /\ ~panicked'
  <2> DEFINE e == [events[i] EXCEPT !.inf = b]
  <2>1. /\ e \in EventType /\ e.dead = events[i].dead /\ e.masked = events[i].masked
        /\ e.pending = events[i].pending
    BY <1>1, <1>7, EventTypes, EventFields
  <2>2. events' = [events EXCEPT ![i] = e] /\ panicked' = panicked
    BY <1>7 DEF SetTimeout
  <2> HIDE DEF e
  <2>3. fine(e)
    BY <1>1, <1>2, <1>7, <2>1
  <2> QED BY <1>1, <1>3, <1>7, <2>1, <2>2, <2>3
<1>8. ASSUME NEW ready \in SUBSET (Polled \union Timers), MarkPending(ready)
      PROVE  DeadUnmasked'
  <2>1. /\ DOMAIN events' = 1 .. Len(events)
        /\ \A i \in 1 .. Len(events) :
              events'[i] = IF i \in ready THEN [events[i] EXCEPT !.pending = TRUE] ELSE events[i]
    BY <1>1, <1>8 DEF MarkPending
  <2>2. \A i \in ready : i \in 1 .. Len(events) /\ ~events[i].dead
    BY <1>1, <1>8 DEF Polled, Timers
  <2>3. \A v \in EventType : [v EXCEPT !.pending = TRUE].dead = v.dead
    BY DEF EventType
  <2>4. ASSUME NEW i \in 1 .. Len(events) PROVE fine(events'[i])
    <3>1. CASE i \in ready
      BY <1>1, <2>1, <2>2, <2>3, <3>1
    <3>2. CASE i \notin ready
      BY <1>2, <2>1, <3>2
    <3> QED BY <3>1, <3>2
  <2> QED BY <2>1, <2>4 DEF DeadUnmasked
<1>9. ASSUME Wait PROVE DeadUnmasked' /\ ~panicked'
  <2>1. CASE walks # << >>
    <3>1. events' = events /\ panicked' = panicked
      BY <1>9, <2>1 DEF Wait
    <3> QED BY <3>1 DEF DeadUnmasked
  <2>2. CASE walks = << >>
    <3>1. ~CheckTimeoutsBug
      BY <2>2, SelectFindsNone
    <3> QED BY <1>8, <1>9, <2>2, <3>1 DEF Wait
  <2> QED BY <2>1, <2>2
<1>10. ASSUME SkipEvent \/ CallbackReturns PROVE DeadUnmasked' /\ ~panicked'
  BY <1>10 DEF SkipEvent, CallbackReturns, DeadUnmasked
<1>11. ASSUME RunEvent PROVE DeadUnmasked' /\ ~panicked'
  <2> DEFINE i == Top.pos
             e == [events[i] EXCEPT !.pending = FALSE]
  <2>1. i \in DOMAIN events /\ events' = [events EXCEPT ![i] = e] /\ panicked' = panicked
    BY <1>11 DEF RunEvent
  <2>2. \A v \in EventType : /\ [v EXCEPT !.pending = FALSE] \in EventType
                             /\ [v EXCEPT !.pending = FALSE].pending = FALSE
    BY DEF EventType
  <2>3. e \in EventType /\ ~e.pending
    BY <1>1, <2>1, <2>2
  <2> HIDE DEF e
  <2> QED BY <1>1, <1>3, <2>1, <2>3
<1>12. ASSUME EndWalk PROVE DeadUnmasked' /\ ~panicked'
  <2>1. walks # << >> /\ Top.pos > Len(events)
    BY <1>12 DEF EndWalk, Walking, Top, Walk
  <2>2. ~CheckTimeoutsBug
    BY <2>1, SelectFindsNone
  <2>3. CASE /\ panicked' = CheckTimeoutsBug
             /\ \E ready \in SUBSET (Polled \union Timers) : MarkPending(ready)
    BY <1>8, <2>2, <2>3
  <2>4. CASE events' = GcEvents(Len(walks), events) /\ UNCHANGED panicked
    <3>1. CASE events' = events
      BY <2>4, <3>1 DEF DeadUnmasked
    <3>2. CASE events' = Reaped(events)
      <4>1. /\ events' \in Seq(EventType)
            /\ \A k \in 1 .. Len(events') : \E i \in 1 .. Len(events) : events'[k] = events[i]
        <5>1. Alive(events) \in SUBSET (1 .. Len(events))
          BY <1>1, AliveFinite
        <5>2. /\ events' \in Seq(EventType)
              /\ \E f \in [1 .. Len(events') -> Alive(events)] :
                    \A k \in 1 .. Len(events') : events'[k] = events[f[k]]
          BY <1>1, <3>2, ReapedEvents
        <5> QED BY <5>1, <5>2
      <4>2. DOMAIN events' = 1 .. Len(events')
        BY <4>1
      <4> QED BY <1>2, <2>4, <4>1, <4>2 DEF DeadUnmasked
    <3> QED BY <2>4, <3>1, <3>2 DEF GcEvents
  <2> QED BY <1>12, <2>3, <2>4 DEF EndWalk
<1>13. CASE UNCHANGED vars
  BY <1>13 DEF vars, DeadUnmasked
<1> QED BY <1>4, <1>5, <1>6, <1>7, <1>9, <1>10, <1>11, <1>12, <1>13 DEF Next

\* Where no callback unregisters a masked event that is pending, the loop never
\* reaches its BUG_ON either: everything that owners of events rely on holds.
THEOREM SchedulerIsSafe ==
  ASSUME ~DropMasked
  PROVE  Spec => []SchedulerSafe
<1> DEFINE I == ListInv /\ WalkInv /\ DeadUnmasked /\ ~panicked
<1>1. Init => I
  <2>1. ASSUME Init PROVE DeadUnmasked /\ ~panicked
    <3> DEFINE e == Event(1, "fd", TRUE)
    <3>1. events = <<e>> /\ ~e.dead /\ ~panicked
      BY <2>1 DEF Init, Event
    <3> HIDE DEF e
    <3>2. DOMAIN events = {1} /\ events[1] = e
      BY <3>1
    <3> QED BY <3>1, <3>2 DEF DeadUnmasked
  <2> QED BY <2>1, InitKeeps
<1>2. I /\ [Next]_vars => I'
  BY NextKeeps, NextUnmasked
<1>3. I => SchedulerSafe
  BY DEF ListInv, WalkInv, SchedulerSafe, NeverPanics
<1> QED BY <1>1, <1>2, <1>3, PTL DEF Spec
=============================================================================
