----------------------------- MODULE NbdProofs -----------------------------
(* The NBD server: it answers whom it was asked by and reads no request it  *)
(* has no room for, for every number of clients, sockets and requests.      *)
EXTENDS Nbd, FiniteSetTheorems, TLAPS

-----------------------------------------------------------------------------
(* The inductive invariant *)

UpMsg == [type : {"opts", "disc"}] \cup [type : {"req"}, id : Nat]

DownMsg == [type : {"hello"}, style : {"old", "new"}] \cup [type : {"finish"}]
           \cup [type : {"reply"}, id : Nat, ok : BOOLEAN, src : Nat]

SockType == [up : Seq(UpMsg), down : Seq(DownMsg), cend : BOOLEAN, send : BOOLEAN,
             accepted : BOOLEAN]

ClientType == [fd : Nat \ {0}, free : 0 .. NReqs, ev : {"none", "on", "masked"},
               paused : BOOLEAN, dead : BOOLEAN, there : BOOLEAN]

VreqType == [client : Nat, id : Nat, sock : Nat]

Outcomes == {"lost", "err", "queued", "ok"}

Types ==
    /\ chan \in Seq(SockType) /\ style \in {"old", "new"}
    /\ fds \in Seq(0 .. Len(chan)) /\ clients \in Seq(ClientType)
    /\ vreqs \in SUBSET VreqType /\ IsFiniteSet(vreqs)
    /\ "pend" \in DOMAIN drv /\ drv.pend \in Seq(Nat)
    /\ outcome \in Seq(Outcomes)

\* Where the answers on their way have come from.
AnswersOwn(ch, s) == \A k \in DOMAIN ch[s].down :
                        ch[s].down[k].type = "reply" => ch[s].down[k].src = s

\* The request with that id is not on its way to the server.
NotSent(ch, id) ==
    \A s \in DOMAIN ch : \A k \in DOMAIN ch[s].up :
        ch[s].up[k].type = "req" => ch[s].up[k].id # id

\* No request is twice on its way.
SentOnce(ch) ==
    \A s, t \in DOMAIN ch : \A k \in DOMAIN ch[s].up, m \in DOMAIN ch[t].up :
        /\ ch[s].up[k].type = "req" /\ ch[t].up[m].type = "req"
        /\ ch[s].up[k].id = ch[t].up[m].id
        => s = t /\ k = m

Sound(ch) ==
    /\ ch \in Seq(SockType) /\ SentOnce(ch)
    /\ \A s \in DOMAIN ch : AnswersOwn(ch, s)

\* A request is in one place: at the driver, on its way or with the VBD.
IdsOnce ==
    /\ \A id \in Nat : id > Len(outcome) => NotSent(chan, id)
    /\ \A r \in vreqs : r.id <= Len(outcome) /\ NotSent(chan, r.id)
    /\ \A q, r \in vreqs : q.id = r.id => q = r
    /\ \A j \in DOMAIN drv.pend : /\ drv.pend[j] <= Len(outcome) /\ NotSent(chan, drv.pend[j])
                                  /\ \A r \in vreqs : r.id # drv.pend[j]
    /\ \A j, k \in DOMAIN drv.pend : drv.pend[j] = drv.pend[k] => j = k

\* A client c that has the requests P at the VBD.
ClientSound(c, P) ==
    /\ c.ev = "on" \/ c.paused => c.free > 0
    /\ c.free + Cardinality(P) = NReqs
    /\ ~c.there => P = {}
    /\ c.ev # "none" \/ c.paused => c.there /\ ~c.dead
    /\ c.paused => c.ev = "none"

\* The requests V of the clients cls, whose descriptors are open on f: a request at
\* the VBD belongs to a client whose descriptor is open on the socket the request
\* came from, or closed.
AllSound(cls, f, V) ==
    /\ \A i \in DOMAIN cls : /\ cls[i].fd \in DOMAIN f
                             /\ ClientSound(cls[i], {r \in V : r.client = i})
    /\ \A r \in V : r.client \in DOMAIN cls /\ f[cls[r.client].fd] \in {0, r.sock}

ClientsSound == AllSound(clients, fds, vreqs)

IInv == Types /\ Sound(chan) /\ IdsOnce /\ ClientsSound

-----------------------------------------------------------------------------
(* Sequences *)

LEMMA EmptySeq ==
  DOMAIN << >> = {} /\ \A S : << >> \in Seq(S)
OBVIOUS

LEMMA AppendSeq ==
  ASSUME NEW S, NEW q \in Seq(S), NEW e \in S
  PROVE  /\ Append(q, e) \in Seq(S) /\ Len(Append(q, e)) = Len(q) + 1
         /\ DOMAIN Append(q, e) = 1 .. Len(q) + 1 /\ DOMAIN q = 1 .. Len(q) /\ Len(q) \in Nat
         /\ Append(q, e)[Len(q) + 1] = e /\ \A k \in 1 .. Len(q) : Append(q, e)[k] = q[k]
OBVIOUS

LEMMA TailSeq ==
  ASSUME NEW S, NEW q \in Seq(S), q # << >>
  PROVE  /\ Tail(q) \in Seq(S) /\ Len(q) \in Nat \ {0} /\ DOMAIN q = 1 .. Len(q)
         /\ DOMAIN Tail(q) = 1 .. Len(q) - 1 /\ Head(q) = q[1] /\ Head(q) \in S
         /\ \A k \in 1 .. Len(q) - 1 : Tail(q)[k] = q[k + 1]
OBVIOUS

LEMMA ExceptSeq ==
  ASSUME NEW S, NEW q \in Seq(S), NEW i \in DOMAIN q, NEW e \in S
  PROVE  /\ [q EXCEPT ![i] = e] \in Seq(S) /\ Len([q EXCEPT ![i] = e]) = Len(q)
         /\ DOMAIN [q EXCEPT ![i] = e] = DOMAIN q
         /\ \A j \in DOMAIN q : [q EXCEPT ![i] = e][j] = IF j = i THEN e ELSE q[j]
OBVIOUS

-----------------------------------------------------------------------------
(* What the operations do to the sockets *)

\* Nothing is on its way in c2 that was not in ch.
Follows(ch, c2) == \A id : NotSent(ch, id) => NotSent(c2, id)

\* One socket changes: its messages up are as they were, or the first is read.
LEMMA OneSock ==
  ASSUME NEW ch, Sound(ch), NEW s \in DOMAIN ch, NEW v \in SockType,
         \/ v.up = ch[s].up
         \/ ch[s].up # << >> /\ v.up = Tail(ch[s].up),
         \A k \in DOMAIN v.down : v.down[k].type = "reply" => v.down[k].src = s
  PROVE  LET c2 == [ch EXCEPT ![s] = v]
         IN  Sound(c2) /\ Follows(ch, c2) /\ Len(c2) = Len(ch) /\ DOMAIN c2 = DOMAIN ch
<1> DEFINE c2 == [ch EXCEPT ![s] = v]
<1>1. ch \in Seq(SockType) /\ ch[s] \in SockType
  BY DEF Sound
<1>2. /\ c2 \in Seq(SockType) /\ Len(c2) = Len(ch) /\ DOMAIN c2 = DOMAIN ch
      /\ \A t \in DOMAIN ch : c2[t] = IF t = s THEN v ELSE ch[t]
  BY <1>1, ExceptSeq
<1> HIDE DEF c2
<1>3. PICK d \in {0, 1} :
        \A k \in DOMAIN v.up : k + d \in DOMAIN ch[s].up /\ v.up[k] = ch[s].up[k + d]
  <2>1. ch[s].up \in Seq(UpMsg)
    BY <1>1 DEF SockType
  <2>2. CASE v.up = ch[s].up
    <3>1. \A k \in DOMAIN v.up : k + 0 \in DOMAIN ch[s].up /\ v.up[k] = ch[s].up[k + 0]
      BY <2>1, <2>2
    <3> QED BY <3>1
  <2>3. CASE ch[s].up # << >> /\ v.up = Tail(ch[s].up)
    <3>1. \A k \in DOMAIN v.up : k + 1 \in DOMAIN ch[s].up /\ v.up[k] = ch[s].up[k + 1]
      BY <2>1, <2>3, TailSeq
    <3> QED BY <3>1
  <2> QED BY <2>2, <2>3
<1>4. \A t \in DOMAIN c2 : \E e \in {0, 1} : \A k \in DOMAIN c2[t].up :
         k + e \in DOMAIN ch[t].up /\ c2[t].up[k] = ch[t].up[k + e]
  <2>1. SUFFICES ASSUME NEW t \in DOMAIN ch
                 PROVE  \E e \in {0, 1} : \A k \in DOMAIN c2[t].up :
                           k + e \in DOMAIN ch[t].up /\ c2[t].up[k] = ch[t].up[k + e]
    BY <1>2
  <2>2. CASE t = s
    BY <1>2, <1>3, <2>1, <2>2
  <2>3. CASE t # s
    <3>1. c2[t] = ch[t] /\ ch[t] \in SockType
      BY <1>1, <1>2, <2>1, <2>3
    <3>3. ch[t].up \in Seq(UpMsg)
      BY <3>1 DEF SockType
    <3>2. \A k \in DOMAIN c2[t].up : k + 0 \in DOMAIN ch[t].up /\ c2[t].up[k] = ch[t].up[k + 0]
      BY <3>1, <3>3
    <3> QED BY <3>2
  <2> QED BY <2>1, <2>2, <2>3
<1>5. SentOnce(c2)
  <2>1. SUFFICES ASSUME NEW t \in DOMAIN c2, NEW u \in DOMAIN c2,
                        NEW k \in DOMAIN c2[t].up, NEW m \in DOMAIN c2[u].up,
                        c2[t].up[k].type = "req", c2[u].up[m].type = "req",
                        c2[t].up[k].id = c2[u].up[m].id
                 PROVE  t = u /\ k = m
    BY DEF SentOnce
  <2>2. PICK e \in {0, 1} : \A j \in DOMAIN c2[t].up :
           j + e \in DOMAIN ch[t].up /\ c2[t].up[j] = ch[t].up[j + e]
    BY <1>4, <2>1
  <2>3. PICK g \in {0, 1} : \A j \in DOMAIN c2[u].up :
           j + g \in DOMAIN ch[u].up /\ c2[u].up[j] = ch[u].up[j + g]
    BY <1>4, <2>1
  <2>4. t = u
    BY <1>2, <2>1, <2>2, <2>3 DEF Sound, SentOnce
  <2>5. k + e = m + e
    BY <1>2, <2>1, <2>2, <2>4 DEF Sound, SentOnce
  <2>6. k \in Nat /\ m \in Nat
    <3>1. c2[t] \in SockType /\ c2[u] \in SockType
      BY <1>2, <2>1
    <3>2. c2[t].up \in Seq(UpMsg) /\ c2[u].up \in Seq(UpMsg)
      BY <3>1 DEF SockType
    <3> QED BY <2>1, <3>2
  <2> QED BY <2>4, <2>5, <2>6
<1>6. \A t \in DOMAIN c2 : AnswersOwn(c2, t)
  BY <1>2 DEF Sound, AnswersOwn
<1>7. Follows(ch, c2)
  <2>1. SUFFICES ASSUME NEW id, NotSent(ch, id), NEW t \in DOMAIN c2, NEW k \in DOMAIN c2[t].up,
                        c2[t].up[k].type = "req"
                 PROVE  c2[t].up[k].id # id
    BY DEF Follows, NotSent
  <2>2. PICK e \in {0, 1} : \A j \in DOMAIN c2[t].up :
           j + e \in DOMAIN ch[t].up /\ c2[t].up[j] = ch[t].up[j + e]
    BY <1>4, <2>1
  <2> QED BY <1>2, <2>1, <2>2 DEF NotSent
<1> QED BY <1>2, <1>5, <1>6, <1>7 DEF Sound, c2

\* What every operation on the sockets keeps.
Kept(ch, c2) == Sound(c2) /\ Follows(ch, c2) /\ Len(c2) = Len(ch) /\ DOMAIN c2 = DOMAIN ch

LEMMA KeptSame ==
  ASSUME NEW ch, Sound(ch)
  PROVE  Kept(ch, ch)
BY DEF Kept, Follows

LEMMA SockFacts ==
  ASSUME NEW ch, Sound(ch), NEW s \in DOMAIN ch
  PROVE  /\ ch[s] \in SockType /\ ch[s].up \in Seq(UpMsg) /\ ch[s].down \in Seq(DownMsg)
         /\ \A k \in DOMAIN ch[s].down : ch[s].down[k].type = "reply" => ch[s].down[k].src = s
<1>1. ch[s] \in SockType
  BY DEF Sound
<1>2. ch[s].up \in Seq(UpMsg) /\ ch[s].down \in Seq(DownMsg)
  BY <1>1 DEF SockType
<1> QED BY <1>1, <1>2 DEF Sound, AnswersOwn

LEMMA SockUpdates ==
  \A v \in SockType :
    /\ \A q \in Seq(UpMsg) : /\ [v EXCEPT !.up = q] \in SockType
                            /\ [v EXCEPT !.up = q].up = q /\ [v EXCEPT !.up = q].down = v.down
    /\ \A q \in Seq(DownMsg) : /\ [v EXCEPT !.down = q] \in SockType
                              /\ [v EXCEPT !.down = q].down = q /\ [v EXCEPT !.down = q].up = v.up
    /\ [v EXCEPT !.cend = FALSE] \in SockType
    /\ [v EXCEPT !.cend = FALSE].up = v.up /\ [v EXCEPT !.cend = FALSE].down = v.down
    /\ [v EXCEPT !.send = FALSE] \in SockType
    /\ [v EXCEPT !.send = FALSE].up = v.up /\ [v EXCEPT !.send = FALSE].down = v.down
    /\ [v EXCEPT !.accepted = TRUE] \in SockType
    /\ [v EXCEPT !.accepted = TRUE].up = v.up /\ [v EXCEPT !.accepted = TRUE].down = v.down
BY DEF SockType

\* Closing either end of a socket, or accepting it, leaves the messages alone.
LEMMA EndsKept ==
  ASSUME NEW ch, Sound(ch), NEW s
  PROVE  /\ Kept(ch, CloseEnd(ch, s))
         /\ Kept(ch, [ch EXCEPT ![s].send = FALSE])
         /\ Kept(ch, [ch EXCEPT ![s].accepted = TRUE])
<1>1. ch \in Seq(SockType)
  BY DEF Sound
<1>2. CASE s \in DOMAIN ch
  <2>1. /\ ch[s] \in SockType
        /\ \A k \in DOMAIN ch[s].down : ch[s].down[k].type = "reply" => ch[s].down[k].src = s
    BY <1>2, SockFacts
  <2>2. Kept(ch, [ch EXCEPT ![s] = [ch[s] EXCEPT !.cend = FALSE]])
    <3> DEFINE v == [ch[s] EXCEPT !.cend = FALSE]
    <3>1. v \in SockType /\ v.up = ch[s].up /\ v.down = ch[s].down
      BY <2>1, SockUpdates
    <3> HIDE DEF v
    <3>2. Kept(ch, [ch EXCEPT ![s] = v])
      BY <1>2, <2>1, <3>1, OneSock DEF Kept
    <3> QED BY <3>2 DEF v
  <2>3. Kept(ch, [ch EXCEPT ![s] = [ch[s] EXCEPT !.send = FALSE]])
    <3> DEFINE v == [ch[s] EXCEPT !.send = FALSE]
    <3>1. v \in SockType /\ v.up = ch[s].up /\ v.down = ch[s].down
      BY <2>1, SockUpdates
    <3> HIDE DEF v
    <3>2. Kept(ch, [ch EXCEPT ![s] = v])
      BY <1>2, <2>1, <3>1, OneSock DEF Kept
    <3> QED BY <3>2 DEF v
  <2>4. Kept(ch, [ch EXCEPT ![s] = [ch[s] EXCEPT !.accepted = TRUE]])
    <3> DEFINE v == [ch[s] EXCEPT !.accepted = TRUE]
    <3>1. v \in SockType /\ v.up = ch[s].up /\ v.down = ch[s].down
      BY <2>1, SockUpdates
    <3> HIDE DEF v
    <3>2. Kept(ch, [ch EXCEPT ![s] = v])
      BY <1>2, <2>1, <3>1, OneSock DEF Kept
    <3> QED BY <3>2 DEF v
  <2> QED BY <2>2, <2>3, <2>4, KeptSame DEF CloseEnd
<1>3. CASE s \notin DOMAIN ch
  <2>1. /\ [ch EXCEPT ![s].cend = FALSE] = ch /\ [ch EXCEPT ![s].send = FALSE] = ch
        /\ [ch EXCEPT ![s].accepted = TRUE] = ch
    BY <1>1, <1>3
  <2> QED BY <2>1, KeptSame DEF CloseEnd
<1> QED BY <1>2, <1>3

\* An answer is only sent where its request came from.
LEMMA SendDownKept ==
  ASSUME NEW ch, Sound(ch), NEW s, NEW msg \in DownMsg, msg.type = "reply" => msg.src = s
  PROVE  Kept(ch, SendDown(ch, s, msg))
<1>1. ch \in Seq(SockType)
  BY DEF Sound
<1>2. CASE s \notin DOMAIN ch
  <2>1. [ch EXCEPT ![s].down = Append(@, msg)] = ch
    BY <1>1, <1>2
  <2> QED BY <2>1, KeptSame DEF SendDown
<1>3. CASE s \in DOMAIN ch
  <2> DEFINE q == Append(ch[s].down, msg)
             v == [ch[s] EXCEPT !.down = q]
  <2>1. /\ ch[s] \in SockType /\ ch[s].down \in Seq(DownMsg)
        /\ \A k \in DOMAIN ch[s].down : ch[s].down[k].type = "reply" => ch[s].down[k].src = s
    BY <1>3, SockFacts
  <2>2. q \in Seq(DownMsg) /\ \A k \in DOMAIN q : q[k].type = "reply" => q[k].src = s
    <3>1. /\ q \in Seq(DownMsg) /\ DOMAIN q = 1 .. Len(ch[s].down) + 1
          /\ DOMAIN ch[s].down = 1 .. Len(ch[s].down) /\ Len(ch[s].down) \in Nat
          /\ q[Len(ch[s].down) + 1] = msg
          /\ \A k \in 1 .. Len(ch[s].down) : q[k] = ch[s].down[k]
      BY <2>1, AppendSeq
    <3> HIDE DEF q
    <3>2. \A k \in DOMAIN q : k = Len(ch[s].down) + 1 \/ k \in 1 .. Len(ch[s].down)
      BY <3>1
    <3> QED BY <2>1, <3>1, <3>2
  <2> HIDE DEF q
  <2>3. v \in SockType /\ v.up = ch[s].up /\ v.down = q
    BY <2>1, <2>2, SockUpdates
  <2> HIDE DEF v
  <2>4. Kept(ch, [ch EXCEPT ![s] = v])
    BY <1>3, <2>2, <2>3, OneSock DEF Kept
  <2> QED BY <2>4, KeptSame DEF SendDown, v, q
<1> QED BY <1>2, <1>3

\* Reading the next message at either end.
LEMMA ReadUpKept ==
  ASSUME NEW ch, Sound(ch), NEW s
  PROVE  Kept(ch, [ch EXCEPT ![s].up = IF @ = << >> THEN @ ELSE Tail(@)])
<1>1. ch \in Seq(SockType)
  BY DEF Sound
<1>2. CASE s \notin DOMAIN ch
  <2>1. [ch EXCEPT ![s].up = IF @ = << >> THEN @ ELSE Tail(@)] = ch
    BY <1>1, <1>2
  <2> QED BY <2>1, KeptSame
<1>3. CASE s \in DOMAIN ch
  <2> DEFINE q == IF ch[s].up = << >> THEN ch[s].up ELSE Tail(ch[s].up)
             v == [ch[s] EXCEPT !.up = q]
  <2>1. /\ ch[s] \in SockType /\ ch[s].up \in Seq(UpMsg)
        /\ \A k \in DOMAIN ch[s].down : ch[s].down[k].type = "reply" => ch[s].down[k].src = s
    BY <1>3, SockFacts
  <2>2. q \in Seq(UpMsg) /\ (q = ch[s].up \/ (ch[s].up # << >> /\ q = Tail(ch[s].up)))
    BY <2>1, TailSeq
  <2> HIDE DEF q
  <2>3. v \in SockType /\ v.up = q /\ v.down = ch[s].down
    BY <2>1, <2>2, SockUpdates
  <2> HIDE DEF v
  <2>4. Kept(ch, [ch EXCEPT ![s] = v])
    BY <1>3, <2>1, <2>2, <2>3, OneSock DEF Kept
  <2> QED BY <2>4 DEF v, q
<1> QED BY <1>2, <1>3

LEMMA ReadDownKept ==
  ASSUME NEW ch, Sound(ch), NEW s, ch[s].down # << >>
  PROVE  Kept(ch, [ch EXCEPT ![s].down = Tail(@)])
<1>1. ch \in Seq(SockType)
  BY DEF Sound
<1>2. CASE s \notin DOMAIN ch
  <2>1. [ch EXCEPT ![s].down = Tail(@)] = ch
    BY <1>1, <1>2
  <2> QED BY <2>1, KeptSame
<1>3. CASE s \in DOMAIN ch
  <2> DEFINE q == Tail(ch[s].down)
             v == [ch[s] EXCEPT !.down = q]
  <2>1. /\ ch[s] \in SockType /\ ch[s].down \in Seq(DownMsg)
        /\ \A k \in DOMAIN ch[s].down : ch[s].down[k].type = "reply" => ch[s].down[k].src = s
    BY <1>3, SockFacts
  <2>2. q \in Seq(DownMsg) /\ \A k \in DOMAIN q : q[k].type = "reply" => q[k].src = s
    <3>1. /\ q \in Seq(DownMsg) /\ DOMAIN q = 1 .. Len(ch[s].down) - 1
          /\ DOMAIN ch[s].down = 1 .. Len(ch[s].down) /\ Len(ch[s].down) \in Nat
          /\ \A k \in 1 .. Len(ch[s].down) - 1 : q[k] = ch[s].down[k + 1]
      BY <2>1, TailSeq
    <3> HIDE DEF q
    <3>2. \A k \in DOMAIN q : k + 1 \in DOMAIN ch[s].down /\ q[k] = ch[s].down[k + 1]
      BY <3>1
    <3> QED BY <2>1, <3>1, <3>2
  <2> HIDE DEF q
  <2>3. v \in SockType /\ v.up = ch[s].up /\ v.down = q
    BY <2>1, <2>2, SockUpdates
  <2> HIDE DEF v
  <2>4. Kept(ch, [ch EXCEPT ![s] = v])
    BY <1>3, <2>2, <2>3, OneSock DEF Kept
  <2> QED BY <2>4 DEF v, q
<1> QED BY <1>2, <1>3


LEMMA KeptTwice ==
  ASSUME NEW a, NEW b, NEW c, Kept(a, b), Kept(b, c)
  PROVE  Kept(a, c)
BY DEF Kept, Follows

\* One socket gets a message more on its way up; a request is on its way once.
LEMMA OneMore ==
  ASSUME NEW ch, Sound(ch), NEW s \in DOMAIN ch, NEW v \in SockType, NEW msg \in UpMsg,
         v.up = Append(ch[s].up, msg), v.down = ch[s].down,
         msg.type = "req" => NotSent(ch, msg.id)
  PROVE  LET c2 == [ch EXCEPT ![s] = v]
         IN  /\ Sound(c2) /\ Len(c2) = Len(ch) /\ DOMAIN c2 = DOMAIN ch
             /\ \A id : NotSent(ch, id) /\ (msg.type = "req" => msg.id # id) => NotSent(c2, id)
<1> DEFINE c2 == [ch EXCEPT ![s] = v]
           n == Len(ch[s].up)
<1>1. /\ ch \in Seq(SockType) /\ ch[s].up \in Seq(UpMsg)
      /\ \A k \in DOMAIN ch[s].down : ch[s].down[k].type = "reply" => ch[s].down[k].src = s
  BY SockFacts DEF Sound
<1>2. /\ c2 \in Seq(SockType) /\ Len(c2) = Len(ch) /\ DOMAIN c2 = DOMAIN ch
      /\ \A t \in DOMAIN ch : c2[t] = IF t = s THEN v ELSE ch[t]
  BY <1>1, ExceptSeq
<1>3. /\ DOMAIN v.up = 1 .. n + 1 /\ DOMAIN ch[s].up = 1 .. n /\ n \in Nat
      /\ v.up[n + 1] = msg /\ \A k \in 1 .. n : v.up[k] = ch[s].up[k]
  BY <1>1, AppendSeq
<1> HIDE DEF c2, n
<1>4. ASSUME NEW t \in DOMAIN c2, NEW k \in DOMAIN c2[t].up
      PROVE  \/ k \in DOMAIN ch[t].up /\ c2[t].up[k] = ch[t].up[k]
             \/ t = s /\ k = n + 1 /\ c2[t].up[k] = msg
  <2>1. CASE t # s
    BY <1>2, <1>4, <2>1
  <2>2. CASE t = s
    <3>1. c2[t] = v /\ k \in 1 .. n + 1
      BY <1>2, <1>3, <1>4, <2>2
    <3>2. k \in 1 .. n \/ k = n + 1
      BY <1>3, <3>1
    <3> QED BY <1>3, <2>2, <3>1, <3>2
  <2> QED BY <2>1, <2>2
<1>5. SentOnce(c2)
  <2>1. SUFFICES ASSUME NEW t \in DOMAIN c2, NEW u \in DOMAIN c2,
                        NEW k \in DOMAIN c2[t].up, NEW m \in DOMAIN c2[u].up,
                        c2[t].up[k].type = "req", c2[u].up[m].type = "req",
                        c2[t].up[k].id = c2[u].up[m].id
                 PROVE  t = u /\ k = m
    BY DEF SentOnce
  <2>2. CASE /\ k \in DOMAIN ch[t].up /\ c2[t].up[k] = ch[t].up[k]
             /\ m \in DOMAIN ch[u].up /\ c2[u].up[m] = ch[u].up[m]
    BY <1>2, <2>1, <2>2 DEF Sound, SentOnce
  <2>3. CASE /\ k \in DOMAIN ch[t].up /\ c2[t].up[k] = ch[t].up[k]
             /\ u = s /\ m = n + 1 /\ c2[u].up[m] = msg
    BY <1>2, <2>1, <2>3 DEF NotSent
  <2>4. CASE /\ m \in DOMAIN ch[u].up /\ c2[u].up[m] = ch[u].up[m]
             /\ t = s /\ k = n + 1 /\ c2[t].up[k] = msg
    BY <1>2, <2>1, <2>4 DEF NotSent
  <2>5. CASE t = s /\ k = n + 1 /\ u = s /\ m = n + 1
    BY <2>5
  <2> QED BY <1>4, <2>1, <2>2, <2>3, <2>4, <2>5
<1>6. \A t \in DOMAIN c2 : AnswersOwn(c2, t)
  BY <1>1, <1>2 DEF Sound, AnswersOwn
<1>7. ASSUME NEW id, NotSent(ch, id), msg.type = "req" => msg.id # id
      PROVE  NotSent(c2, id)
  BY <1>2, <1>4, <1>7 DEF NotSent
<1> QED BY <1>2, <1>5, <1>6, <1>7 DEF Sound, c2

LEMMA SendUpKept ==
  ASSUME NEW ch, Sound(ch), NEW s, NEW msg \in UpMsg, msg.type = "req" => NotSent(ch, msg.id)
  PROVE  /\ Sound(SendUp(ch, s, msg)) /\ Len(SendUp(ch, s, msg)) = Len(ch)
         /\ DOMAIN SendUp(ch, s, msg) = DOMAIN ch
         /\ \A id : NotSent(ch, id) /\ (msg.type = "req" => msg.id # id)
               => NotSent(SendUp(ch, s, msg), id)
<1>1. ch \in Seq(SockType)
  BY DEF Sound
<1>2. CASE s \notin DOMAIN ch
  <2>1. [ch EXCEPT ![s].up = Append(@, msg)] = ch
    BY <1>1, <1>2
  <2> QED BY <2>1 DEF SendUp
<1>3. CASE s \in DOMAIN ch
  <2> DEFINE q == Append(ch[s].up, msg)
             v == [ch[s] EXCEPT !.up = q]
  <2>1. ch[s] \in SockType /\ ch[s].up \in Seq(UpMsg)
    BY <1>3, SockFacts
  <2>2. q \in Seq(UpMsg)
    BY <2>1, AppendSeq
  <2> HIDE DEF q
  <2>3. v \in SockType /\ v.up = q /\ v.down = ch[s].down
    BY <2>1, <2>2, SockUpdates
  <2> HIDE DEF v
  <2>4. v.up = Append(ch[s].up, msg)
    BY <2>3 DEF q
  <2> DEFINE c2 == [ch EXCEPT ![s] = v]
  <2>5. /\ Sound(c2) /\ Len(c2) = Len(ch) /\ DOMAIN c2 = DOMAIN ch
        /\ \A id : NotSent(ch, id) /\ (msg.type = "req" => msg.id # id) => NotSent(c2, id)
    BY <1>3, <2>3, <2>4, OneMore
  <2>6. SendUp(ch, s, msg) = c2 \/ SendUp(ch, s, msg) = ch
    BY DEF SendUp, v, q
  <2> HIDE DEF c2
  <2> QED BY <2>5, <2>6
<1> QED BY <1>2, <1>3

LEMMA NewSockKept ==
  ASSUME NEW ch, Sound(ch), NEW b \in BOOLEAN
  PROVE  LET c2 == Append(ch, Sock(b))
         IN  Sound(c2) /\ Follows(ch, c2) /\ Len(c2) = Len(ch) + 1
<1> DEFINE v == Sock(b)
           c2 == Append(ch, v)
           n == Len(ch)
<1>1. v \in SockType /\ v.up = << >> /\ v.down = << >>
  BY DEF Sock, SockType
<1> HIDE DEF v
<1>2. /\ c2 \in Seq(SockType) /\ Len(c2) = n + 1 /\ DOMAIN c2 = 1 .. n + 1
      /\ DOMAIN ch = 1 .. n /\ n \in Nat
      /\ c2[n + 1] = v /\ \A k \in 1 .. n : c2[k] = ch[k]
  BY <1>1, AppendSeq DEF Sound
<1> HIDE DEF c2, n
<1>3. \A t \in DOMAIN c2 : \/ t \in DOMAIN ch /\ c2[t] = ch[t]
                           \/ c2[t].up = << >> /\ c2[t].down = << >>
  <2>1. \A t \in DOMAIN c2 : t \in 1 .. n \/ t = n + 1
    BY <1>2
  <2> QED BY <1>1, <1>2, <2>1
<1>4. SentOnce(c2)
  BY <1>3 DEF Sound, SentOnce
<1>5. \A t \in DOMAIN c2 : AnswersOwn(c2, t)
  BY <1>3 DEF Sound, AnswersOwn
<1>6. Follows(ch, c2)
  BY <1>3 DEF Follows, NotSent
<1> QED BY <1>2, <1>4, <1>5, <1>6 DEF Sound, c2, v, n

\* The end of the server's process: nothing is on its way to it any more.
LEMMA ExitKept ==
  ASSUME NEW ch, Sound(ch)
  PROVE  Kept(ch, [s \in DOMAIN ch |-> [ch[s] EXCEPT !.up = << >>, !.send = FALSE]])
<1> DEFINE c2 == [s \in DOMAIN ch |-> [ch[s] EXCEPT !.up = << >>, !.send = FALSE]]
<1>1. ch \in Seq(SockType) /\ DOMAIN ch = 1 .. Len(ch) /\ Len(ch) \in Nat
  BY DEF Sound
<1>2. ASSUME NEW v \in SockType
      PROVE  /\ [v EXCEPT !.up = << >>, !.send = FALSE] \in SockType
             /\ [v EXCEPT !.up = << >>, !.send = FALSE].up = << >>
             /\ [v EXCEPT !.up = << >>, !.send = FALSE].down = v.down
  <2> DEFINE q == << >>
  <2>1. q \in Seq(UpMsg)
    OBVIOUS
  <2> HIDE DEF q
  <2>2. /\ [v EXCEPT !.up = q, !.send = FALSE] \in SockType
        /\ [v EXCEPT !.up = q, !.send = FALSE].up = q
        /\ [v EXCEPT !.up = q, !.send = FALSE].down = v.down
    BY <2>1 DEF SockType
  <2> QED BY <2>2 DEF q
<1>3. \A t \in DOMAIN ch : c2[t] \in SockType /\ c2[t].up = << >> /\ c2[t].down = ch[t].down
  <2>1. \A t \in DOMAIN ch : ch[t] \in SockType
    BY <1>1
  <2> QED BY <1>2, <2>1
<1>4. DOMAIN c2 = DOMAIN ch
  OBVIOUS
<1>5. c2 = [s \in DOMAIN ch |-> c2[s]]
  OBVIOUS
<1> HIDE DEF c2
<1>6. c2 \in [1 .. Len(ch) -> SockType]
  BY <1>1, <1>3, <1>5
<1>7. c2 \in Seq(SockType) /\ Len(c2) = Len(ch)
  BY <1>1, <1>6
<1>8. SentOnce(c2) /\ Follows(ch, c2)
  BY <1>3, <1>4 DEF SentOnce, Follows, NotSent
<1>9. \A t \in DOMAIN c2 : AnswersOwn(c2, t)
  BY <1>3, <1>4 DEF Sound, AnswersOwn
<1> QED BY <1>4, <1>7, <1>8, <1>9 DEF Kept, Sound, c2

\* A request that is read is on its way no longer.
LEMMA ReadRequest ==
  ASSUME NEW ch, Sound(ch), NEW s \in DOMAIN ch, ch[s].up # << >>,
         Head(ch[s].up).type = "req"
  PROVE  /\ Head(ch[s].up) \in [type : {"req"}, id : Nat]
         /\ ~NotSent(ch, Head(ch[s].up).id)
         /\ NotSent([ch EXCEPT ![s].up = IF @ = << >> THEN @ ELSE Tail(@)], Head(ch[s].up).id)
<1> DEFINE v == [ch[s] EXCEPT !.up = Tail(ch[s].up)]
           c2 == [ch EXCEPT ![s] = v]
           q == ch[s].up
<1>1. /\ ch \in Seq(SockType) /\ ch[s] \in SockType /\ q \in Seq(UpMsg)
  BY SockFacts DEF Sound
<1>2. /\ Tail(q) \in Seq(UpMsg) /\ Len(q) \in Nat \ {0} /\ DOMAIN q = 1 .. Len(q)
      /\ DOMAIN Tail(q) = 1 .. Len(q) - 1 /\ Head(q) = q[1] /\ Head(q) \in UpMsg
      /\ \A k \in 1 .. Len(q) - 1 : Tail(q)[k] = q[k + 1]
  BY <1>1, TailSeq
<1>3. Head(q) \in [type : {"req"}, id : Nat]
  BY <1>2 DEF UpMsg
<1>4. 1 \in DOMAIN q /\ q[1].type = "req"
  BY <1>2
<1>5. ~NotSent(ch, q[1].id)
  BY <1>4 DEF NotSent
<1>6. v \in SockType /\ v.up = Tail(q)
  BY <1>1, <1>2, SockUpdates
<1>7. \A t \in DOMAIN c2 : t \in DOMAIN ch /\ c2[t] = IF t = s THEN v ELSE ch[t]
  BY <1>1, <1>6
<1>8. \A k \in DOMAIN v.up : k + 1 \in DOMAIN q /\ k + 1 # 1 /\ v.up[k] = q[k + 1]
  BY <1>2, <1>6
<1> HIDE DEF v
<1>9. c2 = [ch EXCEPT ![s].up = IF @ = << >> THEN @ ELSE Tail(@)]
  BY DEF v
<1> HIDE DEF c2
<1>10. NotSent(c2, q[1].id)
  <2>1. SUFFICES ASSUME NEW t \in DOMAIN c2, NEW k \in DOMAIN c2[t].up,
                        c2[t].up[k].type = "req", c2[t].up[k].id = q[1].id
                 PROVE  FALSE
    BY DEF NotSent
  <2>2. CASE t = s
    <3>1. k + 1 \in DOMAIN q /\ k + 1 # 1 /\ q[k + 1].type = "req" /\ q[k + 1].id = q[1].id
      BY <1>7, <1>8, <2>1, <2>2
    <3> QED BY <1>4, <3>1 DEF Sound, SentOnce
  <2>3. CASE t # s
    <3>1. t \in DOMAIN ch /\ c2[t] = ch[t]
      BY <1>7, <2>1, <2>3
    <3> QED BY <1>4, <2>1, <2>3, <3>1 DEF Sound, SentOnce
  <2> QED BY <2>2, <2>3
<1> QED BY <1>2, <1>3, <1>5, <1>9, <1>10

-----------------------------------------------------------------------------
(* What the operations do to the clients *)

LEMMA ClientFacts ==
  ASSUME NEW cls \in Seq(ClientType), NEW f, NEW V, AllSound(cls, f, V), NEW i \in DOMAIN cls
  PROVE  cls[i] \in ClientType /\ cls[i].fd \in DOMAIN f /\ ClientSound(cls[i], {r \in V : r.client = i})
BY DEF AllSound

\* One client changes, and the requests of that client alone.
LEMMA OneClient ==
  ASSUME NEW cls \in Seq(ClientType), NEW f, NEW V, AllSound(cls, f, V),
         NEW i \in DOMAIN cls, NEW c \in ClientType, NEW W,
         c.fd = cls[i].fd, ClientSound(c, {r \in W : r.client = i}),
         \A r \in W : r \in V \/ (r.client = i /\ f[cls[i].fd] \in {0, r.sock}),
         \A r \in V : r \in W \/ r.client = i
  PROVE  /\ AllSound([cls EXCEPT ![i] = c], f, W)
         /\ [cls EXCEPT ![i] = c] \in Seq(ClientType) /\ Len([cls EXCEPT ![i] = c]) = Len(cls)
<1> DEFINE d == [cls EXCEPT ![i] = c]
<1>1. /\ d \in Seq(ClientType) /\ Len(d) = Len(cls) /\ DOMAIN d = DOMAIN cls
      /\ \A j \in DOMAIN cls : d[j] = IF j = i THEN c ELSE cls[j]
  BY ExceptSeq
<1> HIDE DEF d
<1>2. ASSUME NEW j \in DOMAIN d
      PROVE  d[j].fd \in DOMAIN f /\ ClientSound(d[j], {r \in W : r.client = j})
  <2>1. CASE j = i
    BY <1>1, <2>1 DEF AllSound
  <2>2. CASE j # i
    <3>1. {r \in W : r.client = j} = {r \in V : r.client = j}
      BY <2>2
    <3> QED BY <1>1, <1>2, <2>2, <3>1 DEF AllSound
  <2> QED BY <2>1, <2>2
<1>3. \A j \in DOMAIN cls : d[j].fd = cls[j].fd
  BY <1>1
<1>4. \A r \in W : r.client \in DOMAIN d /\ f[d[r.client].fd] \in {0, r.sock}
  BY <1>1, <1>3 DEF AllSound
<1> QED BY <1>1, <1>2, <1>4 DEF AllSound, d

\* A new client has no requests.
LEMMA MoreClient ==
  ASSUME NEW cls \in Seq(ClientType), NEW f, NEW V, AllSound(cls, f, V),
         NEW x \in DOMAIN f, x \in Nat \ {0}
  PROVE  /\ AllSound(Append(cls, Client(x)), f, V)
         /\ Append(cls, Client(x)) \in Seq(ClientType)
<1> DEFINE c == Client(x)
           d == Append(cls, c)
           n == Len(cls)
<1>1. /\ c \in ClientType /\ c.fd = x /\ c.free = NReqs /\ c.ev = "on" /\ ~c.paused /\ ~c.dead
      /\ c.there /\ NReqs \in Nat \ {0}
  BY ConstantsAssumption DEF Client, ClientType
<1> HIDE DEF c
<1>2. /\ d \in Seq(ClientType) /\ DOMAIN d = 1 .. n + 1 /\ DOMAIN cls = 1 .. n /\ n \in Nat
      /\ d[n + 1] = c /\ \A k \in 1 .. n : d[k] = cls[k]
  BY <1>1, AppendSeq
<1> HIDE DEF d, n
<1>3. ASSUME NEW j \in DOMAIN d
      PROVE  d[j].fd \in DOMAIN f /\ ClientSound(d[j], {r \in V : r.client = j})
  <2>1. CASE j = n + 1
    <3>1. n + 1 \notin DOMAIN cls
      BY <1>2
    <3>2. {r \in V : r.client = j} = {}
      BY <2>1, <3>1 DEF AllSound
    <3>3. ClientSound(c, {})
      BY <1>1, FS_EmptySet DEF ClientSound
    <3> QED BY <1>1, <1>2, <2>1, <3>2, <3>3
  <2>2. CASE j \in 1 .. n
    BY <1>2, <2>2 DEF AllSound
  <2> QED BY <1>2, <2>1, <2>2
<1>4. \A r \in V : r.client \in DOMAIN d /\ f[d[r.client].fd] \in {0, r.sock}
  <2>1. \A j \in DOMAIN cls : j \in DOMAIN d /\ d[j] = cls[j]
    BY <1>2
  <2> QED BY <2>1 DEF AllSound
<1> QED BY <1>2, <1>3, <1>4 DEF AllSound, d, c

\* A descriptor more, or one closed.
LEMMA MoreFds ==
  ASSUME NEW S, NEW f \in Seq(S), NEW s \in S, NEW cls, NEW V, AllSound(cls, f, V)
  PROVE  AllSound(cls, Append(f, s), V)
<1> DEFINE g == Append(f, s)
<1>1. \A x \in DOMAIN f : x \in DOMAIN g /\ g[x] = f[x]
  BY AppendSeq
<1> HIDE DEF g
<1>2. AllSound(cls, g, V)
  BY <1>1 DEF AllSound
<1> QED BY <1>2 DEF g

LEMMA ClosedFd ==
  ASSUME NEW S, NEW f \in Seq(S), NEW x, NEW cls, NEW V, AllSound(cls, f, V)
  PROVE  AllSound(cls, [f EXCEPT ![x] = 0], V)
<1> DEFINE g == [f EXCEPT ![x] = 0]
<1>1. DOMAIN g = DOMAIN f /\ \A y \in DOMAIN f : g[y] \in {0, f[y]}
  OBVIOUS
<1> HIDE DEF g
<1>2. AllSound(cls, g, V)
  BY <1>1 DEF AllSound
<1> QED BY <1>2 DEF g

\* tapdisk_nbdserver_free_client, of a client with its event on.
LEMMA FreedSound ==
  ASSUME NEW c \in ClientType, NEW P, ClientSound(c, P), c.ev # "none"
  PROVE  LET d == [c EXCEPT !.ev = "none", !.dead = (P # {}), !.there = (P # {})]
         IN  d \in ClientType /\ d.fd = c.fd /\ ClientSound(d, P)
<1> DEFINE b == P # {}
           d == [c EXCEPT !.ev = "none", !.dead = b, !.there = b]
<1>1. b \in BOOLEAN
  OBVIOUS
<1>2. (b => P # {}) /\ (~b => P = {})
  OBVIOUS
<1> HIDE DEF b
<1>3. /\ d \in ClientType /\ d.fd = c.fd /\ d.ev = "none" /\ d.free = c.free
      /\ d.paused = c.paused /\ d.there = b
  BY <1>1 DEF ClientType
<1> HIDE DEF d
<1>4. ~c.paused
  BY DEF ClientSound
<1>5. ClientSound(d, P)
  BY <1>2, <1>3, <1>4 DEF ClientSound
<1> QED BY <1>3, <1>5 DEF d, b

\* tapdisk_nbdserver_alloc_request: the request v is one more.
LEMMA AllocSound ==
  ASSUME NEW c \in ClientType, NEW P, IsFiniteSet(P), ClientSound(c, P), c.ev = "on",
         NEW v, v \notin P
  PROVE  /\ AllocRequest(c) \in ClientType /\ AllocRequest(c).fd = c.fd
         /\ ClientSound(AllocRequest(c), P \cup {v})
<1> DEFINE e == IF c.free = 1 THEN "masked" ELSE c.ev
           d == [c EXCEPT !.free = @ - 1, !.ev = e]
<1>1. /\ c.free \in 0 .. NReqs /\ c.free > 0 /\ NReqs \in Nat /\ ~c.paused /\ c.there /\ ~c.dead
  BY ConstantsAssumption DEF ClientType, ClientSound
<1>2. /\ IsFiniteSet(P \cup {v}) /\ Cardinality(P \cup {v}) = Cardinality(P) + 1
      /\ Cardinality(P) \in Nat
  BY FS_AddElement, FS_CardinalityType
<1>3. e \in {"on", "masked"} /\ (e = "on" => c.free # 1) /\ c.free - 1 \in 0 .. NReqs
  BY <1>1
<1> HIDE DEF e
<1>4. /\ d \in ClientType /\ d.fd = c.fd /\ d.free = c.free - 1 /\ d.ev = e
      /\ d.paused = c.paused /\ d.there = c.there /\ d.dead = c.dead
  BY <1>1, <1>3 DEF ClientType
<1>5. AllocRequest(c) = d
  BY DEF AllocRequest, e
<1> HIDE DEF d
<1>6. c.free + Cardinality(P) = NReqs
  BY DEF ClientSound
<1>7. d.free + Cardinality(P \cup {v}) = NReqs /\ (d.ev = "on" => d.free > 0)
  BY <1>1, <1>2, <1>3, <1>4, <1>6
<1>8. ClientSound(d, P \cup {v})
  BY <1>1, <1>4, <1>7 DEF ClientSound
<1> QED BY <1>4, <1>5, <1>8

\* tapdisk_nbdserver_free_request, and the end of a dead client with its last
\* request.
LEMMA ReleaseSound ==
  ASSUME NEW c \in ClientType, NEW P, IsFiniteSet(P), ClientSound(c, P), NEW v \in P
  PROVE  LET d == [FreeRequest(c) EXCEPT !.there = ~(c.dead /\ P = {v})]
         IN  d \in ClientType /\ d.fd = c.fd /\ ClientSound(d, P \ {v})
<1> DEFINE e == IF c.free + 1 = NReqs \div 4 /\ c.ev = "masked" THEN "on" ELSE c.ev
           b == ~(c.dead /\ P = {v})
           d == [c EXCEPT !.free = @ + 1, !.ev = e, !.there = b]
<1>1. c.free \in 0 .. NReqs /\ NReqs \in Nat /\ c.ev \in {"none", "on", "masked"}
  BY ConstantsAssumption DEF ClientType
<1>2. /\ Cardinality(P \ {v}) = Cardinality(P) - 1 /\ Cardinality(P) \in Nat /\ Cardinality(P) # 0
  <2>1. Cardinality(P \ {v}) = Cardinality(P) - 1
    BY FS_RemoveElement
  <2>2. Cardinality(P) \in Nat /\ Cardinality(P) # 0
    BY FS_CardinalityType, FS_EmptySet
  <2> QED BY <2>1, <2>2
<1>3. c.free + Cardinality(P) = NReqs
  BY DEF ClientSound
<1>4. c.free + 1 \in 0 .. NReqs
  BY <1>1, <1>2, <1>3
<1>5. e \in {"none", "on", "masked"} /\ (e # "none" <=> c.ev # "none")
  BY <1>1
<1>6. b \in BOOLEAN /\ (~b => P \ {v} = {}) /\ (~c.dead => b)
  OBVIOUS
<1>7. [FreeRequest(c) EXCEPT !.there = b] = d
  BY DEF FreeRequest
<1> HIDE DEF e, b
<1>8. /\ d \in ClientType /\ d.fd = c.fd /\ d.free = c.free + 1 /\ d.ev = e
      /\ d.paused = c.paused /\ d.there = b /\ d.dead = c.dead
  BY <1>1, <1>4, <1>5, <1>6 DEF ClientType
<1> HIDE DEF d
<1>9. d.free > 0 /\ d.free + Cardinality(P \ {v}) = NReqs
  BY <1>1, <1>2, <1>3, <1>8
<1>10. (c.ev # "none" \/ c.paused => ~c.dead) /\ (c.paused => c.ev = "none")
  BY DEF ClientSound
<1>11. ClientSound(d, P \ {v})
  BY <1>5, <1>6, <1>8, <1>9, <1>10 DEF ClientSound
<1> QED BY <1>7, <1>8, <1>11 DEF b

\* tapdisk_nbdserver_pause and _unpause: a client that was not masked gets its
\* event back.
LEMMA PausedSound ==
  ASSUME NEW c \in ClientType, NEW P, ClientSound(c, P), c.ev # "masked"
  PROVE  LET d == IF c.ev = "none" THEN c ELSE [c EXCEPT !.ev = "none", !.paused = TRUE]
         IN  d \in ClientType /\ d.fd = c.fd /\ ClientSound(d, P)
<1> DEFINE d == [c EXCEPT !.ev = "none", !.paused = TRUE]
<1>1. /\ d \in ClientType /\ d.fd = c.fd /\ d.free = c.free /\ d.ev = "none"
      /\ d.paused = TRUE /\ d.there = c.there /\ d.dead = c.dead
      /\ c.ev \in {"none", "on", "masked"}
  BY DEF ClientType
<1> HIDE DEF d
<1>2. CASE c.ev = "none"
  BY <1>2
<1>3. CASE c.ev = "on"
  <2>1. ClientSound(d, P)
    BY <1>1, <1>3 DEF ClientSound
  <2> QED BY <1>1, <1>3, <2>1 DEF d
<1> QED BY <1>1, <1>2, <1>3

LEMMA UnpausedSound ==
  ASSUME NEW c \in ClientType, NEW P, ClientSound(c, P)
  PROVE  LET d == IF c.paused THEN [c EXCEPT !.ev = "on", !.paused = FALSE] ELSE c
         IN  d \in ClientType /\ d.fd = c.fd /\ ClientSound(d, P)
<1> DEFINE d == [c EXCEPT !.ev = "on", !.paused = FALSE]
<1>1. /\ d \in ClientType /\ d.fd = c.fd /\ d.free = c.free /\ d.ev = "on"
      /\ d.paused = FALSE /\ d.there = c.there /\ d.dead = c.dead
  BY DEF ClientType
<1> HIDE DEF d
<1>2. CASE c.paused
  <2>1. ClientSound(d, P)
    BY <1>1, <1>2 DEF ClientSound
  <2> QED BY <1>1, <1>2, <2>1 DEF d
<1>3. CASE ~c.paused
  BY <1>3
<1> QED BY <1>2, <1>3

LEMMA GoneSound ==
  ASSUME NEW c \in ClientType, ClientSound(c, {})
  PROVE  LET d == [c EXCEPT !.ev = "none", !.paused = FALSE, !.there = FALSE]
         IN  d \in ClientType /\ d.fd = c.fd /\ ClientSound(d, {})
<1> DEFINE d == [c EXCEPT !.ev = "none", !.paused = FALSE, !.there = FALSE]
<1>1. /\ d \in ClientType /\ d.fd = c.fd /\ d.free = c.free /\ d.ev = "none"
      /\ d.paused = FALSE
  BY DEF ClientType
<1> HIDE DEF d
<1>2. ClientSound(d, {})
  BY <1>1 DEF ClientSound
<1> QED BY <1>1, <1>2 DEF d

\* Every client changes, none changes its descriptor.
LEMMA EveryClient ==
  ASSUME NEW cls \in Seq(ClientType), NEW f, NEW V, AllSound(cls, f, V), NEW d,
         d = [i \in DOMAIN cls |-> d[i]],
         \A i \in DOMAIN cls : /\ d[i] \in ClientType /\ d[i].fd = cls[i].fd
                               /\ ClientSound(d[i], {r \in V : r.client = i})
  PROVE  d \in Seq(ClientType) /\ AllSound(d, f, V)
<1>1. DOMAIN cls = 1 .. Len(cls) /\ Len(cls) \in Nat /\ DOMAIN d = DOMAIN cls
  OBVIOUS
<1>2. d \in [1 .. Len(cls) -> ClientType]
  BY <1>1
<1>3. d \in Seq(ClientType)
  BY <1>1, <1>2
<1>4. AllSound(d, f, V)
  BY <1>1 DEF AllSound
<1> QED BY <1>3, <1>4

-----------------------------------------------------------------------------
(* The invariant *)

\* An operation that gives no new request a number, and sends none.
LEMMA IdsKept ==
  ASSUME Types, IdsOnce, Follows(chan, chan'), vreqs' \in SUBSET vreqs,
         Len(outcome') = Len(outcome), drv'.pend \in {drv.pend, << >>}
  PROVE  IdsOnce'
BY DEF IdsOnce, Follows

\* An operation of the driver or of the sockets alone.
LEMMA DriverStep ==
  ASSUME IInv, UNCHANGED server, outcome' \in Seq(Outcomes), Len(outcome') = Len(outcome),
         Kept(chan, chan'), "pend" \in DOMAIN drv', drv'.pend \in {drv.pend, << >>}
  PROVE  IInv'
<1>1. Sound(chan') /\ Follows(chan, chan') /\ Len(chan') = Len(chan) /\ chan' \in Seq(SockType)
  BY DEF Kept, Sound
<1>2. Types'
  BY <1>1, EmptySeq DEF IInv, Types, server
<1>3. IdsOnce'
  BY <1>1, IdsKept DEF IInv, server
<1>4. ClientsSound'
  BY DEF IInv, ClientsSound, server
<1> QED BY <1>1, <1>2, <1>3, <1>4 DEF IInv

LEMMA ServerSame ==
  ASSUME IInv, UNCHANGED <<server, outcome>>, Kept(chan, chan'),
         "pend" \in DOMAIN drv', drv'.pend \in {drv.pend, << >>}
  PROVE  IInv'
<1>1. outcome' \in Seq(Outcomes) /\ Len(outcome') = Len(outcome)
  BY DEF IInv, Types
<1> QED BY <1>1, DriverStep

\* An operation of the server that makes no socket.
LEMMA ServerStep ==
  ASSUME IInv, UNCHANGED <<style, drv, passed, outcome>>, Kept(chan, chan'),
         fds' \in Seq(0 .. Len(chan)), clients' \in Seq(ClientType),
         AllSound(clients', fds', vreqs'), vreqs' \in SUBSET vreqs
  PROVE  IInv'
<1>1. Sound(chan') /\ Follows(chan, chan') /\ Len(chan') = Len(chan) /\ chan' \in Seq(SockType)
  BY DEF Kept, Sound
<1>2. vreqs' \in SUBSET VreqType /\ IsFiniteSet(vreqs')
  BY FS_Subset DEF IInv, Types
<1>3. Types'
  BY <1>1, <1>2 DEF IInv, Types
<1>4. IdsOnce'
  BY <1>1, IdsKept DEF IInv
<1>5. ClientsSound'
  BY DEF ClientsSound
<1> QED BY <1>1, <1>3, <1>4, <1>5 DEF IInv

LEMMA NoDriverFacts ==
  "pend" \in DOMAIN NoDriver /\ NoDriver.pend = << >>
BY DEF NoDriver

LEMMA InitIInv ==
  ASSUME Init
  PROVE  IInv
<1>1. /\ chan = << >> /\ fds = << >> /\ clients = << >> /\ vreqs = {} /\ outcome = << >>
      /\ drv = NoDriver /\ style \in Styles
  BY DEF Init
<1>2. Types
  <2>1. style \in {"old", "new"}
    BY <1>1, ConstantsAssumption
  <2>2. "pend" \in DOMAIN drv /\ drv.pend \in Seq(Nat)
    BY <1>1, NoDriverFacts, EmptySeq
  <2>3. vreqs \in SUBSET VreqType /\ IsFiniteSet(vreqs)
    BY <1>1, FS_EmptySet
  <2>4. /\ chan \in Seq(SockType) /\ fds \in Seq(0 .. Len(chan)) /\ clients \in Seq(ClientType)
        /\ outcome \in Seq(Outcomes)
    BY <1>1, EmptySeq
  <2> QED BY <2>1, <2>2, <2>3, <2>4 DEF Types
<1>3. DOMAIN chan = {} /\ DOMAIN clients = {} /\ DOMAIN drv.pend = {}
  <2>1. drv.pend = << >>
    BY <1>1, NoDriverFacts
  <2> QED BY <1>1, <2>1, EmptySeq
<1>4. Sound(chan)
  BY <1>2, <1>3 DEF Sound, SentOnce, Types
<1>5. IdsOnce
  BY <1>1, <1>3 DEF IdsOnce, NotSent
<1>6. ClientsSound
  BY <1>1, <1>3 DEF ClientsSound, AllSound
<1> QED BY <1>2, <1>4, <1>5, <1>6 DEF IInv

\* With descriptors that are never given out twice, a new one is the next.
LEMMA NewDescriptor ==
  ASSUME ~FdReuse, IInv, NEW s
  PROVE  NewFd = Len(fds) + 1 /\ Opened(NewFd, s) = Append(fds, s)
BY DEF IInv, Types, NewFd, Opened

LEMMA HelloType ==
  \A sty \in {"old", "new"} : /\ [type |-> "hello", style |-> sty] \in DownMsg
                              /\ [type |-> "hello", style |-> sty].type # "reply"
BY DEF DownMsg

\* A new client, or none when it cannot be greeted.
LEMMA NewClientFacts ==
  ASSUME NEW cls, NEW ch, Sound(ch), NEW s, NEW f, NEW sty \in {"old", "new"},
         NewClient(cls, ch, s, f, sty)
  PROVE  /\ Kept(ch, chan')
         /\ \/ clients' = Append(cls, Client(f)) /\ fds' = Opened(f, s)
            \/ clients' = cls /\ fds' = Opened(f, 0)
<1> DEFINE msg == [type |-> "hello", style |-> sty]
<1>1. msg \in DownMsg /\ msg.type # "reply"
  BY HelloType
<1>2. chan' = SendDown(ch, s, msg) \/ chan' = [ch EXCEPT ![s].send = FALSE]
  BY DEF NewClient
<1> HIDE DEF msg
<1>3. Kept(ch, SendDown(ch, s, msg))
  BY <1>1, SendDownKept
<1>4. Kept(ch, [ch EXCEPT ![s].send = FALSE])
  BY EndsKept
<1>5. \/ clients' = Append(cls, Client(f)) /\ fds' = Opened(f, s)
      \/ clients' = cls /\ fds' = Opened(f, 0)
  BY DEF NewClient
<1> QED BY <1>2, <1>3, <1>4, <1>5

LEMMA AcceptKeeps ==
  ASSUME ~FdReuse, IInv, NEW s \in DOMAIN chan, AcceptUnix(s)
  PROVE  IInv'
<1> DEFINE ch == [chan EXCEPT ![s].accepted = TRUE]
<1>3. Sound(chan)
  BY DEF IInv
<1>4. Kept(chan, ch)
  BY <1>3, EndsKept
<1>2. vreqs' = vreqs /\ UNCHANGED <<style, drv, passed, outcome>>
  BY DEF AcceptUnix
<1>5. /\ Kept(ch, chan')
      /\ \/ clients' = Append(clients, Client(Len(fds) + 1)) /\ fds' = Append(fds, s)
         \/ clients' = clients /\ fds' = Append(fds, 0)
  <2>1. NewClient(clients, ch, s, NewFd, "new")
    BY DEF AcceptUnix
  <2> HIDE DEF ch
  <2>2. /\ Kept(ch, chan')
        /\ \/ clients' = Append(clients, Client(NewFd)) /\ fds' = Opened(NewFd, s)
           \/ clients' = clients /\ fds' = Opened(NewFd, 0)
    BY <1>4, <2>1, NewClientFacts DEF Kept
  <2> QED BY <2>2, NewDescriptor
<1>1. PICK v \in {0, s} :
        /\ fds' = Append(fds, v)
        /\ clients' = clients \/ clients' = Append(clients, Client(Len(fds) + 1))
  BY <1>5
<1> HIDE DEF ch
<1>6. Kept(chan, chan')
  BY <1>4, <1>5, KeptTwice
<1>7. /\ fds \in Seq(0 .. Len(chan)) /\ v \in 0 .. Len(chan) /\ clients \in Seq(ClientType)
      /\ AllSound(clients, fds, vreqs)
  BY DEF IInv, Types, ClientsSound
<1>8. /\ fds' \in Seq(0 .. Len(chan)) /\ AllSound(clients, fds', vreqs)
      /\ Len(fds) + 1 \in DOMAIN fds' /\ Len(fds) + 1 \in Nat \ {0}
  <2>1. AllSound(clients, fds', vreqs)
    BY <1>1, <1>7, MoreFds
  <2> QED BY <1>1, <1>7, <2>1, AppendSeq
<1>9. clients' \in Seq(ClientType) /\ AllSound(clients', fds', vreqs)
  BY <1>1, <1>7, <1>8, MoreClient
<1> QED BY <1>2, <1>6, <1>8, <1>9, ServerStep

\* Reading the next message of a client.
LEMMA ConsumedKept ==
  ASSUME IInv, NEW f
  PROVE  Kept(chan, Consumed(f))
BY ReadUpKept DEF IInv, Consumed

LEMMA HandshakeKeeps ==
  ASSUME IInv, NEW i, HandshakeCb(i)
  PROVE  IInv'
<1> DEFINE msg == OptionReply
<1>1. msg \in DownMsg /\ msg.type # "reply"
  BY DEF OptionReply, DownMsg
<1> HIDE DEF msg
<1>2. Kept(chan, ReceiveOptions(hfd))
  <2>1. Kept(chan, Consumed(hfd))
    BY ConsumedKept
  <2>2. Kept(Consumed(hfd), SendDown(Consumed(hfd), fds[hfd], msg))
    BY <1>1, <2>1, SendDownKept DEF Kept
  <2> QED BY <2>1, <2>2, KeptTwice DEF ReceiveOptions, msg
<1>3. Kept(chan, chan)
  BY KeptSame DEF IInv
<1>4. Kept(chan, [chan EXCEPT ![fds[hfd]].send = FALSE])
  BY EndsKept DEF IInv
<1>5. Kept(chan, chan')
  BY <1>2, <1>3, <1>4 DEF HandshakeCb, Handshake
<1>6. fds' = fds \/ fds' = [fds EXCEPT ![hfd] = 0]
  BY DEF HandshakeCb, Handshake
<1>7. UNCHANGED <<style, clients, vreqs, drv, passed, outcome>>
  BY DEF HandshakeCb
<1>8. fds \in Seq(0 .. Len(chan)) /\ clients \in Seq(ClientType) /\ AllSound(clients, fds, vreqs)
  BY DEF IInv, Types, ClientsSound
<1>9. fds' \in Seq(0 .. Len(chan))
  <2>1. Len(chan) \in Nat
    BY DEF IInv, Types
  <2>2. CASE hfd \in DOMAIN fds
    <3>1. [fds EXCEPT ![hfd] = 0] \in Seq(0 .. Len(chan))
      BY <1>8, <2>1, <2>2, ExceptSeq
    <3> QED BY <1>6, <1>8, <3>1
  <2>3. CASE hfd \notin DOMAIN fds
    <3>1. [fds EXCEPT ![hfd] = 0] = fds
      BY <1>8, <2>3
    <3> QED BY <1>6, <1>8, <3>1
  <2> QED BY <2>2, <2>3
<1>10. AllSound(clients', fds', vreqs')
  BY <1>6, <1>7, <1>8, ClosedFd
<1> QED BY <1>5, <1>7, <1>8, <1>9, <1>10, ServerStep

\* The client is freed with its requests left where they are.
LEMMA FreeClientSound ==
  ASSUME IInv, NEW i \in DOMAIN clients, clients[i].ev = "on"
  PROVE  FreeClient(clients, i) \in Seq(ClientType) /\ AllSound(FreeClient(clients, i), fds, vreqs)
<1> DEFINE P == {r \in vreqs : r.client = i}
           d == [clients[i] EXCEPT !.ev = "none", !.dead = (P # {}), !.there = (P # {})]
<1>1. clients \in Seq(ClientType) /\ AllSound(clients, fds, vreqs)
  BY DEF IInv, Types, ClientsSound
<1>2. clients[i] \in ClientType /\ ClientSound(clients[i], P)
  BY <1>1, ClientFacts
<1>3. FreeClient(clients, i) = [clients EXCEPT ![i] = d]
  BY DEF FreeClient, Pending
<1> HIDE DEF P
<1>4. d \in ClientType /\ d.fd = clients[i].fd /\ ClientSound(d, P)
  BY <1>2, FreedSound
<1> HIDE DEF d
<1>5. ClientSound(d, {r \in vreqs : r.client = i})
  BY <1>4 DEF P
<1>6. \A r \in vreqs : /\ r \in vreqs \/ (r.client = i /\ fds[clients[i].fd] \in {0, r.sock})
                       /\ r \in vreqs \/ r.client = i
  OBVIOUS
<1>7. AllSound([clients EXCEPT ![i] = d], fds, vreqs) /\ [clients EXCEPT ![i] = d] \in Seq(ClientType)
  BY <1>1, <1>4, <1>5, <1>6, OneClient
<1> QED BY <1>3, <1>7

LEMMA KillKeeps ==
  ASSUME IInv, NEW i \in DOMAIN clients, clients[i].ev = "on", Kill(i),
         UNCHANGED <<style, drv, passed, outcome>>
  PROVE  IInv'
<1>1. /\ clients' = FreeClient(clients, i) /\ fds' = [fds EXCEPT ![clients[i].fd] = 0]
      /\ chan' = [chan EXCEPT ![fds[clients[i].fd]].send = FALSE] /\ vreqs' = vreqs
  BY DEF Kill
<1>2. Kept(chan, chan')
  BY <1>1, EndsKept DEF IInv
<1>3. fds \in Seq(0 .. Len(chan)) /\ Len(chan) \in Nat /\ clients[i].fd \in DOMAIN fds
  <2>1. fds \in Seq(0 .. Len(chan)) /\ Len(chan) \in Nat
    BY DEF IInv, Types
  <2> QED BY <2>1, ClientFacts DEF IInv, Types, ClientsSound
<1>4. fds' \in Seq(0 .. Len(chan))
  BY <1>1, <1>3, ExceptSeq
<1>5. clients' \in Seq(ClientType) /\ AllSound(clients', fds', vreqs)
  BY <1>1, <1>3, FreeClientSound, ClosedFd
<1> QED BY <1>1, <1>2, <1>4, <1>5, ServerStep

LEMMA DiscKeeps ==
  ASSUME IInv, NEW i \in DOMAIN clients, clients[i].ev = "on", ServeDisc(i),
         UNCHANGED <<style, drv, passed, outcome>>
  PROVE  IInv'
<1> DEFINE x == clients[i].fd
           cls == FreeClient(clients, i)
<1>1. NewClient(cls, Consumed(x), fds[x], x, style) /\ vreqs' = vreqs
  BY DEF ServeDisc
<1> HIDE DEF cls
<1>2. style \in {"old", "new"}
  BY DEF IInv, Types
<1>3. Kept(chan, Consumed(x))
  BY ConsumedKept
<1>4. /\ Kept(Consumed(x), chan')
      /\ \/ clients' = Append(cls, Client(x)) /\ fds' = Opened(x, fds[x])
         \/ clients' = cls /\ fds' = Opened(x, 0)
  BY <1>1, <1>2, <1>3, NewClientFacts DEF Kept
<1>5. Kept(chan, chan')
  BY <1>3, <1>4, KeptTwice
<1>6. fds \in Seq(0 .. Len(chan)) /\ x \in DOMAIN fds
  BY ClientFacts DEF IInv, Types, ClientsSound
<1>7. x \in Nat \ {0}
  BY <1>6
<1>8. cls \in Seq(ClientType) /\ AllSound(cls, fds, vreqs)
  BY FreeClientSound DEF cls
<1> HIDE DEF x
<1>9. Opened(x, fds[x]) = fds /\ Opened(x, 0) = [fds EXCEPT ![x] = 0]
  BY <1>6 DEF Opened
<1>10. [fds EXCEPT ![x] = 0] \in Seq(0 .. Len(chan))
  <2>1. Len(chan) \in Nat
    BY DEF IInv, Types
  <2> QED BY <1>6, <2>1, ExceptSeq
<1>11. CASE clients' = Append(cls, Client(x)) /\ fds' = Opened(x, fds[x])
  <2>1. clients' \in Seq(ClientType) /\ AllSound(clients', fds', vreqs)
    BY <1>6, <1>7, <1>8, <1>9, <1>11, MoreClient
  <2> QED BY <1>1, <1>5, <1>6, <1>9, <1>11, <2>1, ServerStep
<1>12. CASE clients' = cls /\ fds' = Opened(x, 0)
  <2>1. AllSound(clients', fds', vreqs)
    BY <1>6, <1>8, <1>9, <1>12, ClosedFd
  <2> QED BY <1>1, <1>5, <1>8, <1>9, <1>10, <1>12, <2>1, ServerStep
<1> QED BY <1>4, <1>11, <1>12

\* A descriptor with something to read is open on a socket.
LEMMA ReadableSock ==
  ASSUME IInv, NEW f \in DOMAIN fds, Readable(f)
  PROVE  fds[f] \in DOMAIN chan
BY DEF IInv, Types, Readable

LEMMA RequestKeeps ==
  ASSUME IInv, NEW i \in DOMAIN clients, clients[i].ev = "on", Readable(clients[i].fd),
         ServeRequest(i), UNCHANGED <<style, drv, passed, outcome>>
  PROVE  IInv'
<1> DEFINE x == clients[i].fd
           s == fds[x]
           id == Head(chan[s].up).id
           v == [client |-> i, id |-> id, sock |-> s]
           P == {r \in vreqs : r.client = i}
<1>1. /\ clients \in Seq(ClientType) /\ AllSound(clients, fds, vreqs) /\ Sound(chan)
      /\ fds \in Seq(0 .. Len(chan)) /\ vreqs \in SUBSET VreqType /\ IsFiniteSet(vreqs)
      /\ clients[i] \in ClientType /\ x \in DOMAIN fds /\ ClientSound(clients[i], P)
      /\ i \in Nat /\ drv.pend \in Seq(Nat)
  <2>1. drv.pend \in Seq(Nat)
    BY DEF IInv, Types
  <2>2. clients \in Seq(ClientType) /\ i \in Nat
    BY DEF IInv, Types
  <2>3. AllSound(clients, fds, vreqs)
    BY DEF IInv, ClientsSound
  <2>4. clients[i] \in ClientType /\ x \in DOMAIN fds /\ ClientSound(clients[i], P)
    BY <2>2, <2>3, ClientFacts
  <2> QED BY <2>1, <2>2, <2>3, <2>4 DEF IInv, Types
<1>2. s \in DOMAIN chan /\ s \in Nat
  BY <1>1, ReadableSock
<1>3. /\ chan[s].up # << >> /\ Head(chan[s].up).type = "req" /\ Vreq(i) = v
      /\ chan' = [chan EXCEPT ![s].up = IF @ = << >> THEN @ ELSE Tail(@)]
  BY DEF ServeRequest, NextMsg, Consumed, Vreq
<1>4. Head(chan[s].up) \in [type : {"req"}, id : Nat] /\ ~NotSent(chan, id) /\ NotSent(chan', id)
  BY <1>1, <1>2, <1>3, ReadRequest
<1>5. Kept(chan, chan')
  BY <1>1, <1>3, ReadUpKept
<1>6. /\ clients' = [clients EXCEPT ![i] = AllocRequest(clients[i])] /\ vreqs' = vreqs \cup {v}
      /\ fds' = fds
  BY <1>3 DEF ServeRequest
<1>7. id \in Nat /\ v \in VreqType /\ v.client = i /\ v.id = id /\ v.sock = s
  BY <1>1, <1>2, <1>4 DEF VreqType
<1> HIDE DEF v, id, P, s
<1>8. /\ id <= Len(outcome) /\ \A r \in vreqs : r.id # id
      /\ \A j \in DOMAIN drv.pend : drv.pend[j] # id
  <2>1. Len(outcome) \in Nat
    BY DEF IInv, Types
  <2>2. ~(id > Len(outcome))
    BY <1>4, <1>7 DEF IInv, IdsOnce
  <2>3. id <= Len(outcome)
    BY <1>7, <2>1, <2>2
  <2> QED BY <1>4, <2>3 DEF IInv, IdsOnce
<1>9. IsFiniteSet(P) /\ v \notin P
  BY <1>1, <1>7, <1>8, FS_Subset DEF P
<1>10. /\ AllocRequest(clients[i]) \in ClientType /\ AllocRequest(clients[i]).fd = x
       /\ ClientSound(AllocRequest(clients[i]), P \cup {v})
  BY <1>1, <1>9, AllocSound
<1>11. {r \in vreqs' : r.client = i} = P \cup {v}
  BY <1>6, <1>7 DEF P
<1>12. AllSound(clients', fds', vreqs') /\ clients' \in Seq(ClientType)
  <2>1. \A r \in vreqs' : r \in vreqs \/ (r.client = i /\ fds[clients[i].fd] \in {0, r.sock})
    BY <1>6, <1>7 DEF s
  <2>2. \A r \in vreqs : r \in vreqs' \/ r.client = i
    BY <1>6
  <2> DEFINE c == AllocRequest(clients[i])
             W == vreqs'
  <2>3. c \in ClientType /\ c.fd = clients[i].fd /\ ClientSound(c, {r \in W : r.client = i})
    BY <1>10, <1>11
  <2>4. clients' = [clients EXCEPT ![i] = c] /\ fds' = fds
    BY <1>6
  <2> HIDE DEF c, W
  <2>5. AllSound([clients EXCEPT ![i] = c], fds, W) /\ [clients EXCEPT ![i] = c] \in Seq(ClientType)
    BY <1>1, <2>1, <2>2, <2>3, OneClient DEF W
  <2> QED BY <2>4, <2>5 DEF W
<1>13. Sound(chan') /\ Follows(chan, chan') /\ Len(chan') = Len(chan) /\ chan' \in Seq(SockType)
  BY <1>5 DEF Kept, Sound
<1>14. vreqs' \in SUBSET VreqType /\ IsFiniteSet(vreqs')
  BY <1>1, <1>6, <1>7, FS_AddElement
<1>15. Types'
  BY <1>6, <1>12, <1>13, <1>14 DEF IInv, Types
<1>16. IdsOnce'
  <2>1. \A r \in vreqs' : r.id <= Len(outcome) /\ NotSent(chan', r.id)
    BY <1>4, <1>6, <1>7, <1>8, <1>13 DEF IInv, IdsOnce, Follows
  <2>2. \A q, r \in vreqs' : q.id = r.id => q = r
    BY <1>6, <1>7, <1>8 DEF IInv, IdsOnce
  <2>3. \A j \in DOMAIN drv.pend : /\ drv.pend[j] <= Len(outcome) /\ NotSent(chan', drv.pend[j])
                                   /\ \A r \in vreqs' : r.id # drv.pend[j]
    BY <1>6, <1>7, <1>8, <1>13 DEF IInv, IdsOnce, Follows
  <2>4. \A n \in Nat : n > Len(outcome) => NotSent(chan', n)
    BY <1>13 DEF IInv, IdsOnce, Follows
  <2> QED BY <2>1, <2>2, <2>3, <2>4 DEF IInv, IdsOnce
<1> QED BY <1>12, <1>13, <1>15, <1>16 DEF IInv, ClientsSound

LEMMA ClientCbKeeps ==
  ASSUME IInv, NEW i \in DOMAIN clients, ClientCb(i)
  PROVE  IInv'
<1>1. /\ clients[i].ev = "on" /\ Readable(clients[i].fd)
      /\ UNCHANGED <<style, drv, passed, outcome>>
  BY DEF ClientCb
<1>2. CASE ServeRequest(i)
  BY <1>1, <1>2, RequestKeeps
<1>3. CASE ServeDisc(i)
  BY <1>1, <1>3, DiscKeeps
<1>4. CASE ServeFail(i)
  BY <1>1, <1>4, KillKeeps DEF ServeFail
<1> QED BY <1>2, <1>3, <1>4 DEF ClientCb

LEMMA ReplyType ==
  ASSUME NEW r \in VreqType, NEW ok \in BOOLEAN
  PROVE  Reply(r, ok) \in DownMsg /\ Reply(r, ok).src = r.sock
<1>1. r.id \in Nat /\ r.sock \in Nat
  BY DEF VreqType
<1> QED BY <1>1 DEF Reply, DownMsg

\* The answer goes out on the descriptor of the client the request belongs to.
LEMMA CompletesKeeps ==
  ASSUME IInv, NEW r \in vreqs, NEW ok \in BOOLEAN, VbdCompletes(r, ok)
  PROVE  IInv'
<1> DEFINE i == r.client
           P == {q \in vreqs : q.client = i}
           d == [FreeRequest(clients[i]) EXCEPT !.there = ~(clients[i].dead /\ P = {r})]
           W == vreqs \ {r}
           s == fds[clients[i].fd]
           msg == Reply(r, ok)
<1>1. /\ clients' = [clients EXCEPT ![i] = d] /\ vreqs' = W /\ fds' = fds
      /\ chan' = SendDown(chan, s, msg) /\ UNCHANGED <<style, drv, passed, outcome>>
  BY DEF VbdCompletes, Pending, ReplyFd
<1>2. /\ clients \in Seq(ClientType) /\ AllSound(clients, fds, vreqs) /\ Sound(chan)
      /\ fds \in Seq(0 .. Len(chan)) /\ vreqs \in SUBSET VreqType /\ IsFiniteSet(vreqs)
  BY DEF IInv, Types, ClientsSound
<1>3. i \in DOMAIN clients /\ s \in {0, r.sock}
  BY <1>2 DEF AllSound
<1>4. clients[i] \in ClientType /\ ClientSound(clients[i], P)
  BY <1>2, <1>3, ClientFacts
<1>5. IsFiniteSet(P) /\ r \in P
  <2>1. P \in SUBSET vreqs
    OBVIOUS
  <2> QED BY <1>2, <2>1, FS_Subset
<1>6. {q \in W : q.client = i} = P \ {r}
  OBVIOUS
<1>7. (\A q \in W : q \in vreqs) /\ (\A q \in vreqs : q \in W \/ q.client = i)
  OBVIOUS
<1>8. msg \in DownMsg /\ msg.src = r.sock
  BY <1>2, ReplyType
<1> HIDE DEF P, W, msg
<1>9. d \in ClientType /\ d.fd = clients[i].fd /\ ClientSound(d, P \ {r})
  BY <1>4, <1>5, ReleaseSound
<1>10. ClientSound(d, {q \in W : q.client = i})
  BY <1>6, <1>9
<1> HIDE DEF d
<1>11. AllSound([clients EXCEPT ![i] = d], fds, W) /\ [clients EXCEPT ![i] = d] \in Seq(ClientType)
  BY <1>2, <1>3, <1>7, <1>9, <1>10, OneClient
<1>12. Kept(chan, chan')
  <2>1. CASE s = 0
    <3>1. chan' = chan
      BY <1>1, <2>1 DEF SendDown
    <3> QED BY <1>2, <3>1, KeptSame
  <2>2. CASE s = r.sock
    BY <1>1, <1>2, <1>8, <2>2, SendDownKept
  <2> QED BY <1>3, <2>1, <2>2
<1>13. vreqs' \in SUBSET vreqs
  BY <1>1, <1>7
<1> QED BY <1>1, <1>2, <1>11, <1>12, <1>13, ServerStep

\* An operation on the clients as a whole.
LEMMA ClientsStep ==
  ASSUME IInv, UNCHANGED <<chan, style, fds, vreqs, drv, passed, outcome>>,
         clients' = [i \in DOMAIN clients |-> clients'[i]],
         \A i \in DOMAIN clients : /\ clients'[i] \in ClientType /\ clients'[i].fd = clients[i].fd
                                   /\ ClientSound(clients'[i], {r \in vreqs : r.client = i})
  PROVE  IInv'
<1>1. clients \in Seq(ClientType) /\ AllSound(clients, fds, vreqs) /\ fds \in Seq(0 .. Len(chan))
  BY DEF IInv, Types, ClientsSound
<1>2. clients' \in Seq(ClientType) /\ AllSound(clients', fds, vreqs)
  <2> DEFINE d == clients'
  <2>1. /\ d = [i \in DOMAIN clients |-> d[i]]
        /\ \A i \in DOMAIN clients : /\ d[i] \in ClientType /\ d[i].fd = clients[i].fd
                                     /\ ClientSound(d[i], {r \in vreqs : r.client = i})
    OBVIOUS
  <2> HIDE DEF d
  <2>2. d \in Seq(ClientType) /\ AllSound(d, fds, vreqs)
    BY <1>1, <2>1, EveryClient
  <2> QED BY <2>2 DEF d
<1>3. Kept(chan, chan')
  BY KeptSame DEF IInv
<1> QED BY <1>1, <1>2, <1>3, ServerStep

LEMMA PauseKeeps ==
  ASSUME ~PauseFull, IInv, Pause
  PROVE  IInv'
<1>1. clients \in Seq(ClientType) /\ AllSound(clients, fds, vreqs)
  BY DEF IInv, Types, ClientsSound
<1>2. /\ UNCHANGED <<chan, style, fds, vreqs, drv, passed, outcome>>
      /\ \A i \in DOMAIN clients : clients[i].ev # "masked"
      /\ clients' = [i \in DOMAIN clients |->
                      IF clients[i].ev = "none" THEN clients[i]
                      ELSE [clients[i] EXCEPT !.ev = "none", !.paused = TRUE]]
  BY DEF Pause
<1>3. ASSUME NEW i \in DOMAIN clients
      PROVE  /\ clients'[i] \in ClientType /\ clients'[i].fd = clients[i].fd
             /\ ClientSound(clients'[i], {r \in vreqs : r.client = i})
  <2> DEFINE P == {r \in vreqs : r.client = i}
             d == IF clients[i].ev = "none" THEN clients[i]
                  ELSE [clients[i] EXCEPT !.ev = "none", !.paused = TRUE]
  <2>1. clients[i] \in ClientType /\ ClientSound(clients[i], P) /\ clients[i].ev # "masked"
    BY <1>1, <1>2, ClientFacts
  <2> HIDE DEF P
  <2>2. d \in ClientType /\ d.fd = clients[i].fd /\ ClientSound(d, P)
    BY <2>1, PausedSound
  <2>3. clients'[i] = d
    BY <1>2
  <2> HIDE DEF d
  <2> QED BY <2>2, <2>3 DEF P
<1>4. clients' = [i \in DOMAIN clients |-> clients'[i]]
  BY <1>2
<1> QED BY <1>2, <1>3, <1>4, ClientsStep

LEMMA UnpauseKeeps ==
  ASSUME IInv, Unpause
  PROVE  IInv'
<1>1. clients \in Seq(ClientType) /\ AllSound(clients, fds, vreqs)
  BY DEF IInv, Types, ClientsSound
<1>2. /\ UNCHANGED <<chan, style, fds, vreqs, drv, passed, outcome>>
      /\ clients' = [i \in DOMAIN clients |->
                      IF clients[i].paused THEN [clients[i] EXCEPT !.ev = "on", !.paused = FALSE]
                      ELSE clients[i]]
  BY DEF Unpause
<1>3. ASSUME NEW i \in DOMAIN clients
      PROVE  /\ clients'[i] \in ClientType /\ clients'[i].fd = clients[i].fd
             /\ ClientSound(clients'[i], {r \in vreqs : r.client = i})
  <2> DEFINE P == {r \in vreqs : r.client = i}
             d == IF clients[i].paused THEN [clients[i] EXCEPT !.ev = "on", !.paused = FALSE]
                  ELSE clients[i]
  <2>1. clients[i] \in ClientType /\ ClientSound(clients[i], P)
    BY <1>1, <1>2, ClientFacts
  <2> HIDE DEF P
  <2>2. d \in ClientType /\ d.fd = clients[i].fd /\ ClientSound(d, P)
    BY <2>1, UnpausedSound
  <2>3. clients'[i] = d
    BY <1>2
  <2> HIDE DEF d
  <2> QED BY <2>2, <2>3 DEF P
<1>4. clients' = [i \in DOMAIN clients |-> clients'[i]]
  BY <1>2
<1> QED BY <1>2, <1>3, <1>4, ClientsStep

LEMMA FreeServerKeeps ==
  ASSUME IInv, FreeServer
  PROVE  IInv'
<1>1. clients \in Seq(ClientType) /\ AllSound(clients, fds, vreqs)
  BY DEF IInv, Types, ClientsSound
<1>2. /\ UNCHANGED <<chan, style, fds, vreqs, drv, passed, outcome>> /\ vreqs = {}
      /\ clients' = [i \in DOMAIN clients |->
                      [clients[i] EXCEPT !.ev = "none", !.paused = FALSE, !.there = FALSE]]
  BY DEF FreeServer
<1>3. ASSUME NEW i \in DOMAIN clients
      PROVE  /\ clients'[i] \in ClientType /\ clients'[i].fd = clients[i].fd
             /\ ClientSound(clients'[i], {r \in vreqs : r.client = i})
  <2> DEFINE d == [clients[i] EXCEPT !.ev = "none", !.paused = FALSE, !.there = FALSE]
  <2>1. {r \in vreqs : r.client = i} = {}
    BY <1>2
  <2>2. clients[i] \in ClientType /\ ClientSound(clients[i], {})
    BY <1>1, <2>1, ClientFacts
  <2>3. d \in ClientType /\ d.fd = clients[i].fd /\ ClientSound(d, {})
    BY <2>2, GoneSound
  <2>4. clients'[i] = d
    BY <1>2
  <2> HIDE DEF d
  <2> QED BY <2>1, <2>3, <2>4
<1>4. clients' = [i \in DOMAIN clients |-> clients'[i]]
  BY <1>2
<1> QED BY <1>2, <1>3, <1>4, ClientsStep

LEMMA ExitKeeps ==
  ASSUME IInv, Exit
  PROVE  IInv'
<1>1. /\ UNCHANGED <<style, drv, passed, outcome>> /\ fds' = << >> /\ clients' = << >> /\ vreqs' = {}
      /\ chan' = [s \in DOMAIN chan |-> [chan[s] EXCEPT !.up = << >>, !.send = FALSE]]
  BY DEF Exit
<1>2. Kept(chan, chan')
  BY <1>1, ExitKept DEF IInv
<1>3. AllSound(clients', fds', vreqs')
  <2>1. clients' = << >> /\ vreqs' = {}
    BY <1>1
  <2>2. DOMAIN clients' = {}
    BY <2>1, EmptySeq
  <2> QED BY <2>1, <2>2 DEF AllSound
<1>4. fds' \in Seq(0 .. Len(chan)) /\ clients' \in Seq(ClientType) /\ vreqs' \in SUBSET vreqs
  BY <1>1, EmptySeq
<1> QED BY <1>1, <1>2, <1>3, <1>4, ServerStep

LEMMA WiderSeq ==
  ASSUME NEW m \in Nat, NEW n \in Nat, m <= n, NEW q \in Seq(0 .. m)
  PROVE  q \in Seq(0 .. n)
OBVIOUS

\* A pair of sockets is passed: a new client on one end, the other is stashed.
LEMMA PassFdsKeeps ==
  ASSUME ~FdReuse, IInv, NEW name, PassFds(name)
  PROVE  IInv'
<1> DEFINE s == Len(chan) + 1
           c1 == Append(chan, Sock(TRUE))
           c2 == CloseEnd(c1, StashCloses(name, s))
<1>1. NewClient(clients, c2, s, NewFd, style) /\ UNCHANGED <<style, drv, vreqs, outcome>>
  BY DEF PassFds
<1>2. style \in {"old", "new"}
  BY DEF IInv, Types
<1>3. Sound(c1) /\ Follows(chan, c1) /\ Len(c1) = Len(chan) + 1
  BY NewSockKept DEF IInv
<1> HIDE DEF c1
<1>4. Kept(c1, c2)
  BY <1>3, EndsKept
<1> HIDE DEF c2
<1>5. /\ Kept(c2, chan')
      /\ \/ clients' = Append(clients, Client(Len(fds) + 1)) /\ fds' = Append(fds, s)
         \/ clients' = clients /\ fds' = Append(fds, 0)
  <2>1. /\ Kept(c2, chan')
        /\ \/ clients' = Append(clients, Client(NewFd)) /\ fds' = Opened(NewFd, s)
           \/ clients' = clients /\ fds' = Opened(NewFd, 0)
    BY <1>1, <1>2, <1>4, NewClientFacts DEF Kept
  <2> QED BY <2>1, NewDescriptor
<1>14. PICK v \in {0, s} :
        /\ fds' = Append(fds, v)
        /\ clients' = clients \/ clients' = Append(clients, Client(Len(fds) + 1))
  BY <1>5
<1>6. Sound(chan') /\ Follows(chan, chan') /\ Len(chan') = Len(chan) + 1 /\ chan' \in Seq(SockType)
  BY <1>3, <1>4, <1>5 DEF Kept, Follows, Sound
<1>7. /\ fds \in Seq(0 .. Len(chan)) /\ Len(chan) \in Nat /\ clients \in Seq(ClientType)
      /\ AllSound(clients, fds, vreqs)
  <2>1. Len(chan) \in Nat
    BY DEF IInv, Types
  <2> QED BY <2>1 DEF IInv, Types, ClientsSound
<1>8. fds \in Seq(0 .. Len(chan) + 1)
  BY <1>7, WiderSeq
<1>9. v \in 0 .. Len(chan) + 1
  BY <1>7
<1>10. /\ fds' \in Seq(0 .. Len(chan')) /\ AllSound(clients, fds', vreqs)
       /\ Len(fds) + 1 \in DOMAIN fds' /\ Len(fds) + 1 \in Nat \ {0}
  <2>1. AllSound(clients, fds', vreqs)
    BY <1>7, <1>8, <1>9, <1>14, MoreFds
  <2> QED BY <1>6, <1>8, <1>9, <1>14, <2>1, AppendSeq
<1>11. clients' \in Seq(ClientType) /\ AllSound(clients', fds', vreqs)
  BY <1>7, <1>10, <1>14, MoreClient
<1>12. Types'
  BY <1>1, <1>6, <1>10, <1>11 DEF IInv, Types
<1>13. IdsOnce'
  BY <1>1, <1>6, IdsKept DEF IInv
<1> QED BY <1>1, <1>6, <1>11, <1>12, <1>13 DEF IInv, ClientsSound

LEMMA OpenUnixKeeps ==
  ASSUME IInv, OpenUnix
  PROVE  IInv'
<1>1. /\ chan' = Append(chan, Sock(FALSE)) /\ UNCHANGED <<server, outcome>>
      /\ drv' = [NoDriver EXCEPT !.st = "hello", !.sock = Len(chan')]
  BY DEF OpenUnix
<1>2. "pend" \in DOMAIN drv' /\ drv'.pend = << >>
  BY <1>1 DEF NoDriver
<1>3. Sound(chan') /\ Follows(chan, chan') /\ Len(chan') = Len(chan) + 1 /\ chan' \in Seq(SockType)
  <2>1. Sound(chan') /\ Follows(chan, chan') /\ Len(chan') = Len(chan) + 1
    BY <1>1, NewSockKept DEF IInv
  <2> QED BY <2>1 DEF Sound
<1>4. fds \in Seq(0 .. Len(chan) + 1)
  <2>1. Len(chan) \in Nat
    BY DEF IInv, Types
  <2> QED BY <2>1, WiderSeq DEF IInv, Types
<1>5. Types'
  BY <1>1, <1>2, <1>3, <1>4, EmptySeq DEF IInv, Types, server
<1>6. IdsOnce'
  BY <1>1, <1>2, <1>3, IdsKept DEF IInv, server
<1> QED BY <1>1, <1>3, <1>5, <1>6 DEF IInv, ClientsSound, server

LEMMA OpenPassedKeeps ==
  ASSUME IInv, NEW name, OpenPassed(name)
  PROVE  IInv'
<1>1. /\ UNCHANGED <<chan, server, outcome>>
      /\ \E s : drv' = [NoDriver EXCEPT !.st = "hello", !.sock = s, !.named = TRUE]
  BY DEF OpenPassed
<1>2. "pend" \in DOMAIN drv' /\ drv'.pend = << >>
  BY <1>1 DEF NoDriver
<1>3. Kept(chan, chan')
  BY <1>1, KeptSame DEF IInv
<1> QED BY <1>1, <1>2, <1>3, ServerSame

LEMMA ReceivedKept ==
  ASSUME IInv, Down # << >>
  PROVE  Kept(chan, Received)
BY ReadDownKept DEF IInv, Down, Received

LEMMA OptsType ==
  /\ [type |-> "opts"] \in UpMsg /\ [type |-> "opts"].type # "req"
  /\ [type |-> "disc"] \in UpMsg /\ [type |-> "disc"].type # "req"
BY DEF UpMsg

LEMMA OtherUpKept ==
  ASSUME NEW ch, Sound(ch), NEW s, NEW msg \in UpMsg, msg.type # "req"
  PROVE  Kept(ch, SendUp(ch, s, msg))
BY SendUpKept DEF Kept, Follows

LEMMA NegotiateKeeps ==
  ASSUME IInv, Negotiate
  PROVE  IInv'
<1> DEFINE msg == [type |-> "opts"]
<1>1. Kept(chan, Received)
  BY ReceivedKept DEF Negotiate
<1>2. Kept(chan, SendUp(Received, drv.sock, msg))
  <2>1. msg \in UpMsg /\ msg.type # "req"
    BY OptsType
  <2> HIDE DEF msg
  <2>2. Kept(Received, SendUp(Received, drv.sock, msg))
    BY <1>1, <2>1, OtherUpKept DEF Kept
  <2> QED BY <1>1, <2>2, KeptTwice
<1>3. chan' \in {Received, SendUp(Received, drv.sock, msg)}
  BY DEF Negotiate
<1>4. Kept(chan, chan')
  BY <1>1, <1>2, <1>3
<1>5. "pend" \in DOMAIN drv' /\ drv'.pend = drv.pend
  <2>1. \E x : drv' = [drv EXCEPT !.st = x]
    BY DEF Negotiate
  <2> QED BY <2>1 DEF IInv, Types
<1>6. UNCHANGED <<server, outcome>>
  BY DEF Negotiate
<1> QED BY <1>4, <1>5, <1>6, ServerSame

LEMMA NegotiationFailsKeeps ==
  ASSUME IInv, NegotiationFails
  PROVE  IInv'
<1>1. chan' = CloseEnd(chan, drv.sock) /\ drv' = NoDriver /\ UNCHANGED <<server, outcome>>
  BY DEF NegotiationFails
<1>2. Kept(chan, chan')
  BY <1>1, EndsKept DEF IInv
<1> QED BY <1>1, <1>2, NoDriverFacts, ServerSame

\* A request gets the next number: none is on its way with it.
LEMMA QueueKeeps ==
  ASSUME IInv, QueueRequest
  PROVE  IInv'
<1> DEFINE e == IF drv.free = 0 THEN "lost" ELSE IF drv.dead THEN "err" ELSE "queued"
           n == Len(outcome) + 1
<1>1. /\ outcome' = Append(outcome, e) /\ UNCHANGED <<chan, server>>
      /\ \/ drv' = drv
         \/ drv' = [drv EXCEPT !.free = @ - 1, !.pend = Append(@, Len(outcome'))]
  BY DEF QueueRequest
<1>2. e \in Outcomes
  BY DEF Outcomes
<1> HIDE DEF e
<1>3. outcome' \in Seq(Outcomes) /\ Len(outcome') = n /\ Len(outcome) \in Nat /\ n \in Nat
  <2>1. outcome \in Seq(Outcomes)
    BY DEF IInv, Types
  <2> QED BY <1>1, <1>2, <2>1, AppendSeq
<1>4. \/ "pend" \in DOMAIN drv' /\ drv'.pend = drv.pend
      \/ "pend" \in DOMAIN drv' /\ drv'.pend = Append(drv.pend, n)
  BY <1>1, <1>3 DEF IInv, Types
<1>5. drv.pend \in Seq(Nat)
  BY DEF IInv, Types
<1>6. /\ \A id \in Nat : id > n => NotSent(chan, id)
      /\ \A r \in vreqs : r.id < n /\ NotSent(chan, r.id)
      /\ NotSent(chan, n) /\ \A j \in DOMAIN drv.pend : drv.pend[j] < n
  <2>1. \A r \in vreqs : r.id \in Nat
    BY DEF IInv, Types, VreqType
  <2>2. \A j \in DOMAIN drv.pend : drv.pend[j] \in Nat
    BY <1>5
  <2> QED BY <1>3, <2>1, <2>2 DEF IInv, IdsOnce
<1>7. IdsOnce' /\ drv'.pend \in Seq(Nat) /\ "pend" \in DOMAIN drv'
  <2>1. vreqs' = vreqs /\ chan' = chan
    BY <1>1 DEF server
  <2>2. \A q, r \in vreqs : q.id = r.id => q = r
    BY DEF IInv, IdsOnce
  <2>3. CASE drv'.pend = drv.pend
    <3>1. \A j \in DOMAIN drv.pend : drv.pend[j] <= n
      BY <1>3, <1>5, <1>6
    <3>2. \A r \in vreqs : r.id <= n
      BY <1>3, <1>6 DEF IInv, Types, VreqType
    <3> QED BY <1>3, <1>4, <1>5, <1>6, <2>1, <2>2, <2>3, <3>1, <3>2 DEF IInv, IdsOnce
  <2>4. CASE drv'.pend = Append(drv.pend, n)
    <3> DEFINE q == drv'.pend
               m == Len(drv.pend)
    <3>1. /\ q \in Seq(Nat) /\ DOMAIN q = 1 .. m + 1 /\ DOMAIN drv.pend = 1 .. m /\ m \in Nat
          /\ q[m + 1] = n /\ \A k \in 1 .. m : q[k] = drv.pend[k]
      BY <1>3, <1>5, <2>4, AppendSeq
    <3> HIDE DEF q, m
    <3>2. \A j \in DOMAIN q : \/ j \in DOMAIN drv.pend /\ q[j] = drv.pend[j]
                              \/ j = m + 1 /\ q[j] = n
      <4>1. \A j \in DOMAIN q : j \in 1 .. m \/ j = m + 1
        BY <3>1
      <4> QED BY <3>1, <4>1
    <3>3. \A j \in DOMAIN drv.pend : drv.pend[j] # n /\ drv.pend[j] <= n
      BY <1>3, <1>5, <1>6
    <3>4. \A r \in vreqs : r.id # n /\ r.id <= n
      <4>1. \A r \in vreqs : r.id \in Nat
        BY DEF IInv, Types, VreqType
      <4> QED BY <1>3, <1>6, <4>1
    <3>5. \A j \in DOMAIN q : /\ q[j] <= n /\ NotSent(chan, q[j])
                              /\ \A r \in vreqs : r.id # q[j]
      BY <1>3, <1>6, <3>2, <3>3, <3>4 DEF IInv, IdsOnce
    <3>6. \A j, k \in DOMAIN q : q[j] = q[k] => j = k
      BY <3>2, <3>3 DEF IInv, IdsOnce
    <3> QED BY <1>3, <1>4, <1>6, <2>1, <2>2, <3>1, <3>4, <3>5, <3>6 DEF IdsOnce, q
  <2> QED BY <1>4, <2>3, <2>4
<1>8. Types'
  BY <1>1, <1>3, <1>7 DEF IInv, Types, server
<1> QED BY <1>1, <1>7, <1>8 DEF IInv, ClientsSound, server

\* The first request at the driver is sent.
LEMMA WriterKeeps ==
  ASSUME IInv, WriterCb
  PROVE  IInv'
<1> DEFINE q == drv.pend
           id == Head(q)
           msg == [type |-> "req", id |-> id]
<1>1. /\ chan' = SendUp(chan, drv.sock, msg) /\ UNCHANGED <<server, outcome>> /\ q # << >>
      /\ drv' = [drv EXCEPT !.pend = Tail(@), !.sent = @ \union {Head(drv.pend)}]
  BY DEF WriterCb
<1>2. "pend" \in DOMAIN drv' /\ drv'.pend = Tail(q) /\ q \in Seq(Nat)
  BY <1>1 DEF IInv, Types
<1>3. /\ Tail(q) \in Seq(Nat) /\ Len(q) \in Nat \ {0} /\ DOMAIN q = 1 .. Len(q)
      /\ DOMAIN Tail(q) = 1 .. Len(q) - 1 /\ id = q[1] /\ id \in Nat
      /\ \A k \in 1 .. Len(q) - 1 : Tail(q)[k] = q[k + 1]
  BY <1>1, <1>2, TailSeq
<1>4. /\ 1 \in DOMAIN q
      /\ \A k \in DOMAIN Tail(q) : k + 1 \in DOMAIN q /\ k + 1 # 1 /\ Tail(q)[k] = q[k + 1] /\ k \in Nat
  BY <1>3
<1>5. id <= Len(outcome) /\ NotSent(chan, id) /\ \A r \in vreqs : r.id # id
  BY <1>3, <1>4 DEF IInv, IdsOnce
<1>6. msg \in UpMsg /\ msg.type = "req" /\ msg.id = id
  BY <1>3 DEF UpMsg
<1> HIDE DEF msg
<1>7. /\ Sound(chan') /\ Len(chan') = Len(chan)
      /\ \A j : NotSent(chan, j) /\ j # id => NotSent(chan', j)
  <2>1. Sound(chan)
    BY DEF IInv
  <2> QED BY <1>1, <1>5, <1>6, <2>1, SendUpKept
<1>8. vreqs' = vreqs /\ outcome' = outcome /\ Len(outcome) \in Nat
  BY <1>1 DEF server, IInv, Types
<1>9. IdsOnce'
  <2>1. \A j \in Nat : j > Len(outcome) => NotSent(chan', j)
    BY <1>3, <1>5, <1>7, <1>8 DEF IInv, IdsOnce
  <2>2. \A r \in vreqs : r.id <= Len(outcome) /\ NotSent(chan', r.id)
    BY <1>5, <1>7 DEF IInv, IdsOnce
  <2>3. \A k \in DOMAIN Tail(q) : q[k + 1] # id
    BY <1>3, <1>4 DEF IInv, IdsOnce
  <2>4. \A k \in DOMAIN Tail(q) : /\ Tail(q)[k] <= Len(outcome) /\ NotSent(chan', Tail(q)[k])
                                  /\ \A r \in vreqs : r.id # Tail(q)[k]
    BY <1>4, <1>7, <2>3 DEF IInv, IdsOnce
  <2>5. \A j, k \in DOMAIN Tail(q) : Tail(q)[j] = Tail(q)[k] => j = k
    <3>1. SUFFICES ASSUME NEW j \in DOMAIN Tail(q), NEW k \in DOMAIN Tail(q), Tail(q)[j] = Tail(q)[k]
                   PROVE  j = k
      OBVIOUS
    <3>2. j + 1 = k + 1
      BY <1>4, <3>1 DEF IInv, IdsOnce
    <3> QED BY <1>4, <3>1, <3>2
  <2>6. \A p, r \in vreqs : p.id = r.id => p = r
    BY DEF IInv, IdsOnce
  <2> HIDE DEF q
  <2> QED BY <1>2, <1>8, <2>1, <2>2, <2>4, <2>5, <2>6 DEF IdsOnce
<1>10. chan' \in Seq(SockType)
  BY <1>7 DEF Sound
<1>11. Types'
  BY <1>1, <1>2, <1>3, <1>7, <1>10 DEF IInv, Types, server
<1> QED BY <1>1, <1>7, <1>9, <1>11 DEF IInv, ClientsSound, server

LEMMA DisableFacts ==
  ASSUME IInv, Disable
  PROVE  /\ outcome' \in Seq(Outcomes) /\ Len(outcome') = Len(outcome)
         /\ "pend" \in DOMAIN drv' /\ drv'.pend = drv.pend
<1>1. outcome \in Seq(Outcomes) /\ DOMAIN outcome = 1 .. Len(outcome) /\ Len(outcome) \in Nat
  BY DEF IInv, Types
<1>2. outcome' \in [1 .. Len(outcome) -> Outcomes]
  <2>1. \A id \in 1 .. Len(outcome) : outcome[id] \in Outcomes
    BY <1>1
  <2>2. "err" \in Outcomes
    BY DEF Outcomes
  <2> QED BY <1>1, <2>1, <2>2 DEF Disable
<1>3. outcome' \in Seq(Outcomes) /\ Len(outcome') = Len(outcome)
  BY <1>1, <1>2
<1>4. "pend" \in DOMAIN drv' /\ drv'.pend = drv.pend
  BY DEF Disable, IInv, Types
<1> QED BY <1>3, <1>4

LEMMA ReaderKeeps ==
  ASSUME IInv, ReaderCb
  PROVE  IInv'
<1>1. Kept(chan, chan') /\ UNCHANGED server
  BY ReceivedKept DEF ReaderCb
<1>2. CASE Disable
  BY <1>1, <1>2, DisableFacts, DriverStep
<1>3. CASE ~Disable
  <2>1. PICK n : /\ drv' = [drv EXCEPT !.sent = @ \ {n}, !.free = @ + 1]
                 /\ outcome' = [outcome EXCEPT ![n] = "ok"]
    BY <1>3 DEF ReaderCb
  <2>2. outcome' \in Seq(Outcomes) /\ Len(outcome') = Len(outcome)
    <3>1. outcome \in Seq(Outcomes) /\ "ok" \in Outcomes
      BY DEF IInv, Types, Outcomes
    <3> DEFINE e == "ok"
    <3>2. e \in Outcomes /\ outcome' = [outcome EXCEPT ![n] = e]
      BY <2>1, <3>1
    <3> HIDE DEF e
    <3>3. CASE n \in DOMAIN outcome
      BY <3>1, <3>2, <3>3, ExceptSeq
    <3>4. CASE n \notin DOMAIN outcome
      <4>1. outcome' = outcome
        BY <3>1, <3>2, <3>4
      <4> QED BY <3>1, <4>1
    <3> QED BY <3>3, <3>4
  <2>3. "pend" \in DOMAIN drv' /\ drv'.pend = drv.pend
    BY <2>1 DEF IInv, Types
  <2> QED BY <1>1, <2>2, <2>3, DriverStep
<1> QED BY <1>2, <1>3

LEMMA EofKeeps ==
  ASSUME IInv, ReaderEof
  PROVE  IInv'
<1>1. Kept(chan, chan') /\ UNCHANGED server /\ Disable
  BY KeptSame DEF ReaderEof, IInv
<1> QED BY <1>1, DisableFacts, DriverStep

LEMMA CloseDriverKeeps ==
  ASSUME IInv, CloseDriver
  PROVE  IInv'
<1> DEFINE msg == [type |-> "disc"]
           ch == SendUp(chan, drv.sock, msg)
<1>1. UNCHANGED <<server, outcome>> /\ chan' \in {chan, ch}
  BY DEF CloseDriver
<1>2. "pend" \in DOMAIN drv' /\ drv'.pend = drv.pend
  BY DEF CloseDriver, IInv, Types
<1>3. Sound(chan)
  BY DEF IInv
<1>4. Kept(chan, ch)
  <2>1. msg \in UpMsg /\ msg.type # "req"
    BY OptsType
  <2> HIDE DEF msg
  <2> QED BY <1>3, <2>1, OtherUpKept
<1> HIDE DEF ch
<1>5. Kept(chan, chan')
  BY <1>1, <1>3, <1>4, KeptSame
<1> QED BY <1>1, <1>2, <1>5, ServerSame

LEMMA CloseSocketKeeps ==
  ASSUME IInv, CloseSocket
  PROVE  IInv'
<1>1. drv' = NoDriver /\ UNCHANGED <<server, outcome>>
  BY DEF CloseSocket
<1>2. \E s : chan' = CloseEnd(chan, s)
  BY DEF CloseSocket
<1>3. Kept(chan, chan')
  BY <1>2, EndsKept DEF IInv
<1> QED BY <1>1, <1>3, NoDriverFacts, ServerSame

-----------------------------------------------------------------------------

LEMMA NextIInv ==
  ASSUME ~FdReuse, ~PauseFull, IInv, [Next]_vars
  PROVE  IInv'
<1>1. CASE Next
  <2>1. CASE \E s \in DOMAIN chan : AcceptUnix(s)
    BY <2>1, AcceptKeeps
  <2>2. CASE \E i \in DOMAIN clients : ClientCb(i) \/ HandshakeCb(i)
    BY <2>2, ClientCbKeeps, HandshakeKeeps
  <2>3. CASE \E r \in vreqs, ok \in BOOLEAN : VbdCompletes(r, ok)
    BY <2>3, CompletesKeeps
  <2>4. CASE Pause \/ Unpause \/ FreeServer \/ Exit
    BY <2>4, PauseKeeps, UnpauseKeeps, FreeServerKeeps, ExitKeeps
  <2>5. CASE PassFds("a") \/ OpenUnix \/ OpenPassed("a") \/ Negotiate \/ NegotiationFails
    BY <2>5, PassFdsKeeps, OpenUnixKeeps, OpenPassedKeeps, NegotiateKeeps, NegotiationFailsKeeps
  <2>6. CASE QueueRequest \/ WriterCb \/ ReaderCb \/ ReaderEof \/ CloseDriver
                \/ CloseSocket
    BY <2>6, QueueKeeps, WriterKeeps, ReaderKeeps, EofKeeps, CloseDriverKeeps, CloseSocketKeeps
  <2> QED BY <1>1, <2>1, <2>2, <2>3, <2>4, <2>5, <2>6 DEF Next
<1>2. CASE UNCHANGED vars
  <2>1. UNCHANGED <<server, outcome, chan, drv>>
    BY <1>2 DEF vars
  <2>2. Kept(chan, chan')
    BY <2>1, KeptSame DEF IInv
  <2>3. "pend" \in DOMAIN drv' /\ drv'.pend = drv.pend
    BY <2>1 DEF IInv, Types
  <2> QED BY <2>1, <2>2, <2>3, ServerSame
<1> QED BY <1>1, <1>2

\* The server of tapdisk-nbdserver.c, as long as the kernel hands out no descriptor
\* twice and the server is not paused while a client is masked, answers every
\* request on the connection it came from, reads no request it has no room for,
\* and loses count of none; for every number of clients, sockets and requests,
\* with clients freed, connections closed and the process gone at any time.
THEOREM NbdServerSafe ==
  ASSUME ~FdReuse, ~PauseFull
  PROVE  Spec => []NbdSafe
<1>1. Init => IInv
  BY InitIInv
<1>2. IInv /\ [Next]_vars => IInv'
  BY NextIInv
<1>3. IInv => NbdSafe
  <2>1. SUFFICES ASSUME IInv PROVE RepliesToOwner /\ RoomToRead
    BY DEF NbdSafe
  <2>2. RepliesToOwner
    BY <2>1 DEF IInv, Sound, AnswersOwn, RepliesToOwner
  <2>3. RoomToRead
    BY <2>1 DEF IInv, ClientsSound, AllSound, ClientSound, RoomToRead, Pending
  <2> QED BY <2>2, <2>3
<1> QED BY <1>1, <1>2, <1>3, PTL DEF Spec
=============================================================================
