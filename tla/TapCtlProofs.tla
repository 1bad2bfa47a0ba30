---------------------------- MODULE TapCtlProofs ----------------------------
(* The control connections of a tapdisk: no entry of the table is leaked or   *)
(* handed out twice, no command is left on the pending list with nobody to    *)
(* wake it, and a client gets the answer to its own message, for every number *)
(* of clients, connections and commands.                                      *)
EXTENDS TapCtl, FiniteSetTheorems, TLAPS

-----------------------------------------------------------------------------
(* The inductive invariant *)

Entries == 1 .. MaxConn

Command   == [op : Ops, minor : Minors]
ClientRec == [todo : Seq(Command), op : Ops \cup {"none"},
              pc : Calls \cup {"none", "allocate", "free"}, minor : Minors \cup {"none"},
              sock : Nat, res : {"none", "ok", "error"}]
Answer    == [for : Nat, ok : BOOLEAN]
SockRec   == [client : Clients, type : Calls, minor : Minors, msg : {"unsent", "sent", "read"},
              hup : BOOLEAN, eof : BOOLEAN, answers : Seq(Answer)]
ConnRec   == [sock : Nat, in : BOOLEAN, running : BOOLEAN, out : Seq(Answer), done : BOOLEAN]
VbdRec    == [st : {"none", "attached", "open"}, pause : {"no", "req", "yes"}, ring : BOOLEAN,
              io : BOOLEAN, dev : BOOLEAN, gen : Nat]
Stages    == {"pause", "rings", "device", "requests", "done"}
FrameRec  == [conn : Entries, sock : Nat, type : Waits, minor : Minors, gen : Nat,
              stage : Stages]

TypeOK ==
  /\ cl \in [Clients -> ClientRec] /\ sock \in Seq(SockRec) /\ backlog \in Seq(Nat)
  /\ conn \in [Entries -> ConnRec] /\ free \in Seq(Entries) /\ busy \in BOOLEAN
  /\ pending \in Seq(Entries) /\ woken \subseteq Entries /\ frames \in Seq(FrameRec)
  /\ walked \in BOOLEAN /\ vbd \in [Minors -> VbdRec] /\ proc \in {"run", "stopping", "gone"}

Distinct(s) == \A i, j \in DOMAIN s : s[i] = s[j] => i = j
Elems(s)    == {s[i] : i \in DOMAIN s}

\* The calls that a command may make.
CallsOf(op) == CASE op = "create"  -> {"allocate", "attach", "open", "detach", "free"}
                 [] op = "destroy" -> {"close", "detach", "free"}
                 [] op = "unpause" -> {"resume"}
                 [] OTHER          -> {op}

ClientsOK ==
  \A c \in Clients :
     /\ cl[c].pc # "none" => /\ cl[c].op \in Ops /\ cl[c].minor \in Minors
                             /\ cl[c].pc \in CallsOf(cl[c].op)
     /\ cl[c].sock # 0 => cl[c].sock \in DOMAIN sock /\ sock[cl[c].sock].type = cl[c].pc

\* A connection that is waiting or accepted is its own, and has not been answered.
Unanswered(s, k) == k \in DOMAIN s /\ ~s[k].eof /\ s[k].answers = << >>

SocksOK ==
  /\ \A i \in Entries : conn[i].sock # 0 => Unanswered(sock, conn[i].sock)
  /\ \A i, j \in Entries : conn[i].sock # 0 /\ conn[i].sock = conn[j].sock => i = j
  /\ \A k \in Elems(backlog) : Unanswered(sock, k) /\ \A i \in Entries : conn[i].sock # k
  /\ Distinct(backlog)

FreeOK == Distinct(free) /\ Elems(free) = {i \in Entries : conn[i].sock = 0}

\* An entry is read from, or its command waits, or a handler runs on it, or its answer is
\* being sent.
Queued(i) == i \in Elems(pending) \cup woken

ConnsOK ==
  \A i \in Entries :
     /\ conn[i].in => conn[i].sock # 0 /\ conn[i].out = << >> /\ ~Queued(i)
     /\ conn[i].out # << >> => conn[i].sock # 0 /\ ~Queued(i)
     /\ conn[i].running => conn[i].out = << >> /\ ~Queued(i)
     /\ conn[i].running <=> \E j \in DOMAIN frames : frames[j].conn = i
     /\ Queued(i) => /\ conn[i].sock # 0 /\ Excl(sock[conn[i].sock].type)
                     /\ sock[conn[i].sock].msg = "read"

PendingOK ==
  /\ Distinct(pending) /\ Elems(pending) \cap woken = {}
  /\ busy => frames # << >>
  /\ pending # << >> => frames # << >> \/ woken # {}

\* The calls whose handlers have a wait that does not look at conn->fd.
Deaf == IF Ioctl = Minors THEN {"close"} ELSE {"close", "force"}

\* The other handlers wait where it is looked at.
Heeding(f) == /\ f.type = "pause" => f.stage = "pause"
              /\ f.type = "force" /\ f.minor \in Ioctl => f.stage = "device"

FramesOK ==
  /\ \A i, j \in DOMAIN frames : frames[i].conn = frames[j].conn => i = j
  /\ \A j \in DOMAIN frames :
        /\ frames[j].sock \in DOMAIN sock /\ sock[frames[j].sock].type = frames[j].type
        /\ sock[frames[j].sock].msg = "read"
        /\ Heeding(frames[j])

IInv == TypeOK /\ ClientsOK /\ SocksOK /\ FreeOK /\ ConnsOK /\ PendingOK /\ FramesOK

-----------------------------------------------------------------------------
(* The answers.  B are the calls of which no client gives up. *)

NotGivenUp(B) ==
  \A c \in GivesUp :
     /\ \A i \in DOMAIN cl[c].todo : CallsOf(cl[c].todo[i].op) \cap B = {}
     /\ cl[c].pc # "none" => CallsOf(cl[c].op) \cap B = {}

HupOK(B) ==
  \A k \in DOMAIN sock :
     sock[k].hup /\ sock[k].type \in B => sock[k].eof \/ sock[k].answers # << >>

\* The handler of frame j has the connection it was called for; or that is gone, and
\* the handler will see it before the entry is used again.
Kept(j) == conn[frames[j].conn].sock = frames[j].sock
Left(j) == /\ conn[frames[j].conn].sock = 0 /\ frames[j].type \notin Deaf
           /\ walked /\ Len(frames) = 1

Served(B) == \A j \in DOMAIN frames : Kept(j) \/ (Left(j) /\ frames[j].type \notin B)

OutRight == \A i \in Entries : \A j \in DOMAIN conn[i].out : conn[i].out[j].for = conn[i].sock

RInv(B) == NotGivenUp(B) /\ HupOK(B) /\ Served(B) /\ OutRight /\ RightAnswer

-----------------------------------------------------------------------------
(* Lists *)

\* list_add_tail.
LEMMA AppendFacts ==
  ASSUME NEW S, NEW s \in Seq(S), NEW x \in S
  PROVE  /\ Append(s, x) \in Seq(S) /\ Elems(Append(s, x)) = Elems(s) \cup {x}
         /\ Distinct(s) /\ x \notin Elems(s) => Distinct(Append(s, x))
<1> DEFINE g == Append(s, x)
<1>1. /\ g \in Seq(S) /\ Len(g) = Len(s) + 1 /\ Len(s) \in Nat
      /\ \A i \in 1 .. Len(s) : g[i] = s[i]
      /\ g[Len(s) + 1] = x
      /\ DOMAIN g = 1 .. Len(s) + 1 /\ DOMAIN s = 1 .. Len(s)
  OBVIOUS
<1> HIDE DEF g
<1>2. Elems(g) = Elems(s) \cup {x}
  BY <1>1 DEF Elems
<1>3. Distinct(s) /\ x \notin Elems(s) => Distinct(g)
  BY <1>1 DEF Elems, Distinct
<1> QED BY <1>1, <1>2, <1>3 DEF g

\* An entry goes back to the head of the free list.
LEMMA PushFacts ==
  ASSUME NEW S, NEW s \in Seq(S), NEW x \in S
  PROVE  /\ << x >> \o s \in Seq(S) /\ Elems(<< x >> \o s) = Elems(s) \cup {x}
         /\ Distinct(s) /\ x \notin Elems(s) => Distinct(<< x >> \o s)
<1> DEFINE g == << x >> \o s
           m == Len(s)
<1>1. /\ g \in Seq(S) /\ Len(g) = m + 1 /\ m \in Nat
      /\ g[1] = x
      /\ \A i \in 1 .. m : g[i + 1] = s[i]
      /\ DOMAIN g = 1 .. m + 1 /\ DOMAIN s = 1 .. m
  OBVIOUS
<1> HIDE DEF g, m
<1>2. \A i \in 1 .. m + 1 : i = 1 \/ (i - 1 \in 1 .. m /\ (i - 1) + 1 = i)
  BY <1>1
<1>3. 1 \in 1 .. m + 1 /\ \A i \in 1 .. m : i + 1 \in 1 .. m + 1
  BY <1>1
<1>4. \A i \in 1 .. m + 1 : i = 1 \/ g[i] = s[i - 1]
  BY <1>1, <1>2
<1>5. Elems(g) = Elems(s) \cup {x}
  <2>1. Elems(g) \subseteq Elems(s) \cup {x}
    <3> SUFFICES ASSUME NEW i \in 1 .. m + 1 PROVE g[i] \in Elems(s) \cup {x}
      BY <1>1 DEF Elems
    <3>1. CASE i = 1
      BY <1>1, <3>1
    <3>2. CASE i # 1
      <4> DEFINE j == i - 1
      <4>1. j \in 1 .. m /\ g[i] = s[j]
        BY <1>2, <1>4, <3>2
      <4> HIDE DEF j
      <4> QED BY <1>1, <4>1 DEF Elems
    <3> QED BY <3>1, <3>2
  <2>2. Elems(s) \subseteq Elems(g)
    BY <1>1, <1>3 DEF Elems
  <2>3. x \in Elems(g)
    BY <1>1, <1>3 DEF Elems
  <2> QED BY <2>1, <2>2, <2>3
<1>6. ASSUME Distinct(s), x \notin Elems(s)
      PROVE  Distinct(g)
  <2> SUFFICES ASSUME NEW i \in 1 .. m + 1, NEW j \in 1 .. m + 1, g[i] = g[j]
               PROVE  i = j
    BY <1>1 DEF Distinct
  <2>1. \A n \in 1 .. m + 1 : n # 1 => g[n] # x
    <3> SUFFICES ASSUME NEW n \in 1 .. m + 1, n # 1 PROVE g[n] # x
      OBVIOUS
    <3> DEFINE l == n - 1
    <3>1. l \in 1 .. m /\ g[n] = s[l]
      BY <1>2, <1>4
    <3> HIDE DEF l
    <3> QED BY <1>1, <1>6, <3>1 DEF Elems
  <2>2. CASE i # 1 /\ j # 1
    <3>1. s[i - 1] = s[j - 1] /\ i - 1 \in 1 .. m /\ j - 1 \in 1 .. m
      BY <1>2, <1>4, <2>2
    <3>2. i - 1 = j - 1
      BY <1>1, <1>6, <3>1 DEF Distinct
    <3> QED BY <3>2
  <2> QED BY <1>1, <2>1, <2>2
<1> QED BY <1>1, <1>5, <1>6 DEF g

\* The rest of a list.
LEMMA TailFacts ==
  ASSUME NEW S, NEW s \in Seq(S), s # << >>
  PROVE  /\ Head(s) \in S /\ Tail(s) \in Seq(S) /\ Elems(s) = Elems(Tail(s)) \cup {Head(s)}
         /\ Distinct(s) => Distinct(Tail(s)) /\ Head(s) \notin Elems(Tail(s))
<1> DEFINE g == Tail(s)
           m == Len(s)
<1>1. /\ m \in Nat /\ m >= 1 /\ g \in Seq(S) /\ Len(g) = m - 1 /\ Head(s) = s[1]
      /\ \A i \in 1 .. m - 1 : g[i] = s[i + 1]
      /\ \A i \in 1 .. m : s[i] \in S
      /\ DOMAIN g = 1 .. m - 1 /\ DOMAIN s = 1 .. m
  OBVIOUS
<1>2. Elems(s) = {s[i] : i \in 1 .. m}
  BY <1>1 DEF Elems
<1>3. Distinct(s) <=> \A i, j \in 1 .. m : s[i] = s[j] => i = j
  BY <1>1 DEF Distinct
<1> HIDE DEF g, m
<1>4. Elems(g) = {s[i + 1] : i \in 1 .. m - 1}
  BY <1>1 DEF Elems
<1>5. 1 \in 1 .. m /\ \A i \in 1 .. m - 1 : i + 1 \in 1 .. m /\ i + 1 # 1
  BY <1>1
<1>6. Distinct(s) => Distinct(g)
  <2> SUFFICES ASSUME Distinct(s), NEW i \in 1 .. m - 1, NEW j \in 1 .. m - 1, g[i] = g[j]
               PROVE  i = j
    BY <1>1 DEF Distinct
  <2>1. i + 1 = j + 1
    BY <1>1, <1>3, <1>5
  <2> QED BY <2>1
<1>7. Elems(s) = Elems(g) \cup {Head(s)}
  <2>1. \A i \in 1 .. m : i = 1 \/ (i - 1 \in 1 .. m - 1 /\ (i - 1) + 1 = i)
    BY <1>1
  <2>2. Elems(s) \subseteq Elems(g) \cup {Head(s)}
    <3> SUFFICES ASSUME NEW i \in 1 .. m, i # 1 PROVE s[i] \in Elems(g)
      BY <1>1, <1>2
    <3> DEFINE j == i - 1
    <3>1. j \in 1 .. m - 1 /\ s[j + 1] = s[i]
      BY <2>1
    <3> HIDE DEF j
    <3> QED BY <1>4, <3>1
  <2>3. Elems(g) \cup {Head(s)} \subseteq Elems(s)
    BY <1>1, <1>2, <1>4, <1>5
  <2> QED BY <2>2, <2>3
<1> QED BY <1>1, <1>2, <1>3, <1>4, <1>5, <1>6, <1>7 DEF g

\* The list without its last element.
LEMMA FrontFacts ==
  ASSUME NEW S, NEW s \in Seq(S), s # << >>
  PROVE  /\ Last(s) \in S /\ Last(s) = s[Len(s)] /\ Len(s) \in DOMAIN s /\ DOMAIN s = 1 .. Len(s)
         /\ Front(s) \in Seq(S) /\ DOMAIN Front(s) = 1 .. Len(s) - 1
         /\ DOMAIN Front(s) = DOMAIN s \ {Len(s)} /\ Len(Front(s)) = Len(s) - 1
         /\ \A i \in DOMAIN Front(s) : Front(s)[i] = s[i]
<1>1. Len(s) \in Nat /\ Len(s) >= 1 /\ DOMAIN s = 1 .. Len(s) /\ s[Len(s)] \in S
  OBVIOUS
<1>2. Front(s) = [i \in 1 .. Len(s) - 1 |-> s[i]]
  BY <1>1 DEF Front
<1>3. \A i \in 1 .. Len(s) - 1 : s[i] \in S
  BY <1>1
<1>4. Len(s) - 1 \in Nat
  BY <1>1
<1>5. Front(s) \in Seq(S) /\ Len(Front(s)) = Len(s) - 1
  BY <1>2, <1>3, <1>4
<1>6. DOMAIN Front(s) = DOMAIN s \ {Len(s)}
  BY <1>1, <1>2
<1> QED BY <1>1, <1>2, <1>5, <1>6 DEF Last

-----------------------------------------------------------------------------
(* The clients *)

\* The connections are still there; what was read stays read.
Grown ==
  /\ sock' \in Seq(SockRec) /\ DOMAIN sock \subseteq DOMAIN sock'
  /\ \A k \in DOMAIN sock :
        /\ sock'[k].type = sock[k].type /\ sock'[k].eof = sock[k].eof
        /\ sock'[k].answers = sock[k].answers
        /\ sock[k].msg = "read" => sock'[k].msg = "read"

ServerSame == UNCHANGED <<conn, free, busy, pending, woken, frames>>

\* What a client does with its connection is nothing to the table of entries.
LEMMA GrowPreserves ==
  ASSUME IInv, Grown, ServerSame
  PROVE  /\ FreeOK' /\ ConnsOK' /\ PendingOK' /\ FramesOK'
         /\ backlog' = backlog => SocksOK'
<1>1. FreeOK'
  BY DEF IInv, ServerSame, FreeOK, Distinct, Elems
<1>2. \A i \in Entries : conn[i].sock # 0 => conn[i].sock \in DOMAIN sock
  BY DEF IInv, SocksOK, Unanswered
<1>3. \A i \in Entries : Queued(i)' <=> Queued(i)
  BY DEF ServerSame, Queued, Elems
<1>4. ConnsOK'
  BY <1>2, <1>3 DEF IInv, ConnsOK, Grown, ServerSame
<1>5. PendingOK'
  BY DEF IInv, PendingOK, ServerSame, Distinct, Elems
<1>6. FramesOK'
  BY DEF IInv, FramesOK, Grown, ServerSame
<1>7. \A k \in DOMAIN sock : Unanswered(sock, k) => Unanswered(sock', k)
  BY DEF Unanswered, Grown
<1>8. backlog' = backlog => SocksOK'
  <2> SUFFICES ASSUME backlog' = backlog PROVE SocksOK'
    OBVIOUS
  <2>1. Elems(backlog') = Elems(backlog) /\ (Distinct(backlog') <=> Distinct(backlog))
    OBVIOUS
  <2>2. \A k : Unanswered(sock, k) => k \in DOMAIN sock
    BY DEF Unanswered
  <2> QED BY <1>7, <2>1, <2>2 DEF IInv, SocksOK, ServerSame
<1> QED BY <1>1, <1>4, <1>5, <1>6, <1>8

LEMMA SameGrown ==
  ASSUME TypeOK, sock' = sock
  PROVE  Grown
BY DEF TypeOK, Grown

\* The next call of a command is one of its calls.
LEMMA NextCallIs ==
  ASSUME NEW op \in Ops, NEW pc \in CallsOf(op), NEW ok \in BOOLEAN
  PROVE  NextCall(op, pc, ok) \in CallsOf(op) \cup {"none"}
<1>1. CASE op = "create"
  <2>1. NextCall(op, pc, ok) = CreateNext(pc, ok)
    BY <1>1 DEF NextCall
  <2>2. CallsOf(op) = {"allocate", "attach", "open", "detach", "free"}
    BY <1>1 DEF CallsOf
  <2> QED BY <2>1, <2>2 DEF CreateNext
<1>2. CASE op = "destroy"
  <2>1. NextCall(op, pc, ok) = DestroyNext(pc, ok)
    BY <1>2 DEF NextCall
  <2>2. CallsOf(op) = {"close", "detach", "free"}
    BY <1>2 DEF CallsOf
  <2> QED BY <2>1, <2>2 DEF DestroyNext
<1>3. CASE op # "create" /\ op # "destroy"
  BY <1>3 DEF NextCall
<1> QED BY <1>1, <1>2, <1>3

\* A command only makes calls of the protocol or of the kernel.
LEMMA CallsTyped ==
  ASSUME NEW op \in Ops
  PROVE  CallsOf(op) \subseteq Calls \cup {"allocate", "free"} /\ FirstCall(op) \in CallsOf(op)
BY DEF Ops, CallsOf, Calls, FirstCall

LEMMA ReturnedIs ==
  ASSUME TypeOK, ClientsOK, NEW c \in Clients, cl[c].pc # "none", NEW ok \in BOOLEAN,
         cl' = Returned(c, ok)
  PROVE  /\ cl' \in [Clients -> ClientRec]
         /\ \A d \in Clients : d # c => cl'[d] = cl[d]
         /\ cl'[c].op = cl[c].op /\ cl'[c].minor = cl[c].minor /\ cl'[c].todo = cl[c].todo
         /\ cl'[c].sock = 0
         /\ cl'[c].pc # "none" => cl'[c].pc \in CallsOf(cl[c].op)
<1> DEFINE n == NextCall(cl[c].op, cl[c].pc, ok)
           r == IF ok /\ cl[c].res # "error" THEN "ok" ELSE "error"
<1>1. cl[c].op \in Ops /\ cl[c].pc \in CallsOf(cl[c].op) /\ cl[c].minor \in Minors
  BY DEF ClientsOK
<1>2. n \in CallsOf(cl[c].op) \cup {"none"}
  BY <1>1, NextCallIs
<1>3. n \in Calls \cup {"none", "allocate", "free"}
  BY <1>1, <1>2, CallsTyped
<1>4. cl' = [cl EXCEPT ![c].pc = n, ![c].sock = 0, ![c].res = r]
  BY DEF Returned
<1>5. r \in {"ok", "error"}
  OBVIOUS
<1>6. cl \in [Clients -> ClientRec]
  BY DEF TypeOK
<1> HIDE DEF n, r
<1>7. cl'[c] = [cl[c] EXCEPT !.pc = n, !.sock = 0, !.res = r]
  BY <1>4, <1>6
<1>8. cl[c] \in ClientRec
  BY <1>6
<1>9. cl'[c] \in ClientRec
  <2> SUFFICES ASSUME NEW x \in ClientRec PROVE [x EXCEPT !.pc = n, !.sock = 0, !.res = r] \in ClientRec
    BY <1>7, <1>8
  <2> QED BY <1>3, <1>5 DEF ClientRec
<1>10. cl' \in [Clients -> ClientRec] /\ \A d \in Clients : d # c => cl'[d] = cl[d]
  BY <1>4, <1>6, <1>9
<1> QED BY <1>2, <1>7, <1>8, <1>10 DEF ClientRec

\* A client that has returned holds no connection.
LEMMA ReturnedOK ==
  ASSUME TypeOK, ClientsOK, NEW c \in Clients, cl[c].pc # "none", NEW ok \in BOOLEAN,
         cl' = Returned(c, ok), Grown
  PROVE  cl' \in [Clients -> ClientRec] /\ ClientsOK'
<1>1. /\ cl' \in [Clients -> ClientRec]
      /\ \A d \in Clients : d # c => cl'[d] = cl[d]
      /\ cl'[c].op = cl[c].op /\ cl'[c].minor = cl[c].minor /\ cl'[c].sock = 0
      /\ cl'[c].pc # "none" => cl'[c].pc \in CallsOf(cl[c].op)
  BY ReturnedIs
<1> QED BY <1>1 DEF ClientsOK, Grown

\* A step of a client that leaves the server alone.
LEMMA ClientStepOK ==
  ASSUME IInv, cl' \in [Clients -> ClientRec], ClientsOK', Grown, UNCHANGED <<server, vbd, proc>>
  PROVE  IInv'
<1>1. ServerSame /\ backlog' = backlog /\ walked' = walked
  BY DEF server, ServerSame
<1>2. FreeOK' /\ ConnsOK' /\ PendingOK' /\ FramesOK' /\ SocksOK'
  BY <1>1, GrowPreserves
<1>3. TypeOK'
  BY <1>1 DEF IInv, TypeOK, ServerSame, Grown
<1> QED BY <1>2, <1>3 DEF IInv

\* A client that makes no remote call has no connection.
LEMMA NoCallNoSock ==
  ASSUME IInv, NEW c \in Clients, cl[c].pc \notin Calls
  PROVE  cl[c].sock = 0
<1>1. cl[c].sock # 0 => cl[c].sock \in DOMAIN sock /\ sock[cl[c].sock].type = cl[c].pc
  BY DEF IInv, ClientsOK
<1>2. \A k \in DOMAIN sock : sock[k] \in SockRec
  BY DEF IInv, TypeOK
<1>3. \A k \in DOMAIN sock : sock[k].type \in Calls
  BY <1>2 DEF SockRec
<1> QED BY <1>1, <1>3

LEMMA StartCommandIs ==
  ASSUME IInv, NEW c \in Clients, StartCommand(c)
  PROVE  /\ cl' \in [Clients -> ClientRec]
         /\ \A d \in Clients : d # c => cl'[d] = cl[d]
         /\ cl[c].todo # << >> /\ cl'[c].todo = Tail(cl[c].todo)
         /\ cl'[c].op = Head(cl[c].todo).op /\ cl'[c].op \in Ops /\ cl'[c].minor \in Minors
         /\ cl'[c].pc \in CallsOf(cl'[c].op) /\ cl'[c].sock = 0
<1> DEFINE cmd == Head(cl[c].todo)
           rec == [cl[c] EXCEPT !.todo = Tail(@), !.op = cmd.op, !.pc = FirstCall(cmd.op),
                                !.minor = cmd.minor, !.res = "ok"]
<1>1. cl' = [cl EXCEPT ![c] = rec] /\ cl[c].todo # << >> /\ cl[c].pc = "none"
  BY DEF StartCommand
<1>2. cl \in [Clients -> ClientRec]
  BY DEF IInv, TypeOK
<1>3. cl[c] \in ClientRec
  BY <1>2
<1>4. cl[c].todo \in Seq(Command)
  BY <1>3 DEF ClientRec
<1>5. cmd \in Command /\ Tail(cl[c].todo) \in Seq(Command)
  BY <1>1, <1>4
<1>6. cmd.op \in Ops /\ cmd.minor \in Minors
  BY <1>5 DEF Command
<1>7. FirstCall(cmd.op) \in CallsOf(cmd.op) /\ FirstCall(cmd.op) \in Calls \cup {"allocate", "free"}
  BY <1>6, CallsTyped
<1>8. cl[c].sock = 0
  BY <1>1, NoCallNoSock DEF Calls
<1> HIDE DEF cmd
<1>9. rec \in ClientRec /\ rec.todo = Tail(cl[c].todo) /\ rec.op = cmd.op /\ rec.sock = 0
      /\ rec.minor = cmd.minor /\ rec.pc = FirstCall(cmd.op)
  <2> SUFFICES ASSUME NEW x \in ClientRec, x.sock = 0, NEW q \in Seq(Command)
               PROVE  LET z == [x EXCEPT !.todo = q, !.op = cmd.op, !.pc = FirstCall(cmd.op),
                                         !.minor = cmd.minor, !.res = "ok"]
                      IN /\ z \in ClientRec /\ z.todo = q /\ z.op = cmd.op /\ z.sock = 0
                         /\ z.minor = cmd.minor /\ z.pc = FirstCall(cmd.op)
    BY <1>3, <1>5, <1>8
  <2> QED BY <1>6, <1>7 DEF ClientRec
<1> HIDE DEF rec
<1>10. cl'[c] = rec /\ \A d \in Clients : d # c => cl'[d] = cl[d]
  BY <1>1, <1>2
<1>11. cl' \in [Clients -> ClientRec]
  BY <1>1, <1>2, <1>9
<1> QED BY <1>1, <1>6, <1>7, <1>9, <1>10, <1>11 DEF cmd

LEMMA StartCommandStep ==
  ASSUME IInv, NEW c \in Clients, StartCommand(c)
  PROVE  IInv'
<1>1. /\ cl' \in [Clients -> ClientRec]
      /\ \A d \in Clients : d # c => cl'[d] = cl[d]
      /\ cl'[c].op \in Ops /\ cl'[c].minor \in Minors
      /\ cl'[c].pc \in CallsOf(cl'[c].op) /\ cl'[c].sock = 0
  BY StartCommandIs
<1>2. sock' = sock /\ UNCHANGED <<server, vbd, proc>>
  BY DEF StartCommand
<1>3. ClientsOK'
  BY <1>1, <1>2 DEF IInv, ClientsOK
<1>4. Grown
  BY <1>2, SameGrown DEF IInv
<1> QED BY <1>1, <1>2, <1>3, <1>4, ClientStepOK

LEMMA ReturnStep ==
  ASSUME IInv, NEW c \in Clients, cl[c].pc # "none", NEW ok \in BOOLEAN, cl' = Returned(c, ok),
         Grown, UNCHANGED <<server, vbd, proc>>
  PROVE  IInv'
<1>1. cl' \in [Clients -> ClientRec] /\ ClientsOK'
  BY ReturnedOK DEF IInv
<1> QED BY <1>1, ClientStepOK

LEMMA AllocateStep ==
  ASSUME IInv, NEW c \in Clients, Allocate(c)
  PROVE  IInv'
<1>1. /\ cl[c].pc # "none" /\ cl' = Returned(c, cl[c].minor \notin alloced)
      /\ sock' = sock /\ UNCHANGED <<server, vbd, proc>>
  BY DEF Allocate
<1>2. Grown
  BY <1>1, SameGrown DEF IInv
<1>3. (cl[c].minor \notin alloced) \in BOOLEAN
  OBVIOUS
<1> QED BY <1>1, <1>2, <1>3, ReturnStep

LEMMA FreeStep ==
  ASSUME IInv, NEW c \in Clients, Free(c)
  PROVE  IInv'
<1>1. /\ cl[c].pc # "none" /\ cl' = Returned(c, vbd[cl[c].minor].st = "none")
      /\ sock' = sock /\ UNCHANGED <<server, vbd, proc>>
  BY DEF Free
<1>2. Grown
  BY <1>1, SameGrown DEF IInv
<1>3. (vbd[cl[c].minor].st = "none") \in BOOLEAN
  OBVIOUS
<1> QED BY <1>1, <1>2, <1>3, ReturnStep

\* The other end of connection k writes, or goes.
LEMMA TouchGrown ==
  ASSUME IInv, NEW k \in DOMAIN sock,
         \/ sock' = [sock EXCEPT ![k].hup = TRUE]
         \/ sock' = [sock EXCEPT ![k].msg = "sent"] /\ sock[k].msg = "unsent"
         \/ sock' = [sock EXCEPT ![k].msg = "read"]
  PROVE  /\ Grown /\ DOMAIN sock' = DOMAIN sock
         /\ \A l \in DOMAIN sock : l # k => sock'[l] = sock[l]
         /\ \/ sock'[k] = [sock[k] EXCEPT !.hup = TRUE]
            \/ sock'[k] = [sock[k] EXCEPT !.msg = "sent"]
            \/ sock'[k] = [sock[k] EXCEPT !.msg = "read"]
<1>1. sock \in Seq(SockRec) /\ DOMAIN sock = 1 .. Len(sock)
  BY DEF IInv, TypeOK
<1>2. sock[k] \in SockRec
  BY <1>1
<1>3. PICK r : /\ sock' = [sock EXCEPT ![k] = r]
               /\ \/ r = [sock[k] EXCEPT !.hup = TRUE]
                  \/ r = [sock[k] EXCEPT !.msg = "sent"] /\ sock[k].msg = "unsent"
                  \/ r = [sock[k] EXCEPT !.msg = "read"]
  OBVIOUS
<1>4. /\ r \in SockRec /\ r.type = sock[k].type /\ r.eof = sock[k].eof
      /\ r.answers = sock[k].answers /\ (sock[k].msg = "read" => r.msg = "read")
  BY <1>2, <1>3, ZenonT(40) DEF SockRec
<1>5. /\ sock' \in Seq(SockRec) /\ DOMAIN sock' = DOMAIN sock
      /\ sock'[k] = r /\ \A l \in DOMAIN sock : l # k => sock'[l] = sock[l]
  BY <1>1, <1>3, <1>4
<1> QED BY <1>3, <1>4, <1>5 DEF Grown

LEMMA SendStep ==
  ASSUME IInv, NEW c \in Clients, Send(c)
  PROVE  IInv'
<1>1. cl[c].sock # 0 /\ sock[cl[c].sock].msg = "unsent" /\ cl' = cl
      /\ sock' = [sock EXCEPT ![cl[c].sock].msg = "sent"] /\ UNCHANGED <<server, vbd, proc>>
  BY DEF Send
<1>2. cl[c].sock \in DOMAIN sock
  BY <1>1 DEF IInv, ClientsOK
<1>3. Grown
  BY <1>1, <1>2, TouchGrown
<1>4. ClientsOK' /\ cl' \in [Clients -> ClientRec]
  BY <1>1, <1>3 DEF IInv, TypeOK, ClientsOK, Grown
<1> QED BY <1>1, <1>3, <1>4, ClientStepOK

LEMMA ReceiveStep ==
  ASSUME IInv, NEW c \in Clients, Receive(c)
  PROVE  IInv'
<1> DEFINE s  == sock[cl[c].sock]
           ok == s.answers # << >> /\ Head(s.answers).ok
<1>1. cl[c].sock # 0 /\ cl' = Returned(c, ok)
      /\ sock' = [sock EXCEPT ![cl[c].sock].hup = TRUE] /\ UNCHANGED <<server, vbd, proc>>
  BY DEF Receive
<1>2. cl[c].sock \in DOMAIN sock
  BY <1>1 DEF IInv, ClientsOK
<1>3. Grown
  BY <1>1, <1>2, TouchGrown
<1>4. ok \in BOOLEAN
  OBVIOUS
<1>5. cl[c].pc # "none"
  BY <1>1, NoCallNoSock DEF Calls
<1> HIDE DEF ok
<1> QED BY <1>1, <1>3, <1>4, <1>5, ReturnStep

LEMMA GiveUpStep ==
  ASSUME IInv, NEW c \in Clients, GiveUp(c)
  PROVE  IInv'
<1>1. /\ cl[c].sock # 0 /\ cl' = [cl EXCEPT ![c].pc = "none", ![c].sock = 0, ![c].res = "error"]
      /\ sock' = [sock EXCEPT ![cl[c].sock].hup = TRUE] /\ UNCHANGED <<server, vbd, proc>>
  BY DEF GiveUp
<1>2. cl[c].sock \in DOMAIN sock
  BY <1>1 DEF IInv, ClientsOK
<1>3. Grown
  BY <1>1, <1>2, TouchGrown
<1>4. cl \in [Clients -> ClientRec] /\ cl[c] \in ClientRec
  BY DEF IInv, TypeOK
<1>5. /\ cl'[c] = [cl[c] EXCEPT !.pc = "none", !.sock = 0, !.res = "error"]
      /\ \A d \in Clients : d # c => cl'[d] = cl[d]
  BY <1>1, <1>4
<1>6. cl'[c] \in ClientRec /\ cl'[c].pc = "none" /\ cl'[c].sock = 0
  <2> SUFFICES ASSUME NEW x \in ClientRec
               PROVE  LET z == [x EXCEPT !.pc = "none", !.sock = 0, !.res = "error"]
                      IN z \in ClientRec /\ z.pc = "none" /\ z.sock = 0
    BY <1>4, <1>5
  <2> QED BY DEF ClientRec
<1>7. cl' \in [Clients -> ClientRec]
  BY <1>1, <1>4, <1>6
<1>8. ClientsOK'
  <2>1. ClientsOK
    BY DEF IInv
  <2>2. cl'[c].pc = "none" /\ cl'[c].sock = 0
    BY <1>6
  <2>3. \A d \in Clients : d # c => cl'[d] = cl[d]
    BY <1>5
  <2> QED BY <1>3, <2>1, <2>2, <2>3 DEF ClientsOK, Grown
<1> QED BY <1>1, <1>3, <1>7, <1>8, ClientStepOK

LEMMA ConnectStep ==
  ASSUME IInv, NEW c \in Clients, Connect(c)
  PROVE  IInv'
<1>1. CASE proc = "gone" /\ cl' = Returned(c, FALSE) /\ UNCHANGED <<sock, backlog>>
  <2>1. cl[c].pc # "none" /\ UNCHANGED <<server, vbd, proc>>
    BY <1>1 DEF Connect, Calls, server
  <2>2. Grown
    BY <1>1, SameGrown DEF IInv
  <2> QED BY <1>1, <2>1, <2>2, ReturnStep
<1>2. CASE ~(proc = "gone" /\ cl' = Returned(c, FALSE) /\ UNCHANGED <<sock, backlog>>)
  <2> DEFINE rec == [client |-> c, type |-> cl[c].pc, minor |-> cl[c].minor, msg |-> "unsent",
                     hup |-> FALSE, eof |-> FALSE, answers |-> << >>]
             n   == Len(sock) + 1
  <2>1. /\ cl[c].pc \in Calls /\ sock' = Append(sock, rec) /\ backlog' = Append(backlog, Len(sock'))
        /\ cl' = [cl EXCEPT ![c].sock = Len(sock')]
        /\ ServerSame /\ walked' = walked /\ vbd' = vbd /\ proc' = proc
    BY <1>2 DEF Connect, ServerSame
  <2>2. /\ cl \in [Clients -> ClientRec] /\ cl[c] \in ClientRec /\ sock \in Seq(SockRec)
        /\ backlog \in Seq(Nat)
    BY DEF IInv, TypeOK
  <2>3. cl[c].minor \in Minors
    BY <2>1 DEF IInv, ClientsOK, Calls
  <2>4. rec \in SockRec
    BY <2>1, <2>3 DEF SockRec
  <2>5. rec.type = cl[c].pc /\ ~rec.eof /\ rec.answers = << >>
    OBVIOUS
  <2> HIDE DEF rec
  <2>6. /\ sock' \in Seq(SockRec) /\ Len(sock') = n /\ n \in Nat /\ n # 0
        /\ DOMAIN sock' = DOMAIN sock \cup {n} /\ n \notin DOMAIN sock
        /\ sock'[n] = rec /\ \A k \in DOMAIN sock : sock'[k] = sock[k]
    BY <2>1, <2>2, <2>4
  <2> HIDE DEF n
  <2>7. Grown
    BY <2>6 DEF Grown
  <2>8. FreeOK' /\ ConnsOK' /\ PendingOK' /\ FramesOK'
    BY <2>1, <2>7, GrowPreserves
  <2>9. /\ cl' \in [Clients -> ClientRec] /\ \A d \in Clients : d # c => cl'[d] = cl[d]
        /\ cl'[c].sock = n /\ cl'[c].pc = cl[c].pc /\ cl'[c].op = cl[c].op
        /\ cl'[c].minor = cl[c].minor
    <3> SUFFICES ASSUME NEW x \in ClientRec
                 PROVE  LET z == [x EXCEPT !.sock = n]
                        IN /\ z \in ClientRec /\ z.sock = n /\ z.pc = x.pc /\ z.op = x.op
                           /\ z.minor = x.minor
      BY <2>1, <2>2, <2>6
    <3> QED BY <2>6 DEF ClientRec
  <2>10. ClientsOK'
    <3>1. ClientsOK
      BY DEF IInv
    <3> QED BY <2>5, <2>6, <2>9, <3>1 DEF ClientsOK
  <2>11. backlog' \in Seq(Nat) /\ Elems(backlog') = Elems(backlog) \cup {n}
         /\ (Distinct(backlog) /\ n \notin Elems(backlog) => Distinct(backlog'))
    BY <2>1, <2>2, <2>6, AppendFacts
  <2>12. SocksOK'
    <3>1. SocksOK /\ \A k : Unanswered(sock, k) => k \in DOMAIN sock
      BY DEF IInv, Unanswered
    <3>2. \A k \in DOMAIN sock : Unanswered(sock, k) => Unanswered(sock', k)
      BY <2>6 DEF Unanswered
    <3>3. Unanswered(sock', n)
      BY <2>5, <2>6 DEF Unanswered
    <3>4. conn' = conn
      BY <2>1 DEF ServerSame
    <3>5. \A i \in Entries : conn[i].sock # n
      BY <2>6, <3>1 DEF SocksOK
    <3>6. n \notin Elems(backlog)
      BY <2>6, <3>1 DEF SocksOK
    <3> QED BY <2>11, <3>1, <3>2, <3>3, <3>4, <3>5, <3>6 DEF SocksOK
  <2>13. TypeOK'
    BY <2>1, <2>6, <2>9, <2>11 DEF IInv, TypeOK, ServerSame
  <2> QED BY <2>8, <2>10, <2>12, <2>13 DEF IInv
<1> QED BY <1>1, <1>2

-----------------------------------------------------------------------------
(* The connections *)

\* An unused entry, one that is accepted and one that is closed.
LEMMA EntryIs ==
  /\ NoConn \in ConnRec /\ NoConn.out = << >> /\ NoConn.sock = 0 /\ NoConn.in = FALSE
  /\ NoConn.running = FALSE
  /\ \A k \in Nat, b \in BOOLEAN :
        LET r == [NoConn EXCEPT !.sock = k, !.in = TRUE, !.running = b]
        IN r \in ConnRec /\ r.sock = k /\ r.in = TRUE /\ r.out = << >> /\ r.running = b
  /\ \A b \in BOOLEAN :
        LET r == [NoConn EXCEPT !.running = b]
        IN r \in ConnRec /\ r.sock = 0 /\ r.in = FALSE /\ r.out = << >> /\ r.running = b
<1>1. /\ NoConn \in ConnRec /\ NoConn.out = << >> /\ NoConn.sock = 0 /\ NoConn.in = FALSE
      /\ NoConn.running = FALSE
  BY DEF NoConn, ConnRec
<1>2. ASSUME NEW k \in Nat, NEW b \in BOOLEAN
      PROVE  LET r == [NoConn EXCEPT !.sock = k, !.in = TRUE, !.running = b]
             IN r \in ConnRec /\ r.sock = k /\ r.in = TRUE /\ r.out = << >> /\ r.running = b
  BY <1>1 DEF ConnRec
<1>3. ASSUME NEW b \in BOOLEAN
      PROVE  LET r == [NoConn EXCEPT !.running = b]
             IN r \in ConnRec /\ r.sock = 0 /\ r.in = FALSE /\ r.out = << >> /\ r.running = b
  BY <1>1 DEF ConnRec
<1> QED BY <1>1, <1>2, <1>3

LEMMA AcceptStep ==
  ASSUME IInv, Accept
  PROVE  IInv'
<1> DEFINE i == Head(free)
           k == Head(backlog)
           r == [NoConn EXCEPT !.sock = k, !.in = TRUE, !.running = conn[i].running]
<1>1. /\ backlog # << >> /\ free # << >> /\ conn' = [conn EXCEPT ![i] = r]
      /\ free' = Tail(free) /\ backlog' = Tail(backlog)
      /\ UNCHANGED <<cl, sock, busy, pending, woken, frames, walked, vbd, proc>>
  BY DEF Accept, client
<1>2. /\ TypeOK /\ conn \in [Entries -> ConnRec] /\ free \in Seq(Entries) /\ backlog \in Seq(Nat)
      /\ SocksOK /\ FreeOK /\ ConnsOK
  BY DEF IInv, TypeOK
<1>3. /\ i \in Entries /\ free' \in Seq(Entries) /\ Elems(free) = Elems(free') \cup {i}
      /\ Distinct(free') /\ i \notin Elems(free')
  BY <1>1, <1>2, TailFacts DEF FreeOK
<1>4. /\ k \in Nat /\ backlog' \in Seq(Nat) /\ Elems(backlog) = Elems(backlog') \cup {k}
      /\ Distinct(backlog') /\ k \notin Elems(backlog')
  BY <1>1, <1>2, TailFacts DEF SocksOK
<1> HIDE DEF i, k
<1>5. conn[i].running \in BOOLEAN /\ conn[i].sock = 0
  BY <1>2, <1>3 DEF FreeOK, ConnRec
<1>6. /\ r \in ConnRec /\ r.sock = k /\ r.in = TRUE /\ r.out = << >>
      /\ r.running = conn[i].running
  BY <1>4, <1>5, EntryIs
<1> HIDE DEF r
<1>7. /\ conn' \in [Entries -> ConnRec] /\ conn'[i] = r
      /\ \A j \in Entries : j # i => conn'[j] = conn[j]
  BY <1>1, <1>2, <1>3, <1>6
<1>8. Unanswered(sock, k) /\ (\A j \in Entries : conn[j].sock # k) /\ k # 0
  <2>1. Unanswered(sock, k) /\ \A j \in Entries : conn[j].sock # k
    BY <1>2, <1>4 DEF SocksOK
  <2> QED BY <1>2, <2>1 DEF Unanswered, TypeOK
<1>9. \A l : Unanswered(sock', l) <=> Unanswered(sock, l)
  BY <1>1 DEF Unanswered
<1>10. SocksOK'
  <2>1. \A j \in Entries : conn'[j].sock # 0 => Unanswered(sock', conn'[j].sock)
    BY <1>2, <1>6, <1>7, <1>8, <1>9 DEF SocksOK
  <2>2. \A j, m \in Entries : conn'[j].sock # 0 /\ conn'[j].sock = conn'[m].sock => j = m
    BY <1>2, <1>6, <1>7, <1>8 DEF SocksOK
  <2>3. \A l \in Elems(backlog') : Unanswered(sock', l) /\ \A j \in Entries : conn'[j].sock # l
    BY <1>2, <1>4, <1>6, <1>7, <1>9 DEF SocksOK
  <2> QED BY <1>4, <2>1, <2>2, <2>3 DEF SocksOK
<1>11. FreeOK'
  BY <1>2, <1>3, <1>6, <1>7, <1>8 DEF FreeOK
<1>12. \A j \in Entries : Queued(j)' <=> Queued(j)
  BY <1>1 DEF Queued, Elems
<1>13. ~Queued(i)
  BY <1>2, <1>3, <1>5 DEF ConnsOK
<1>14. ConnsOK'
  <2>1. sock' = sock /\ frames' = frames
    BY <1>1
  <2> QED BY <1>2, <1>3, <1>6, <1>7, <1>8, <1>12, <1>13, <2>1 DEF ConnsOK
<1>15. PendingOK'
  BY <1>1 DEF IInv, PendingOK, Elems, Distinct
<1>16. FramesOK' /\ ClientsOK'
  BY <1>1 DEF IInv, FramesOK, ClientsOK
<1>17. TypeOK'
  BY <1>1, <1>2, <1>3, <1>4, <1>7 DEF TypeOK
<1> QED BY <1>10, <1>11, <1>14, <1>15, <1>16, <1>17 DEF IInv

\* An entry that no command waits on is closed, and its connection ends.
LEMMA CloseStep ==
  ASSUME IInv, NEW i \in Entries, conn[i].sock # 0, ~Queued(i),
         conn' = Closed(i), free' = << i >> \o free,
         sock' \in Seq(SockRec), DOMAIN sock' = DOMAIN sock,
         \A k \in DOMAIN sock : k # conn[i].sock => sock'[k] = sock[k],
         sock'[conn[i].sock].type = sock[conn[i].sock].type,
         sock[conn[i].sock].msg = "read" => sock'[conn[i].sock].msg = "read",
         UNCHANGED <<cl, backlog, busy, pending, woken, frames, vbd, proc>>, walked' \in BOOLEAN
  PROVE  IInv'
<1> DEFINE r == [NoConn EXCEPT !.running = conn[i].running]
           l == conn[i].sock
<1>1. /\ TypeOK /\ conn \in [Entries -> ConnRec] /\ free \in Seq(Entries) /\ conn[i] \in ConnRec
      /\ SocksOK /\ FreeOK /\ ConnsOK /\ ClientsOK /\ PendingOK /\ FramesOK
  BY DEF IInv, TypeOK
<1>2. conn[i].running \in BOOLEAN
  BY <1>1 DEF ConnRec
<1>3. r \in ConnRec /\ r.sock = 0 /\ r.in = FALSE /\ r.out = << >> /\ r.running = conn[i].running
  BY <1>2, EntryIs
<1>4. conn' = [conn EXCEPT ![i] = r]
  BY DEF Closed
<1> HIDE DEF r
<1>5. /\ conn' \in [Entries -> ConnRec] /\ conn'[i] = r
      /\ \A j \in Entries : j # i => conn'[j] = conn[j]
  BY <1>1, <1>3, <1>4
<1>6. i \notin Elems(free)
  BY <1>1 DEF FreeOK
<1>7. free' \in Seq(Entries) /\ Elems(free') = Elems(free) \cup {i} /\ Distinct(free')
  BY <1>1, <1>6, PushFacts DEF FreeOK
<1>8. FreeOK'
  BY <1>1, <1>3, <1>5, <1>7 DEF FreeOK
<1>9. \A k : Unanswered(sock, k) /\ k # l => Unanswered(sock', k)
  BY DEF Unanswered
<1>10. \A k \in Elems(backlog) : k # l
  BY <1>1 DEF SocksOK
<1>11. SocksOK'
  <2>1. backlog' = backlog /\ Elems(backlog') = Elems(backlog) /\ (Distinct(backlog') <=> Distinct(backlog))
    OBVIOUS
  <2>2. \A j \in Entries : conn'[j].sock # 0 => j # i /\ conn'[j].sock = conn[j].sock
    BY <1>3, <1>5
  <2>3. \A j \in Entries : conn'[j].sock # 0 => conn'[j].sock # l
    BY <1>1, <2>2 DEF SocksOK
  <2>4. \A j \in Entries : conn'[j].sock # 0 => Unanswered(sock', conn'[j].sock)
    BY <1>1, <1>9, <2>2, <2>3 DEF SocksOK
  <2>5. \A j, m \in Entries : conn'[j].sock # 0 /\ conn'[j].sock = conn'[m].sock => j = m
    BY <1>1, <2>2 DEF SocksOK
  <2>6. \A k \in Elems(backlog) : k # 0
    BY <1>1 DEF SocksOK, Unanswered, TypeOK
  <2>7. \A k \in Elems(backlog) : Unanswered(sock', k) /\ \A j \in Entries : conn'[j].sock # k
    BY <1>1, <1>9, <1>10, <2>2, <2>6 DEF SocksOK
  <2> QED BY <1>1, <2>1, <2>4, <2>5, <2>7 DEF SocksOK
<1>12. \A j \in Entries : Queued(j)' <=> Queued(j)
  BY DEF Queued, Elems
<1>13. ConnsOK'
  <2>1. \A j \in Entries : j # i /\ conn[j].sock # 0 => sock'[conn[j].sock] = sock[conn[j].sock]
    BY <1>1 DEF SocksOK, Unanswered
  <2>2. frames' = frames
    OBVIOUS
  <2> QED BY <1>1, <1>3, <1>5, <1>12, <2>1, <2>2 DEF ConnsOK
<1>14. PendingOK'
  BY <1>1 DEF PendingOK, Elems, Distinct
<1>15. \A k \in DOMAIN sock : /\ sock'[k].type = sock[k].type
                             /\ sock[k].msg = "read" => sock'[k].msg = "read"
  OBVIOUS
<1>16. FramesOK' /\ ClientsOK'
  BY <1>1, <1>15 DEF FramesOK, ClientsOK
<1>17. TypeOK'
  BY <1>1, <1>5, <1>7 DEF TypeOK
<1> QED BY <1>8, <1>11, <1>13, <1>14, <1>16, <1>17 DEF IInv

-----------------------------------------------------------------------------
(* The end of a handler *)

\* The answer is queued on the connection that the entry has now.
Finished(i, k, ok) ==
  /\ conn' \in [Entries -> ConnRec] /\ \A j \in Entries : j # i => conn'[j] = conn[j]
  /\ conn'[i].sock = conn[i].sock /\ conn'[i].running = FALSE /\ conn'[i].in = FALSE
  /\ conn'[i].out = IF conn[i].sock = 0 THEN << >>
                    ELSE Append(conn[i].out, [for |-> k, ok |-> ok])

LEMMA FinishIs ==
  ASSUME TypeOK, NEW i \in Entries, NEW k \in Nat, NEW ok \in BOOLEAN, NEW excl \in BOOLEAN,
         Finish(i, k, ok, excl)
  PROVE  Finished(i, k, ok)
<1> DEFINE o == IF conn[i].sock = 0 THEN << >> ELSE Append(conn[i].out, [for |-> k, ok |-> ok])
           d == conn[i].sock # 0
           r == [conn[i] EXCEPT !.running = FALSE, !.in = FALSE, !.out = o, !.done = d]
<1>1. conn' = [conn EXCEPT ![i] = r]
  BY DEF Finish
<1>2. conn \in [Entries -> ConnRec] /\ conn[i] \in ConnRec
  BY DEF TypeOK
<1>3. conn[i].out \in Seq(Answer) /\ [for |-> k, ok |-> ok] \in Answer
  BY <1>2 DEF ConnRec, Answer
<1>4. o \in Seq(Answer) /\ d \in BOOLEAN
  BY <1>3
<1> HIDE DEF o, d
<1>5. r \in ConnRec /\ r.sock = conn[i].sock /\ r.running = FALSE /\ r.in = FALSE /\ r.out = o
  <2> SUFFICES ASSUME NEW x \in ConnRec
               PROVE  LET z == [x EXCEPT !.running = FALSE, !.in = FALSE, !.out = o, !.done = d]
                      IN z \in ConnRec /\ z.sock = x.sock /\ z.running = FALSE /\ z.in = FALSE /\ z.out = o
    BY <1>2
  <2> QED BY <1>4 DEF ConnRec
<1> HIDE DEF r
<1>6. /\ conn' \in [Entries -> ConnRec] /\ \A j \in Entries : j # i => conn'[j] = conn[j]
      /\ conn'[i] = r
  BY <1>1, <1>2, <1>5
<1> QED BY <1>5, <1>6 DEF o, Finished

\* The first pending command is woken.
LEMMA FinishWakes ==
  ASSUME TypeOK, PendingOK, NEW i \in Entries, NEW k, NEW ok, NEW excl \in BOOLEAN,
         Finish(i, k, ok, excl), i \notin Elems(pending)
  PROVE  /\ pending' \in Seq(Entries) /\ Distinct(pending') /\ woken' \subseteq Entries
         /\ Elems(pending') \cap woken' = {}
         /\ Elems(pending') \cup woken' = (Elems(pending) \cup woken) \ {i}
         /\ excl /\ pending # << >> => woken' # {}
         /\ pending = << >> => pending' = << >>
         /\ ~excl => pending' = pending /\ woken' = woken \ {i}
<1>1. pending \in Seq(Entries) /\ woken \subseteq Entries
  BY DEF TypeOK
<1>2. CASE excl /\ pending # << >>
  <2>1. pending' = Tail(pending) /\ woken' = (woken \ {i}) \union {Head(pending)}
    BY <1>2 DEF Finish
  <2>2. /\ Head(pending) \in Entries /\ pending' \in Seq(Entries)
        /\ Elems(pending) = Elems(pending') \cup {Head(pending)}
        /\ Distinct(pending') /\ Head(pending) \notin Elems(pending')
    BY <1>1, <1>2, <2>1, TailFacts DEF PendingOK
  <2> QED BY <1>1, <1>2, <2>1, <2>2 DEF PendingOK
<1>3. CASE ~(excl /\ pending # << >>)
  <2>1. pending' = pending /\ woken' = woken \ {i}
    BY <1>3 DEF Finish
  <2>2. Elems(pending') = Elems(pending) /\ (Distinct(pending') <=> Distinct(pending))
    BY <2>1
  <2> QED BY <1>1, <1>3, <2>1, <2>2 DEF PendingOK
<1> QED BY <1>2, <1>3

\* The end of a handler keeps the table in order: the entry is left with its answer, or
\* without a connection.
LEMMA FinishStep ==
  ASSUME IInv, NEW i \in Entries, NEW k \in Nat, NEW ok \in BOOLEAN, NEW excl \in BOOLEAN,
         Finish(i, k, ok, excl), Grown, i \notin Elems(pending),
         excl \/ (frames' = frames /\ i \notin woken),
         frames' \in Seq(FrameRec), FramesOK',
         \A q \in Entries : (\E j \in DOMAIN frames' : frames'[j].conn = q) <=> q # i /\ conn[q].running,
         UNCHANGED <<cl, backlog>>, vbd' \in [Minors -> VbdRec],
         proc' \in {"run", "stopping", "gone"}, walked' \in BOOLEAN
  PROVE  IInv'
<1>1. TypeOK /\ ClientsOK /\ SocksOK /\ FreeOK /\ ConnsOK /\ PendingOK
  BY DEF IInv
<1>2. /\ conn' \in [Entries -> ConnRec] /\ \A j \in Entries : j # i => conn'[j] = conn[j]
      /\ conn'[i].sock = conn[i].sock /\ conn'[i].running = FALSE /\ conn'[i].in = FALSE
      /\ conn[i].sock = 0 => conn'[i].out = << >>
  <2>1. Finished(i, k, ok)
    BY <1>1, FinishIs
  <2> QED BY <2>1 DEF Finished
<1>3. /\ pending' \in Seq(Entries) /\ Distinct(pending') /\ woken' \subseteq Entries
      /\ Elems(pending') \cap woken' = {}
      /\ Elems(pending') \cup woken' = (Elems(pending) \cup woken) \ {i}
      /\ excl /\ pending # << >> => woken' # {}
      /\ pending = << >> => pending' = << >>
      /\ ~excl => pending' = pending /\ woken' = woken \ {i}
  BY <1>1, FinishWakes
<1>4. free' = free /\ busy' = (busy /\ ~excl)
  BY DEF Finish
<1>5. \A j \in Entries : conn'[j].sock = conn[j].sock
  BY <1>2
<1>6. FreeOK'
  <2>1. Elems(free') = Elems(free) /\ (Distinct(free') <=> Distinct(free))
    BY <1>4
  <2> QED BY <1>1, <1>5, <2>1 DEF FreeOK
<1>7. \A l \in DOMAIN sock : Unanswered(sock, l) => Unanswered(sock', l)
  BY DEF Unanswered, Grown
<1>8. \A l : Unanswered(sock, l) => l \in DOMAIN sock
  BY DEF Unanswered
<1>9. SocksOK'
  <2>1. Elems(backlog') = Elems(backlog) /\ (Distinct(backlog') <=> Distinct(backlog))
    OBVIOUS
  <2> QED BY <1>1, <1>5, <1>7, <1>8, <2>1 DEF SocksOK
<1>10. \A j \in Entries : Queued(j)' <=> Queued(j) /\ j # i
  BY <1>3 DEF Queued
<1>11. ConnsOK'
  <2> SUFFICES ASSUME NEW j \in Entries
               PROVE  /\ conn'[j].in => conn'[j].sock # 0 /\ conn'[j].out = << >> /\ ~Queued(j)'
                      /\ conn'[j].out # << >> => conn'[j].sock # 0 /\ ~Queued(j)'
                      /\ conn'[j].running => conn'[j].out = << >> /\ ~Queued(j)'
                      /\ conn'[j].running <=> \E l \in DOMAIN frames' : frames'[l].conn = j
                      /\ Queued(j)' => /\ conn'[j].sock # 0 /\ Excl(sock'[conn'[j].sock].type)
                                       /\ sock'[conn'[j].sock].msg = "read"
    BY DEF ConnsOK
  <2>1. CASE j = i
    BY <1>2, <1>10, <2>1
  <2>2. CASE j # i
    <3>1. conn'[j] = conn[j] /\ (Queued(j)' <=> Queued(j))
      BY <1>2, <1>10, <2>2
    <3>2. Queued(j) => /\ conn[j].sock # 0 /\ Excl(sock'[conn[j].sock].type)
                       /\ sock'[conn[j].sock].msg = "read"
      BY <1>1, <1>8 DEF ConnsOK, SocksOK, Grown
    <3> QED BY <1>1, <2>2, <3>1, <3>2 DEF ConnsOK
  <2> QED BY <2>1, <2>2
<1>12. PendingOK'
  <2>1. busy' => frames' # << >>
    BY <1>1, <1>4 DEF PendingOK
  <2>2. pending' # << >> => frames' # << >> \/ woken' # {}
    BY <1>1, <1>3 DEF PendingOK
  <2> QED BY <1>3, <2>1, <2>2 DEF PendingOK
<1>13. ClientsOK'
  BY <1>1 DEF ClientsOK, Grown
<1>14. TypeOK'
  <2>1. busy' \in BOOLEAN /\ free' \in Seq(Entries) /\ cl' \in [Clients -> ClientRec]
        /\ backlog' \in Seq(Nat) /\ sock' \in Seq(SockRec)
    BY <1>1, <1>4 DEF TypeOK, Grown
  <2> QED BY <1>2, <1>3, <2>1 DEF TypeOK
<1> QED BY <1>6, <1>9, <1>11, <1>12, <1>13, <1>14 DEF IInv

-----------------------------------------------------------------------------
(* The handlers *)

LEMMA NoVbdTyped == NoVbd \in VbdRec
BY DEF NoVbd, VbdRec

LEMMA OkTyped ==
  ASSUME TypeOK, NEW m \in Minors, NEW v \in VbdRec
  PROVE  Ok(m, v).ok \in BOOLEAN /\ Ok(m, v).vbd \in [Minors -> VbdRec]
<1>1. vbd \in [Minors -> VbdRec]
  BY DEF TypeOK
<1>2. [vbd EXCEPT ![m] = v] \in [Minors -> VbdRec]
  BY <1>1
<1> QED BY <1>2 DEF Ok

LEMMA FailedTyped ==
  ASSUME TypeOK
  PROVE  Failed.ok \in BOOLEAN /\ Failed.vbd \in [Minors -> VbdRec]
BY DEF TypeOK, Failed

\* What a handler that does not wait leaves.
LEMMA OutcomesTyped ==
  ASSUME TypeOK, NEW type \in Calls \ Waits, NEW m \in Minors, NEW o \in Outcomes(type, m)
  PROVE  o.ok \in BOOLEAN /\ o.vbd \in [Minors -> VbdRec]
<1>1. vbd[m] \in VbdRec
  BY DEF TypeOK
<1>2. vbd[m].gen \in Nat
  BY <1>1 DEF VbdRec
<1>3. /\ [NoVbd EXCEPT !.st = "attached", !.gen = vbd[m].gen + 1] \in VbdRec
      /\ [NoVbd EXCEPT !.gen = vbd[m].gen] \in VbdRec
  <2> SUFFICES ASSUME NEW x \in VbdRec, NEW n \in Nat
               PROVE  /\ [x EXCEPT !.st = "attached", !.gen = n + 1] \in VbdRec
                      /\ [x EXCEPT !.gen = n] \in VbdRec
    BY <1>2, NoVbdTyped
  <2>1. n + 1 \in Nat
    OBVIOUS
  <2> QED BY <2>1 DEF VbdRec
<1>4. /\ [vbd[m] EXCEPT !.st = "open", !.ring = TRUE] \in VbdRec
      /\ [vbd[m] EXCEPT !.pause = "no"] \in VbdRec
  <2> SUFFICES ASSUME NEW x \in VbdRec
               PROVE  /\ [x EXCEPT !.st = "open", !.ring = TRUE] \in VbdRec
                      /\ [x EXCEPT !.pause = "no"] \in VbdRec
    BY <1>1
  <2> QED BY DEF VbdRec
<1>5. type \in {"list", "attach", "detach", "open", "resume"}
  BY DEF Calls, Waits
<1>6. o = Failed \/ \E v \in VbdRec : o = Ok(m, v)
  <2>1. CASE type = "list"
    BY <1>1, <2>1 DEF Outcomes, ListVbds
  <2>2. CASE type = "attach"
    <3>1. o \in AttachVbd(m)
      BY <2>2 DEF Outcomes
    <3> QED BY <1>3, <3>1 DEF AttachVbd
  <2>3. CASE type = "detach"
    <3>1. o \in DetachVbd(m)
      BY <2>3 DEF Outcomes
    <3> QED BY <1>3, <3>1 DEF DetachVbd
  <2>4. CASE type = "open"
    <3>1. o \in OpenImage(m)
      BY <2>4 DEF Outcomes
    <3> QED BY <1>4, <3>1 DEF OpenImage
  <2>5. CASE type = "resume"
    <3>1. o \in ResumeVbd(m)
      BY <2>5 DEF Outcomes
    <3> QED BY <1>4, <3>1 DEF ResumeVbd
  <2> QED BY <1>5, <2>1, <2>2, <2>3, <2>4, <2>5
<1> QED BY <1>6, OkTyped, FailedTyped

LEMMA WaitTyped ==
  ASSUME NEW type \in Waits, NEW v \in VbdRec
  PROVE  Began(type, v) \in VbdRec /\ Ended(type, v) \in VbdRec
BY DEF Began, Ended, VbdRec

\* The handlers that are waiting keep the connections' data.
LEMMA FramesKept ==
  ASSUME IInv, Grown, frames' = frames
  PROVE  frames' \in Seq(FrameRec) /\ FramesOK'
BY DEF IInv, TypeOK, FramesOK, Grown

\* No client has come or gone.
HupSame == DOMAIN sock' = DOMAIN sock /\ \A k \in DOMAIN sock : sock'[k].hup = sock[k].hup

\* What tapdisk_control_process_request is called with.
Called(i) ==
  /\ conn[i].sock # 0 /\ ~conn[i].running /\ conn[i].out = << >> /\ i \notin Elems(pending)
  /\ i \in woken => Excl(sock[conn[i].sock].type)
  /\ Grown /\ sock'[conn[i].sock].msg = "read" /\ HupSame
  /\ UNCHANGED <<cl, backlog>>

\* A handler that ends at once.
LEMMA AtOnceStep ==
  ASSUME IInv, NEW i \in Entries, Called(i), NEW k \in Nat, NEW ok \in BOOLEAN,
         Finish(i, k, ok, Excl(sock[conn[i].sock].type)), frames' = frames,
         vbd' \in [Minors -> VbdRec], proc' \in {"run", "stopping", "gone"}, walked' \in BOOLEAN
  PROVE  IInv'
<1> DEFINE x == Excl(sock[conn[i].sock].type)
<1>1. x \in BOOLEAN
  BY DEF Excl
<1>2. i \notin Elems(pending) /\ (x \/ (frames' = frames /\ i \notin woken)) /\ Grown
      /\ UNCHANGED <<cl, backlog>> /\ ~conn[i].running
  BY DEF Called
<1>3. frames' \in Seq(FrameRec) /\ FramesOK'
  BY <1>2, FramesKept
<1>4. \A q \in Entries : (\E j \in DOMAIN frames' : frames'[j].conn = q) <=> q # i /\ conn[q].running
  <2>1. ConnsOK
    BY DEF IInv
  <2>2. \A q \in Entries : (\E j \in DOMAIN frames' : frames'[j].conn = q) <=> conn[q].running
    BY <2>1 DEF ConnsOK
  <2> QED BY <1>2, <2>2
<1> HIDE DEF x
<1>5. Finish(i, k, ok, x)
  BY DEF x
<1> QED BY <1>1, <1>2, <1>3, <1>4, <1>5, FinishStep

\* A handler that waits.
LEMMA WaitStep ==
  ASSUME IInv, NEW i \in Entries, Called(i), NEW f \in FrameRec, f.conn = i,
         f.sock = conn[i].sock, f.type = sock[f.sock].type, Heeding(f),
         vbd' \in [Minors -> VbdRec], frames' = Append(frames, f), busy' = TRUE,
         conn' = [conn EXCEPT ![i].running = TRUE], woken' = woken \ {i}, walked' = FALSE,
         UNCHANGED <<free, pending, proc>>
  PROVE  IInv'
<1> DEFINE r == [conn[i] EXCEPT !.running = TRUE]
           n == Len(frames) + 1
<1>1. TypeOK /\ ClientsOK /\ SocksOK /\ FreeOK /\ ConnsOK /\ PendingOK /\ FramesOK
  BY DEF IInv
<1>2. /\ conn[i].sock # 0 /\ ~conn[i].running /\ conn[i].out = << >> /\ i \notin Elems(pending)
      /\ Grown /\ sock'[conn[i].sock].msg = "read" /\ UNCHANGED <<cl, backlog>>
  BY DEF Called
<1>3. conn \in [Entries -> ConnRec] /\ conn[i] \in ConnRec /\ frames \in Seq(FrameRec)
  BY <1>1 DEF TypeOK
<1>4. r \in ConnRec /\ r.sock = conn[i].sock /\ r.in = conn[i].in /\ r.out = << >> /\ r.running
  <2> SUFFICES ASSUME NEW x \in ConnRec
               PROVE  LET z == [x EXCEPT !.running = TRUE]
                      IN z \in ConnRec /\ z.sock = x.sock /\ z.in = x.in /\ z.out = x.out /\ z.running
    BY <1>2, <1>3
  <2> QED BY DEF ConnRec
<1>5. conn' = [conn EXCEPT ![i] = r]
  OBVIOUS
<1> HIDE DEF r
<1>6. /\ conn' \in [Entries -> ConnRec] /\ \A j \in Entries : j # i => conn'[j] = conn[j]
      /\ conn'[i] = r /\ \A j \in Entries : conn'[j].sock = conn[j].sock
  BY <1>3, <1>4, <1>5
<1>7. /\ frames' \in Seq(FrameRec) /\ DOMAIN frames' = DOMAIN frames \cup {n} /\ frames' # << >>
      /\ n \notin DOMAIN frames /\ frames'[n] = f /\ \A j \in DOMAIN frames : frames'[j] = frames[j]
  BY <1>3
<1> HIDE DEF n
<1>8. FreeOK'
  <2>1. Elems(free') = Elems(free) /\ (Distinct(free') <=> Distinct(free))
    OBVIOUS
  <2> QED BY <1>1, <1>6, <2>1 DEF FreeOK
<1>9. \A l \in DOMAIN sock : Unanswered(sock, l) => Unanswered(sock', l)
  BY <1>2 DEF Unanswered, Grown
<1>10. \A l : Unanswered(sock, l) => l \in DOMAIN sock
  BY DEF Unanswered
<1>11. SocksOK'
  <2>1. Elems(backlog') = Elems(backlog) /\ (Distinct(backlog') <=> Distinct(backlog))
    BY <1>2
  <2> QED BY <1>1, <1>6, <1>9, <1>10, <2>1 DEF SocksOK
<1>12. \A j \in Entries : Queued(j)' <=> Queued(j) /\ j # i
  <2>1. Elems(pending') = Elems(pending)
    OBVIOUS
  <2> QED BY <1>2, <2>1 DEF Queued
<1>13. ConnsOK'
  <2> SUFFICES ASSUME NEW j \in Entries
               PROVE  /\ conn'[j].in => conn'[j].sock # 0 /\ conn'[j].out = << >> /\ ~Queued(j)'
                      /\ conn'[j].out # << >> => conn'[j].sock # 0 /\ ~Queued(j)'
                      /\ conn'[j].running => conn'[j].out = << >> /\ ~Queued(j)'
                      /\ conn'[j].running <=> \E l \in DOMAIN frames' : frames'[l].conn = j
                      /\ Queued(j)' => /\ conn'[j].sock # 0 /\ Excl(sock'[conn'[j].sock].type)
                                       /\ sock'[conn'[j].sock].msg = "read"
    BY DEF ConnsOK
  <2>1. CASE j = i
    <3>1. \E l \in DOMAIN frames' : frames'[l].conn = i
      BY <1>7
    <3> QED BY <1>2, <1>4, <1>6, <1>12, <2>1, <3>1
  <2>2. CASE j # i
    <3>1. conn'[j] = conn[j] /\ (Queued(j)' <=> Queued(j))
      BY <1>6, <1>12, <2>2
    <3>2. Queued(j) => /\ conn[j].sock # 0 /\ Excl(sock'[conn[j].sock].type)
                       /\ sock'[conn[j].sock].msg = "read"
      BY <1>1, <1>2, <1>10 DEF ConnsOK, SocksOK, Grown
    <3>3. (\E l \in DOMAIN frames' : frames'[l].conn = j) <=> \E l \in DOMAIN frames : frames[l].conn = j
      BY <1>7, <2>2
    <3> QED BY <1>1, <3>1, <3>2, <3>3 DEF ConnsOK
  <2> QED BY <2>1, <2>2
<1>14. PendingOK'
  <2>1. Elems(pending') = Elems(pending) /\ (Distinct(pending') <=> Distinct(pending))
    OBVIOUS
  <2> QED BY <1>1, <1>7, <2>1 DEF PendingOK
<1>15. FramesOK'
  <2>1. \A j \in DOMAIN frames : frames[j].conn # i
    BY <1>1, <1>2 DEF ConnsOK
  <2>2. conn[i].sock \in DOMAIN sock
    BY <1>1, <1>2, <1>10 DEF SocksOK
  <2>3. \A j, l \in DOMAIN frames' : frames'[j].conn = frames'[l].conn => j = l
    BY <1>1, <1>7, <2>1 DEF FramesOK
  <2>4. ASSUME NEW j \in DOMAIN frames'
        PROVE  /\ frames'[j].sock \in DOMAIN sock' /\ sock'[frames'[j].sock].type = frames'[j].type
               /\ sock'[frames'[j].sock].msg = "read" /\ Heeding(frames'[j])
    <3>1. CASE j = n
      BY <1>2, <1>7, <2>2, <3>1 DEF Grown
    <3>2. CASE j \in DOMAIN frames
      BY <1>1, <1>2, <1>7, <3>2, SMTT(30) DEF FramesOK, Grown
    <3> QED BY <1>7, <3>1, <3>2
  <2> QED BY <2>3, <2>4 DEF FramesOK
<1>16. ClientsOK'
  BY <1>1, <1>2 DEF ClientsOK, Grown
<1>17. TypeOK'
  BY <1>1, <1>2, <1>6, <1>7 DEF TypeOK, Grown
<1> QED BY <1>8, <1>11, <1>13, <1>14, <1>15, <1>16, <1>17 DEF IInv

\* The two things that tapdisk_control_process_request may do.
AtOnce(i) ==
  \E ok \in BOOLEAN :
     /\ Finish(i, conn[i].sock, ok, Excl(sock[conn[i].sock].type)) /\ frames' = frames
     /\ vbd' \in [Minors -> VbdRec] /\ proc' \in {"run", "stopping", "gone"} /\ walked' = TRUE

Waiting(i) ==
  \E f \in FrameRec :
     /\ f.conn = i /\ f.sock = conn[i].sock /\ f.type = sock[f.sock].type /\ Heeding(f)
     /\ vbd' \in [Minors -> VbdRec] /\ frames' = Append(frames, f) /\ busy' = TRUE
     /\ conn' = [conn EXCEPT ![i].running = TRUE] /\ woken' = woken \ {i} /\ walked' = FALSE
     /\ UNCHANGED <<free, pending, proc>>

LEMMA BeginIs ==
  ASSUME IInv, NEW i \in Entries, Called(i), Begin(i, conn[i].sock)
  PROVE  AtOnce(i) \/ Waiting(i)
<1> DEFINE k    == conn[i].sock
           type == sock[k].type
           m    == sock[k].minor
           v    == Began(type, vbd[m])
           st   == StageOf(FirstStage(type), v, m)
           fr   == Frame(i, k, st)
<1>1. TypeOK /\ SocksOK /\ k # 0
  BY DEF IInv, Called
<1>2. k \in DOMAIN sock /\ k \in Nat
  BY <1>1 DEF SocksOK, Unanswered, TypeOK
<1>3. sock[k] \in SockRec
  BY <1>1, <1>2 DEF TypeOK
<1>4. type \in Calls /\ m \in Minors
  BY <1>3 DEF SockRec
<1>5. vbd \in [Minors -> VbdRec] /\ vbd[m] \in VbdRec /\ proc \in {"run", "stopping", "gone"}
  BY <1>1, <1>4 DEF TypeOK
<1>6. \/ /\ type \notin Waits
         /\ \E o \in Outcomes(type, m) :
               /\ Finish(i, k, o.ok, Excl(type))
               /\ vbd' = o.vbd
               /\ proc' = StateAfter(type, o.ok, o.vbd)
         /\ walked' = TRUE
         /\ frames' = frames
      \/ /\ type \in Waits
         /\ Finish(i, k, vbd[m].st # "none", TRUE)
         /\ vbd' = IF vbd[m].st = "none" THEN vbd ELSE [vbd EXCEPT ![m] = Ended(type, v)]
         /\ walked' = TRUE
         /\ frames' = frames /\ proc' = proc
      \/ /\ type \in Waits /\ st # "done"
         /\ vbd' = [vbd EXCEPT ![m] = v]
         /\ frames' = Append(frames, fr)
         /\ busy' = TRUE
         /\ conn' = [conn EXCEPT ![i].running = TRUE]
         /\ woken' = woken \ {i}
         /\ walked' = FALSE
         /\ UNCHANGED <<free, pending, proc>>
  BY DEF Begin
<1>7. ASSUME type \in Waits
      PROVE  /\ v \in VbdRec /\ Ended(type, v) \in VbdRec /\ Excl(type) = TRUE
             /\ fr \in FrameRec /\ fr.conn = i /\ fr.sock = k /\ fr.type = type
             /\ st # "done" => Heeding(fr)
  <2>1. v \in VbdRec /\ Ended(type, v) \in VbdRec
    BY <1>5, <1>7, WaitTyped
  <2>2. Excl(type) = TRUE
    BY <1>7 DEF Waits, Excl
  <2>3. vbd[m].gen \in Nat
    BY <1>5 DEF VbdRec
  <2>4. /\ st \in Stages
        /\ type = "pause" /\ st # "done" => st = "pause"
        /\ type = "force" /\ m \in Ioctl /\ st # "done" => st = "device"
    BY <1>7, ConstantsAssumption DEF Waits, FirstStage, StageOf, Stages
  <2> HIDE DEF st, v
  <2>5. fr = [conn |-> i, sock |-> k, type |-> type, minor |-> m, gen |-> vbd[m].gen, stage |-> st]
    BY DEF Frame
  <2> HIDE DEF m, type, k, fr
  <2>6. /\ fr \in FrameRec /\ fr.conn = i /\ fr.sock = k /\ fr.type = type /\ fr.stage = st
        /\ fr.minor = m
    BY <1>2, <1>4, <1>7, <2>3, <2>4, <2>5 DEF FrameRec
  <2>7. st # "done" => Heeding(fr)
    BY <2>4, <2>6 DEF Heeding
  <2> QED BY <2>1, <2>2, <2>6, <2>7 DEF type, m, v
<1>8. CASE /\ type \notin Waits
           /\ \E o \in Outcomes(type, m) :
                 /\ Finish(i, k, o.ok, Excl(type))
                 /\ vbd' = o.vbd
                 /\ proc' = StateAfter(type, o.ok, o.vbd)
           /\ walked' = TRUE
           /\ frames' = frames
  <2>1. PICK o \in Outcomes(type, m) : /\ Finish(i, k, o.ok, Excl(type)) /\ vbd' = o.vbd
                                       /\ proc' = StateAfter(type, o.ok, o.vbd)
    BY <1>8
  <2>2. o.ok \in BOOLEAN /\ o.vbd \in [Minors -> VbdRec]
    BY <1>1, <1>4, <1>8, OutcomesTyped
  <2>3. proc' \in {"run", "stopping", "gone"}
    BY <1>5, <2>1 DEF StateAfter
  <2>4. AtOnce(i)
    BY <1>8, <2>1, <2>2, <2>3 DEF AtOnce
  <2> QED BY <2>4
<1>9. CASE /\ type \in Waits
           /\ Finish(i, k, vbd[m].st # "none", TRUE)
           /\ vbd' = IF vbd[m].st = "none" THEN vbd ELSE [vbd EXCEPT ![m] = Ended(type, v)]
           /\ walked' = TRUE
           /\ frames' = frames /\ proc' = proc
  <2>1. Ended(type, v) \in VbdRec /\ Excl(type) = TRUE
    BY <1>7, <1>9
  <2>2. vbd' \in [Minors -> VbdRec]
    BY <1>4, <1>5, <1>9, <2>1
  <2>3. Finish(i, k, vbd[m].st # "none", Excl(type)) /\ (vbd[m].st # "none") \in BOOLEAN
    BY <1>9, <2>1
  <2>4. AtOnce(i)
    BY <1>5, <1>9, <2>2, <2>3 DEF AtOnce
  <2> QED BY <2>4
<1>10. CASE /\ type \in Waits /\ st # "done"
            /\ vbd' = [vbd EXCEPT ![m] = v]
            /\ frames' = Append(frames, fr)
            /\ busy' = TRUE
            /\ conn' = [conn EXCEPT ![i].running = TRUE]
            /\ woken' = woken \ {i}
            /\ walked' = FALSE
            /\ UNCHANGED <<free, pending, proc>>
  <2>1. /\ v \in VbdRec /\ fr \in FrameRec /\ fr.conn = i /\ fr.sock = k /\ fr.type = type
        /\ Heeding(fr)
    BY <1>7, <1>10
  <2>2. vbd' \in [Minors -> VbdRec]
    BY <1>4, <1>5, <1>10, <2>1
  <2> HIDE DEF fr
  <2>3. Waiting(i)
    BY <1>10, <2>1, <2>2 DEF Waiting
  <2> QED BY <2>3
<1> QED BY <1>6, <1>8, <1>9, <1>10

LEMMA BeginStep ==
  ASSUME IInv, NEW i \in Entries, Called(i), AtOnce(i) \/ Waiting(i)
  PROVE  IInv'
<1>1. conn[i].sock \in Nat
  BY DEF IInv, TypeOK, ConnRec
<1>2. CASE AtOnce(i)
  <2>1. PICK ok \in BOOLEAN :
           /\ Finish(i, conn[i].sock, ok, Excl(sock[conn[i].sock].type)) /\ frames' = frames
           /\ vbd' \in [Minors -> VbdRec] /\ proc' \in {"run", "stopping", "gone"} /\ walked' = TRUE
    BY <1>2 DEF AtOnce
  <2>2. walked' \in BOOLEAN
    BY <2>1
  <2> QED BY <1>1, <2>1, <2>2, AtOnceStep
<1>3. CASE Waiting(i)
  BY <1>3, WaitStep DEF Waiting
<1> QED BY <1>2, <1>3

\* The event of entry i has fired, and its message, if there is one, is for the handlers.
LEMMA ReadCalled ==
  ASSUME IInv, NEW i \in Entries, conn[i].in, ~conn[i].running,
         sock' = [sock EXCEPT ![conn[i].sock].msg = "read"], UNCHANGED <<cl, backlog>>
  PROVE  Called(i)
<1>1. conn[i].sock # 0 /\ conn[i].out = << >> /\ ~Queued(i)
  BY DEF IInv, ConnsOK
<1>2. conn[i].sock \in DOMAIN sock
  BY <1>1 DEF IInv, SocksOK, Unanswered
<1>3. Grown
  BY <1>2, TouchGrown
<1>4. sock'[conn[i].sock].msg = "read"
  <2>1. sock[conn[i].sock] \in SockRec
    BY <1>2 DEF IInv, TypeOK
  <2>2. sock'[conn[i].sock] = [sock[conn[i].sock] EXCEPT !.msg = "read"]
    BY <1>2
  <2> QED BY <2>1, <2>2 DEF SockRec
<1>5. HupSame
  <2> DEFINE k == conn[i].sock
             z == [sock[k] EXCEPT !.msg = "read"]
  <2>1. sock[k] \in SockRec /\ sock \in Seq(SockRec)
    BY <1>2 DEF IInv, TypeOK
  <2>2. sock' = [sock EXCEPT ![k] = z] /\ z.hup = sock[k].hup
    BY <2>1 DEF SockRec
  <2> HIDE DEF z, k
  <2>3. DOMAIN sock' = DOMAIN sock /\ \A l \in DOMAIN sock : sock'[l] = IF l = k THEN z ELSE sock[l]
    BY <2>1, <2>2
  <2> QED BY <2>2, <2>3 DEF HupSame
<1> QED BY <1>1, <1>3, <1>4, <1>5 DEF Called, Queued

LEMMA WokenCalled ==
  ASSUME IInv, NEW i \in Entries, i \in woken, sock' = sock, UNCHANGED <<cl, backlog>>
  PROVE  Called(i)
<1>1. Queued(i)
  BY DEF Queued
<1>2. /\ conn[i].sock # 0 /\ Excl(sock[conn[i].sock].type) /\ sock[conn[i].sock].msg = "read"
      /\ ~conn[i].running /\ conn[i].out = << >>
  BY <1>1 DEF IInv, ConnsOK
<1>3. i \notin Elems(pending)
  BY DEF IInv, PendingOK
<1>4. Grown
  BY SameGrown DEF IInv
<1>5. HupSame
  BY DEF HupSame
<1> QED BY <1>2, <1>3, <1>4, <1>5 DEF Called

-----------------------------------------------------------------------------
(* The events of the connections *)

LEMMA SockUpdate ==
  ASSUME TypeOK, NEW k \in DOMAIN sock, NEW r \in SockRec, sock' = [sock EXCEPT ![k] = r]
  PROVE  /\ sock' \in Seq(SockRec) /\ DOMAIN sock' = DOMAIN sock /\ sock'[k] = r
         /\ \A l \in DOMAIN sock : l # k => sock'[l] = sock[l]
BY DEF TypeOK

\* The connection k has ended, with the answers a.
Ending(k, a) ==
  /\ sock' \in Seq(SockRec) /\ DOMAIN sock' = DOMAIN sock
  /\ \A l \in DOMAIN sock : l # k => sock'[l] = sock[l]
  /\ sock'[k].type = sock[k].type /\ sock'[k].hup = sock[k].hup
  /\ sock[k].msg = "read" => sock'[k].msg = "read"
  /\ sock'[k].eof = TRUE /\ sock'[k].answers = a

LEMMA EndingIs ==
  ASSUME TypeOK, NEW k \in DOMAIN sock, NEW a \in Seq(Answer),
         NEW p \in {"unsent", "sent", "read"}, p = "read" \/ p = sock[k].msg,
         sock' = [sock EXCEPT ![k] = [sock[k] EXCEPT !.answers = a, !.eof = TRUE, !.msg = p]]
  PROVE  Ending(k, a)
<1> DEFINE r == [sock[k] EXCEPT !.answers = a, !.eof = TRUE, !.msg = p]
<1>1. sock[k] \in SockRec
  BY DEF TypeOK
<1>2. /\ r \in SockRec /\ r.type = sock[k].type /\ r.hup = sock[k].hup /\ r.eof = TRUE
      /\ r.answers = a /\ r.msg = p
  <2> SUFFICES ASSUME NEW x \in SockRec
               PROVE  LET z == [x EXCEPT !.answers = a, !.eof = TRUE, !.msg = p]
                      IN /\ z \in SockRec /\ z.type = x.type /\ z.hup = x.hup /\ z.eof = TRUE
                         /\ z.answers = a /\ z.msg = p
    BY <1>1
  <2> QED BY DEF SockRec
<1> HIDE DEF r
<1>3. sock' = [sock EXCEPT ![k] = r]
  BY DEF r
<1>4. /\ sock' \in Seq(SockRec) /\ DOMAIN sock' = DOMAIN sock /\ sock'[k] = r
      /\ \A l \in DOMAIN sock : l # k => sock'[l] = sock[l]
  BY <1>2, <1>3, SockUpdate
<1> QED BY <1>2, <1>4 DEF Ending

\* The entry i is closed: tapdisk_ctl_conn_close.
Closing(i, a) ==
  /\ conn[i].sock # 0 /\ ~Queued(i) /\ Ending(conn[i].sock, a)
  /\ conn' = Closed(i) /\ free' = << i >> \o free /\ walked' = TRUE
  /\ UNCHANGED <<cl, backlog, busy, pending, woken, frames, vbd, proc>>

LEMMA ClosingStep ==
  ASSUME IInv, NEW i \in Entries, NEW a, Closing(i, a)
  PROVE  IInv'
<1>1. walked' \in BOOLEAN
  BY DEF Closing
<1> QED BY <1>1, CloseStep DEF Closing, Ending

Refused(i) ==
  /\ sock[conn[i].sock].msg = "sent" /\ conn[i].running
  /\ Closing(i, << [for |-> conn[i].sock, ok |-> FALSE] >>)

Pended(i) ==
  /\ Excl(sock[conn[i].sock].type) /\ busy /\ ~conn[i].running
  /\ sock' = [sock EXCEPT ![conn[i].sock].msg = "read"]
  /\ pending' = Append(pending, i) /\ conn' = [conn EXCEPT ![i].in = FALSE] /\ walked' = TRUE
  /\ UNCHANGED <<cl, backlog, free, busy, woken, frames, vbd, proc>>

HungUp(i) == sock[conn[i].sock].hup /\ Closing(i, << >>)

LEMMA ReadRequestIs ==
  ASSUME IInv, NEW i \in Entries, ReadRequest(i)
  PROVE  Refused(i) \/ Pended(i) \/ HungUp(i) \/ (Called(i) /\ (AtOnce(i) \/ Waiting(i)))
<1> DEFINE k == conn[i].sock
           s == sock[k]
           a == [for |-> k, ok |-> FALSE]
<1>1. conn[i].in /\ UNCHANGED <<cl, backlog>>
  BY DEF ReadRequest
<1>2. k # 0 /\ conn[i].out = << >> /\ ~Queued(i)
  BY <1>1 DEF IInv, ConnsOK
<1>3. Unanswered(sock, k) /\ TypeOK
  BY <1>2 DEF IInv, SocksOK
<1>4. k \in DOMAIN sock /\ sock[k].answers = << >>
  BY <1>3 DEF Unanswered
<1>5. sock[k] \in SockRec /\ k \in Nat
  BY <1>3, <1>4 DEF TypeOK
<1>6. sock[k].msg \in {"unsent", "sent", "read"}
  BY <1>5 DEF SockRec
<1>7. CASE /\ s.msg = "sent" /\ conn[i].running
           /\ sock' = [sock EXCEPT ![k].answers = Append(@, [for |-> k, ok |-> FALSE]),
                                   ![k].eof = TRUE, ![k].msg = "read"]
           /\ conn' = Closed(i)
           /\ free' = << i >> \o free
           /\ walked' = TRUE
           /\ UNCHANGED <<busy, pending, woken, frames, vbd, proc>>
  <2> DEFINE b == Append(sock[k].answers, a)
  <2>1. a \in Answer /\ << >> \in Seq(Answer)
    BY <1>5 DEF Answer
  <2>2. b \in Seq(Answer) /\ b = << a >>
    <3> HIDE DEF a
    <3> QED BY <1>4, <2>1
  <2>3. sock' = [sock EXCEPT ![k] = [sock[k] EXCEPT !.answers = b, !.eof = TRUE, !.msg = "read"]]
    BY <1>4, <1>7
  <2> HIDE DEF b
  <2>4. Ending(k, b)
    BY <1>3, <1>4, <2>2, <2>3, EndingIs
  <2>5. Closing(i, << a >>)
    BY <1>1, <1>2, <1>7, <2>2, <2>4 DEF Closing
  <2> QED BY <1>7, <2>5 DEF Refused
<1>8. CASE /\ s.msg = "sent" /\ ~conn[i].running /\ Excl(s.type) /\ busy
           /\ sock' = [sock EXCEPT ![k].msg = "read"]
           /\ pending' = Append(pending, i)
           /\ conn' = [conn EXCEPT ![i].in = FALSE]
           /\ walked' = TRUE
           /\ UNCHANGED <<free, busy, woken, frames, vbd, proc>>
  <2>1. Pended(i)
    BY <1>1, <1>8 DEF Pended
  <2> QED BY <2>1
<1>9. CASE /\ s.msg = "sent" /\ ~conn[i].running /\ ~(Excl(s.type) /\ busy)
           /\ sock' = [sock EXCEPT ![k].msg = "read"]
           /\ Begin(i, k)
  <2>1. Called(i)
    BY <1>1, <1>9, ReadCalled
  <2> QED BY <1>9, <2>1, BeginIs
<1>10. CASE /\ s.hup /\ s.msg # "sent"
            /\ conn' = Closed(i)
            /\ free' = << i >> \o free
            /\ sock' = [sock EXCEPT ![k].eof = TRUE]
            /\ walked' = TRUE
            /\ UNCHANGED <<busy, pending, woken, frames, vbd, proc>>
  <2>1. sock' = [sock EXCEPT ![k] = [sock[k] EXCEPT !.answers = << >>, !.eof = TRUE,
                                                    !.msg = sock[k].msg]]
    <3>1. [sock[k] EXCEPT !.eof = TRUE] =
             [sock[k] EXCEPT !.answers = << >>, !.eof = TRUE, !.msg = sock[k].msg]
      BY <1>4, <1>5 DEF SockRec
    <3>2. sock' = [sock EXCEPT ![k] = [sock[k] EXCEPT !.eof = TRUE]]
      BY <1>10
    <3> QED BY <3>1, <3>2
  <2>2. << >> \in Seq(Answer)
    OBVIOUS
  <2>3. Ending(k, << >>)
    BY <1>3, <1>4, <1>6, <2>1, <2>2, EndingIs
  <2>4. Closing(i, << >>)
    BY <1>1, <1>2, <1>10, <2>3 DEF Closing
  <2> QED BY <1>10, <2>4 DEF HungUp
<1> QED BY <1>7, <1>8, <1>9, <1>10 DEF ReadRequest

LEMMA PendedStep ==
  ASSUME IInv, NEW i \in Entries, conn[i].in, Pended(i)
  PROVE  IInv'
<1> DEFINE r == [conn[i] EXCEPT !.in = FALSE]
<1>1. TypeOK /\ ClientsOK /\ SocksOK /\ FreeOK /\ ConnsOK /\ PendingOK
  BY DEF IInv
<1>2. conn[i].sock # 0 /\ conn[i].out = << >> /\ ~Queued(i)
  BY <1>1 DEF ConnsOK
<1>3. Called(i)
  BY ReadCalled DEF Pended
<1>4. /\ Grown /\ sock'[conn[i].sock].msg = "read" /\ UNCHANGED <<cl, backlog>>
      /\ ~conn[i].running
  BY <1>3 DEF Called
<1>5. conn \in [Entries -> ConnRec] /\ conn[i] \in ConnRec /\ pending \in Seq(Entries)
  BY <1>1 DEF TypeOK
<1>6. r \in ConnRec /\ r.sock = conn[i].sock /\ ~r.in /\ r.out = << >> /\ ~r.running
  <2> SUFFICES ASSUME NEW x \in ConnRec
               PROVE  LET z == [x EXCEPT !.in = FALSE]
                      IN z \in ConnRec /\ z.sock = x.sock /\ ~z.in /\ z.out = x.out
                         /\ z.running = x.running
    BY <1>2, <1>4, <1>5
  <2> QED BY DEF ConnRec
<1>7. conn' = [conn EXCEPT ![i] = r]
  BY DEF Pended
<1> HIDE DEF r
<1>8. /\ conn' \in [Entries -> ConnRec] /\ \A j \in Entries : j # i => conn'[j] = conn[j]
      /\ conn'[i] = r /\ \A j \in Entries : conn'[j].sock = conn[j].sock
  BY <1>5, <1>6, <1>7
<1>9. /\ pending' \in Seq(Entries) /\ Elems(pending') = Elems(pending) \cup {i} /\ Distinct(pending')
      /\ i \notin woken
  <2>1. pending' = Append(pending, i)
    BY DEF Pended
  <2>2. i \notin Elems(pending) /\ i \notin woken
    BY <1>2 DEF Queued
  <2> QED BY <1>1, <1>5, <2>1, <2>2, AppendFacts DEF PendingOK
<1>10. /\ busy /\ Excl(sock[conn[i].sock].type)
       /\ UNCHANGED <<free, busy, woken, frames, vbd, proc>> /\ walked' = TRUE
  BY DEF Pended
<1>11. FreeOK'
  <2>1. Elems(free') = Elems(free) /\ (Distinct(free') <=> Distinct(free))
    BY <1>10
  <2> QED BY <1>1, <1>8, <2>1 DEF FreeOK
<1>12. \A l \in DOMAIN sock : Unanswered(sock, l) => Unanswered(sock', l)
  BY <1>4 DEF Unanswered, Grown
<1>13. \A l : Unanswered(sock, l) => l \in DOMAIN sock
  BY DEF Unanswered
<1>14. SocksOK'
  <2>1. Elems(backlog') = Elems(backlog) /\ (Distinct(backlog') <=> Distinct(backlog))
    BY <1>4
  <2> QED BY <1>1, <1>8, <1>12, <1>13, <2>1 DEF SocksOK
<1>15. \A j \in Entries : Queued(j)' <=> Queued(j) \/ j = i
  BY <1>9, <1>10 DEF Queued
<1>16. \A j \in Entries : conn[j].sock # 0 => sock'[conn[j].sock].type = sock[conn[j].sock].type
  BY <1>1, <1>4, <1>13 DEF SocksOK, Grown
<1>17. ConnsOK'
  <2> SUFFICES ASSUME NEW j \in Entries
               PROVE  /\ conn'[j].in => conn'[j].sock # 0 /\ conn'[j].out = << >> /\ ~Queued(j)'
                      /\ conn'[j].out # << >> => conn'[j].sock # 0 /\ ~Queued(j)'
                      /\ conn'[j].running => conn'[j].out = << >> /\ ~Queued(j)'
                      /\ conn'[j].running <=> \E l \in DOMAIN frames' : frames'[l].conn = j
                      /\ Queued(j)' => /\ conn'[j].sock # 0 /\ Excl(sock'[conn'[j].sock].type)
                                       /\ sock'[conn'[j].sock].msg = "read"
    BY DEF ConnsOK
  <2>1. (\E l \in DOMAIN frames' : frames'[l].conn = j) <=> \E l \in DOMAIN frames : frames[l].conn = j
    BY <1>10
  <2>2. CASE j = i
    <3>1. ~\E l \in DOMAIN frames : frames[l].conn = i
      BY <1>1, <1>4 DEF ConnsOK
    <3> QED BY <1>2, <1>4, <1>6, <1>8, <1>10, <1>16, <2>1, <2>2, <3>1
  <2>3. CASE j # i
    <3>1. conn'[j] = conn[j] /\ (Queued(j)' <=> Queued(j))
      BY <1>8, <1>15, <2>3
    <3>2. Queued(j) => /\ conn[j].sock # 0 /\ Excl(sock'[conn[j].sock].type)
                       /\ sock'[conn[j].sock].msg = "read"
      BY <1>1, <1>4, <1>13 DEF ConnsOK, SocksOK, Grown
    <3> QED BY <1>1, <2>1, <3>1, <3>2 DEF ConnsOK
  <2> QED BY <2>2, <2>3
<1>18. PendingOK'
  BY <1>1, <1>9, <1>10 DEF PendingOK
<1>19. FramesOK' /\ frames' \in Seq(FrameRec)
  BY <1>4, <1>10, FramesKept
<1>20. ClientsOK'
  BY <1>1, <1>4 DEF ClientsOK, Grown
<1>21. TypeOK'
  BY <1>1, <1>4, <1>8, <1>9, <1>10, <1>19 DEF TypeOK, Grown
<1> QED BY <1>11, <1>14, <1>17, <1>18, <1>19, <1>20, <1>21 DEF IInv

LEMMA ReadRequestStep ==
  ASSUME IInv, NEW i \in Entries, ReadRequest(i)
  PROVE  IInv'
<1>1. conn[i].in
  BY DEF ReadRequest
<1> QED BY <1>1, ReadRequestIs, ClosingStep, PendedStep, BeginStep DEF Refused, HungUp

LEMMA ProcessWokenIs ==
  ASSUME IInv, NEW i \in Entries, ProcessWoken(i)
  PROVE  Called(i) /\ (AtOnce(i) \/ Waiting(i)) /\ sock' = sock
<1>1. i \in woken /\ sock' = sock /\ UNCHANGED <<cl, backlog>> /\ Begin(i, conn[i].sock)
  BY DEF ProcessWoken, client
<1>2. Called(i)
  BY <1>1, WokenCalled
<1> QED BY <1>1, <1>2, BeginIs

LEMMA ProcessWokenStep ==
  ASSUME IInv, NEW i \in Entries, ProcessWoken(i)
  PROVE  IInv'
BY ProcessWokenIs, BeginStep

LEMMA SendAnswerIs ==
  ASSUME IInv, NEW i \in Entries, SendAnswer(i)
  PROVE  /\ conn[i].out # << >> /\ ~conn[i].running
         /\ \/ Closing(i, << >>)
            \/ Closing(i, conn[i].out)
<1> DEFINE k == conn[i].sock
           a == IF sock[k].hup THEN sock[k].answers ELSE sock[k].answers \o conn[i].out
<1>1. conn[i].out # << >>
  BY DEF SendAnswer
<1>2. k # 0 /\ ~Queued(i) /\ ~conn[i].running
  BY <1>1 DEF IInv, ConnsOK
<1>3. Unanswered(sock, k) /\ TypeOK
  BY <1>2 DEF IInv, SocksOK
<1>4. k \in DOMAIN sock /\ sock[k].answers = << >>
  BY <1>3 DEF Unanswered
<1>5. sock[k] \in SockRec /\ conn[i] \in ConnRec
  BY <1>3, <1>4 DEF TypeOK
<1>6. sock[k].msg \in {"unsent", "sent", "read"} /\ conn[i].out \in Seq(Answer)
  BY <1>5 DEF SockRec, ConnRec
<1>7. a \in Seq(Answer) /\ (a = << >> \/ a = conn[i].out)
  BY <1>4, <1>6
<1>8. sock' = [sock EXCEPT ![k] = [sock[k] EXCEPT !.answers = a, !.eof = TRUE]]
  BY DEF SendAnswer
<1> HIDE DEF a
<1>9. [sock[k] EXCEPT !.answers = a, !.eof = TRUE] =
         [sock[k] EXCEPT !.answers = a, !.eof = TRUE, !.msg = sock[k].msg]
  BY <1>5 DEF SockRec
<1>10. Ending(k, a)
  BY <1>3, <1>4, <1>6, <1>7, <1>8, <1>9, EndingIs
<1>11. Closing(i, a)
  BY <1>2, <1>10 DEF Closing, SendAnswer
<1> QED BY <1>1, <1>2, <1>7, <1>11

LEMMA SendAnswerStep ==
  ASSUME IInv, NEW i \in Entries, SendAnswer(i)
  PROVE  IInv'
BY SendAnswerIs, ClosingStep

-----------------------------------------------------------------------------
(* The event loop, the end of the process and the guest *)

LEMMA HandlerResumesIs ==
  ASSUME IInv, HandlerResumes
  PROVE  LET f == Last(frames)
         IN /\ frames # << >> /\ f \in FrameRec /\ f.conn \in Entries /\ f.sock \in Nat
            /\ conn[f.conn].running /\ conn[f.conn].out = << >> /\ ~Queued(f.conn)
            /\ Finish(f.conn, f.sock, ~Abandoned(f), TRUE) /\ (~Abandoned(f)) \in BOOLEAN
            /\ frames' = Front(frames) /\ walked' = TRUE /\ UNCHANGED <<cl, sock, backlog, proc>>
            /\ vbd' \in [Minors -> VbdRec]
            /\ f = frames[Len(frames)] /\ Len(frames) \in DOMAIN frames
<1> DEFINE f == Last(frames)
<1>1. /\ frames # << >> /\ Finish(f.conn, f.sock, ~Abandoned(f), TRUE)
      /\ frames' = Front(frames) /\ walked' = TRUE /\ UNCHANGED <<cl, sock, backlog, proc>>
      /\ vbd' = IF Abandoned(f) \/ vbd[f.minor].gen # f.gen THEN vbd
                ELSE [vbd EXCEPT ![f.minor] = Ended(f.type, vbd[f.minor])]
  BY DEF HandlerResumes, client
<1>2. (~Abandoned(f)) \in BOOLEAN
  OBVIOUS
<1>3. frames \in Seq(FrameRec) /\ vbd \in [Minors -> VbdRec] /\ ConnsOK
  BY DEF IInv, TypeOK
<1>4. f \in FrameRec /\ f = frames[Len(frames)] /\ Len(frames) \in DOMAIN frames
  BY <1>1, <1>3, FrontFacts
<1> HIDE DEF f
<1>5. f.conn \in Entries /\ f.sock \in Nat /\ f.type \in Waits /\ f.minor \in Minors
  BY <1>4 DEF FrameRec
<1>6. conn[f.conn].running /\ conn[f.conn].out = << >> /\ ~Queued(f.conn)
  BY <1>3, <1>4, <1>5 DEF ConnsOK
<1>7. Ended(f.type, vbd[f.minor]) \in VbdRec
  BY <1>3, <1>5, WaitTyped
<1>8. vbd' \in [Minors -> VbdRec]
  BY <1>1, <1>3, <1>5, <1>7
<1> QED BY <1>1, <1>2, <1>4, <1>5, <1>6, <1>8 DEF f

LEMMA HandlerResumesStep ==
  ASSUME IInv, HandlerResumes
  PROVE  IInv'
<1> DEFINE f  == Last(frames)
           ok == ~Abandoned(f)
<1>1. /\ frames # << >> /\ f \in FrameRec /\ f.conn \in Entries /\ f.sock \in Nat
      /\ conn[f.conn].running /\ conn[f.conn].out = << >> /\ ~Queued(f.conn)
      /\ Finish(f.conn, f.sock, ok, TRUE) /\ ok \in BOOLEAN
      /\ frames' = Front(frames) /\ walked' = TRUE /\ UNCHANGED <<cl, sock, backlog, proc>>
      /\ vbd' \in [Minors -> VbdRec]
      /\ f = frames[Len(frames)] /\ Len(frames) \in DOMAIN frames
  BY HandlerResumesIs
<1> HIDE DEF f, ok
<1>2. /\ frames \in Seq(FrameRec) /\ proc \in {"run", "stopping", "gone"} /\ ConnsOK /\ FramesOK
      /\ TypeOK
  BY DEF IInv, TypeOK
<1>3. /\ frames' \in Seq(FrameRec) /\ DOMAIN frames' = DOMAIN frames \ {Len(frames)}
      /\ \A j \in DOMAIN frames' : frames'[j] = frames[j]
  <2>1. frames \in Seq(FrameRec) /\ frames # << >> /\ frames' = Front(frames)
    BY <1>1, <1>2
  <2>2. /\ Front(frames) \in Seq(FrameRec) /\ DOMAIN Front(frames) = DOMAIN frames \ {Len(frames)}
        /\ \A j \in DOMAIN Front(frames) : Front(frames)[j] = frames[j]
    BY <2>1, FrontFacts
  <2> QED BY <2>1, <2>2
<1>4. FramesOK'
  BY <1>1, <1>2, <1>3 DEF FramesOK
<1>5. \A q \in Entries :
         (\E j \in DOMAIN frames' : frames'[j].conn = q) <=> q # f.conn /\ conn[q].running
  <2>1. \A q \in Entries : conn[q].running <=> \E j \in DOMAIN frames : frames[j].conn = q
    BY <1>2 DEF ConnsOK
  <2>2. \A j \in DOMAIN frames' : j \in DOMAIN frames /\ frames[j].conn # f.conn
    BY <1>1, <1>2, <1>3 DEF FramesOK
  <2>3. \A j \in DOMAIN frames : frames[j].conn # f.conn => j \in DOMAIN frames'
    BY <1>1, <1>3
  <2> QED BY <1>3, <2>1, <2>2, <2>3
<1>6. Grown
  BY <1>1, <1>2, SameGrown
<1>7. f.conn \notin Elems(pending)
  BY <1>1 DEF Queued
<1>8. walked' \in BOOLEAN /\ proc' \in {"run", "stopping", "gone"} /\ UNCHANGED <<cl, backlog>>
  BY <1>1, <1>2
<1>9. PICK i \in Entries, k \in Nat, o \in BOOLEAN, x \in BOOLEAN :
         i = f.conn /\ k = f.sock /\ o = ok /\ x = TRUE
  BY <1>1
<1>10. Finish(i, k, o, x) /\ x
  BY <1>1, <1>9
<1>11. /\ i \notin Elems(pending) /\ vbd' \in [Minors -> VbdRec]
       /\ \A q \in Entries : (\E j \in DOMAIN frames' : frames'[j].conn = q) <=> q # i /\ conn[q].running
  BY <1>1, <1>5, <1>7, <1>9
<1>12. x \/ (frames' = frames /\ i \notin woken)
  BY <1>10
<1>13. frames' \in Seq(FrameRec)
  BY <1>3
<1> QED BY <1>4, <1>6, <1>8, <1>10, <1>11, <1>12, <1>13, FinishStep

LEMMA NextWalkIs ==
  ASSUME IInv, NextWalk
  PROVE  /\ frames' \in Seq(FrameRec) /\ DOMAIN frames' = DOMAIN frames
         /\ \A j \in DOMAIN frames :
               /\ frames'[j].conn = frames[j].conn /\ frames'[j].sock = frames[j].sock
               /\ frames'[j].type = frames[j].type /\ Heeding(frames'[j])
         /\ (frames' = << >>) <=> (frames = << >>)
<1>1. frames \in Seq(FrameRec) /\ DOMAIN frames = 1 .. Len(frames) /\ Len(frames) \in Nat
  BY DEF IInv, TypeOK
<1> DEFINE st(j) == StageOf(frames[j].stage, vbd[frames[j].minor], frames[j].minor)
           g(j)  == IF j # Len(frames) THEN frames[j] ELSE [frames[j] EXCEPT !.stage = st(j)]
<1>2. frames' = [j \in 1 .. Len(frames) |-> g(j)]
  BY <1>1 DEF NextWalk
<1>3. ASSUME NEW j \in 1 .. Len(frames)
      PROVE  /\ g(j) \in FrameRec /\ g(j).conn = frames[j].conn /\ g(j).sock = frames[j].sock
             /\ g(j).type = frames[j].type /\ Heeding(g(j))
  <2>1. frames[j] \in FrameRec /\ Heeding(frames[j])
    BY <1>1 DEF IInv, FramesOK
  <2>2. CASE j # Len(frames)
    BY <2>1, <2>2
  <2>3. CASE j = Len(frames)
    <3>1. st(j) # "done"
      BY <1>1, <2>3 DEF NextWalk, Ready, Last
    <3>2. /\ st(j) \in Stages
          /\ frames[j].type = "pause" => st(j) = "pause"
          /\ frames[j].type = "force" /\ frames[j].minor \in Ioctl => st(j) = "device"
      BY <2>1, <3>1 DEF Heeding, StageOf, Stages, FrameRec
    <3>3. ASSUME NEW x \in FrameRec, NEW t \in Stages
          PROVE  LET z == [x EXCEPT !.stage = t]
                 IN /\ z \in FrameRec /\ z.conn = x.conn /\ z.sock = x.sock /\ z.type = x.type
                    /\ z.minor = x.minor /\ z.stage = t
      BY DEF FrameRec
    <3> HIDE DEF st
    <3> QED BY <2>1, <2>3, <3>2, <3>3 DEF Heeding
  <2> QED BY <2>2, <2>3
<1> HIDE DEF g
<1>4. frames' \in Seq(FrameRec) /\ DOMAIN frames' = 1 .. Len(frames) /\ Len(frames') = Len(frames)
  BY <1>1, <1>2, <1>3
<1>5. (frames' = << >>) <=> (frames = << >>)
  BY <1>1, <1>4
<1> QED BY <1>1, <1>2, <1>3, <1>4, <1>5

LEMMA NextWalkStep ==
  ASSUME IInv, NextWalk
  PROVE  IInv'
<1>1. /\ frames' \in Seq(FrameRec) /\ DOMAIN frames' = DOMAIN frames
      /\ \A j \in DOMAIN frames :
            /\ frames'[j].conn = frames[j].conn /\ frames'[j].sock = frames[j].sock
            /\ frames'[j].type = frames[j].type /\ Heeding(frames'[j])
      /\ (frames' = << >>) <=> (frames = << >>)
  BY NextWalkIs
<1>2. /\ UNCHANGED <<cl, sock, backlog, conn, free, busy, pending, woken, vbd, proc>>
      /\ walked' = FALSE
  BY DEF NextWalk, client
<1>3. TypeOK'
  BY <1>1, <1>2 DEF IInv, TypeOK
<1>4. ClientsOK' /\ SocksOK' /\ FreeOK'
  BY <1>2 DEF IInv, ClientsOK, SocksOK, FreeOK, Elems, Distinct, Unanswered
<1>5. \A i \in Entries : Queued(i)' <=> Queued(i)
  BY <1>2 DEF Queued, Elems
<1>6. \A i \in Entries : (\E j \in DOMAIN frames' : frames'[j].conn = i) <=>
                         (\E j \in DOMAIN frames : frames[j].conn = i)
  BY <1>1
<1>7. ConnsOK'
  BY <1>2, <1>5, <1>6 DEF IInv, ConnsOK
<1>8. PendingOK'
  BY <1>1, <1>2 DEF IInv, PendingOK, Elems, Distinct
<1>9. FramesOK'
  BY <1>1, <1>2 DEF IInv, FramesOK
<1> QED BY <1>3, <1>4, <1>7, <1>8, <1>9 DEF IInv

\* What tapdisk_control_close does to a connection.
LEMMA ExitIs ==
  ASSUME IInv, Exit
  PROVE  /\ sock' \in Seq(SockRec) /\ DOMAIN sock' = DOMAIN sock
         /\ \A k \in DOMAIN sock :
               /\ sock'[k].type = sock[k].type /\ sock'[k].hup = sock[k].hup
               /\ sock'[k].eof = TRUE \/ sock'[k].eof = sock[k].eof
               /\ \/ sock'[k].answers = sock[k].answers
                  \/ \E i \in Entries : /\ conn[i].sock = k
                                        /\ sock'[k].answers = sock[k].answers \o conn[i].out
<1> DEFINE owner(k) == {i \in DOMAIN conn : conn[i].sock = k}
           a(k)     == IF owner(k) = {} \/ sock[k].hup THEN sock[k].answers
                       ELSE sock[k].answers \o conn[CHOOSE i \in owner(k) : TRUE].out
           r(k)     == IF owner(k) = {} /\ ~Contains(backlog, k) THEN sock[k]
                       ELSE [sock[k] EXCEPT !.eof = TRUE, !.answers = a(k)]
<1>1. /\ sock \in Seq(SockRec) /\ DOMAIN sock = 1 .. Len(sock) /\ Len(sock) \in Nat
      /\ conn \in [Entries -> ConnRec]
  BY DEF IInv, TypeOK
<1>2. sock' = [k \in 1 .. Len(sock) |-> r(k)]
  BY <1>1 DEF Exit
<1>3. ASSUME NEW k \in DOMAIN sock
      PROVE  /\ r(k) \in SockRec /\ r(k).type = sock[k].type /\ r(k).hup = sock[k].hup
             /\ r(k).eof = TRUE \/ r(k).eof = sock[k].eof
             /\ \/ r(k).answers = sock[k].answers
                \/ \E i \in Entries : conn[i].sock = k /\ r(k).answers = sock[k].answers \o conn[i].out
  <2>1. sock[k] \in SockRec
    BY <1>1
  <2>2. sock[k].answers \in Seq(Answer)
    BY <2>1 DEF SockRec
  <2>3. a(k) \in Seq(Answer) /\ \/ a(k) = sock[k].answers
                                \/ \E i \in Entries : /\ conn[i].sock = k
                                                      /\ a(k) = sock[k].answers \o conn[i].out
    <3>1. CASE owner(k) = {} \/ sock[k].hup
      BY <2>2, <3>1
    <3>2. CASE ~(owner(k) = {} \/ sock[k].hup)
      <4> DEFINE i == CHOOSE i \in owner(k) : TRUE
      <4>1. i \in owner(k)
        BY <3>2
      <4>2. i \in Entries /\ conn[i].sock = k
        BY <1>1, <4>1
      <4>3. a(k) = sock[k].answers \o conn[i].out
        BY <3>2
      <4> HIDE DEF i, a
      <4>4. conn[i].out \in Seq(Answer)
        BY <1>1, <4>2 DEF ConnRec
      <4>5. a(k) \in Seq(Answer)
        BY <2>2, <4>3, <4>4
      <4> QED BY <4>2, <4>3, <4>5
    <3> QED BY <3>1, <3>2
  <2> HIDE DEF a
  <2>5. CASE owner(k) = {} /\ ~Contains(backlog, k)
    BY <2>1, <2>5
  <2>6. CASE ~(owner(k) = {} /\ ~Contains(backlog, k))
    <3>1. r(k) = [sock[k] EXCEPT !.eof = TRUE, !.answers = a(k)]
      BY <2>6
    <3> HIDE DEF r
    <3>2. r(k) \in SockRec /\ r(k).type = sock[k].type /\ r(k).hup = sock[k].hup /\ r(k).eof = TRUE
          /\ r(k).answers = a(k)
      <4>1. PICK x \in SockRec, b \in Seq(Answer) : x = sock[k] /\ b = a(k)
        BY <2>1, <2>3
      <4> DEFINE z == [x EXCEPT !.eof = TRUE, !.answers = b]
      <4>2. r(k) = z
        BY <3>1, <4>1
      <4>3. /\ z \in SockRec /\ z.type = x.type /\ z.hup = x.hup /\ z.eof = TRUE
            /\ z.answers = b
        BY DEF SockRec
      <4> HIDE DEF z
      <4> QED BY <4>1, <4>2, <4>3
    <3> QED BY <2>3, <3>2
  <2> QED BY <2>5, <2>6
<1> HIDE DEF r
<1>4. sock' \in Seq(SockRec) /\ DOMAIN sock' = DOMAIN sock /\ \A k \in DOMAIN sock : sock'[k] = r(k)
  <2>1. \A k \in 1 .. Len(sock) : r(k) \in SockRec
    BY <1>1, <1>3
  <2> QED BY <1>1, <1>2, <2>1
<1> QED BY <1>3, <1>4, ZenonT(40)

\* The table of a process that has just started, or has ended.
LEMMA FreshTable ==
  /\ [i \in Entries |-> i] \in Seq(Entries) /\ Distinct([i \in Entries |-> i])
  /\ Elems([i \in Entries |-> i]) = Entries
  /\ [i \in Entries |-> NoConn] \in [Entries -> ConnRec]
<1>1. MaxConn \in Nat
  BY ConstantsAssumption
<1>2. [i \in Entries |-> i] \in Seq(Entries)
  BY <1>1 DEF Entries
<1>3. NoConn \in ConnRec
  BY EntryIs
<1> QED BY <1>2, <1>3 DEF Distinct, Elems

\* All entries unused, nothing waiting.
LEMMA EmptyTable ==
  ASSUME free = [i \in Entries |-> i], conn = [i \in Entries |-> NoConn], backlog = << >>,
         pending = << >>, woken = {}, frames = << >>, busy = FALSE
  PROVE  SocksOK /\ FreeOK /\ ConnsOK /\ PendingOK /\ FramesOK
<1>1. \A i \in Entries : /\ conn[i].sock = 0 /\ conn[i].in = FALSE /\ conn[i].out = << >>
                         /\ conn[i].running = FALSE
  BY EntryIs
<1>2. Elems(<< >>) = {} /\ Distinct(<< >>)
  BY DEF Elems, Distinct
<1>3. SocksOK
  BY <1>1, <1>2 DEF SocksOK
<1>4. FreeOK
  BY <1>1, FreshTable DEF FreeOK
<1>5. \A i \in Entries : ~Queued(i)
  BY <1>2 DEF Queued
<1>6. ConnsOK
  BY <1>1, <1>5 DEF ConnsOK
<1> QED BY <1>2, <1>3, <1>4, <1>6 DEF PendingOK, FramesOK

LEMMA ExitStep ==
  ASSUME IInv, Exit
  PROVE  IInv'
<1>1. /\ sock' \in Seq(SockRec) /\ DOMAIN sock' = DOMAIN sock
      /\ \A k \in DOMAIN sock : sock'[k].type = sock[k].type
  BY ExitIs
<1>2. TypeOK /\ ClientsOK /\ PendingOK /\ DOMAIN conn = Entries
  BY DEF IInv, TypeOK
<1>3. /\ free' = [i \in Entries |-> i] /\ conn' = [i \in Entries |-> NoConn] /\ backlog' = << >>
      /\ pending' = << >> /\ woken' = {} /\ frames' = << >> /\ frames = << >> /\ proc' = "gone"
      /\ UNCHANGED <<cl, busy, walked, vbd>>
  BY <1>2 DEF Exit
<1>4. busy' = FALSE
  BY <1>2, <1>3 DEF PendingOK, TypeOK
<1>5. (SocksOK /\ FreeOK /\ ConnsOK /\ PendingOK /\ FramesOK)'
  <2>1. \A i \in Entries : /\ conn'[i].sock = 0 /\ conn'[i].in = FALSE /\ conn'[i].out = << >>
                           /\ conn'[i].running = FALSE
    BY <1>3, EntryIs
  <2>2. Elems(<< >>) = {} /\ Distinct(<< >>)
    BY DEF Elems, Distinct
  <2>3. SocksOK'
    BY <1>3, <2>1, <2>2 DEF SocksOK
  <2>4. FreeOK'
    BY <1>3, <2>1, FreshTable DEF FreeOK
  <2>5. \A i \in Entries : ~Queued(i)'
    BY <1>3, <2>2 DEF Queued
  <2>6. ConnsOK'
    BY <1>3, <2>1, <2>5 DEF ConnsOK
  <2> QED BY <1>3, <1>4, <2>2, <2>3, <2>4, <2>6 DEF PendingOK, FramesOK
<1>6. ClientsOK'
  BY <1>1, <1>2, <1>3 DEF ClientsOK
<1>7. TypeOK'
  BY <1>1, <1>2, <1>3, FreshTable DEF TypeOK
<1> QED BY <1>5, <1>6, <1>7 DEF IInv

LEMMA GuestStep ==
  ASSUME IInv, NEW m \in Minors, IoStart(m) \/ IoDone(m) \/ DeviceClosed(m)
  PROVE  IInv'
<1>1. vbd \in [Minors -> VbdRec] /\ vbd[m] \in VbdRec
  BY DEF IInv, TypeOK
<1>2. UNCHANGED <<cl, sock, backlog, conn, free, busy, pending, woken, frames, walked, proc>>
  BY DEF IoStart, IoDone, DeviceClosed, client, server
<1>3. vbd' \in [Minors -> VbdRec]
  <2>1. ASSUME NEW x \in VbdRec
        PROVE  /\ [x EXCEPT !.io = TRUE] \in VbdRec /\ [x EXCEPT !.io = FALSE] \in VbdRec
               /\ [x EXCEPT !.dev = FALSE] \in VbdRec
    BY DEF VbdRec
  <2>2. PICK v \in VbdRec : vbd' = [vbd EXCEPT ![m] = v]
    BY <1>1, <2>1 DEF IoStart, IoDone, DeviceClosed
  <2> QED BY <1>1, <2>2
<1>4. TypeOK'
  BY <1>2, <1>3 DEF IInv, TypeOK
<1>5. ClientsOK' /\ SocksOK' /\ FreeOK' /\ PendingOK' /\ FramesOK'
  BY <1>2 DEF IInv, ClientsOK, SocksOK, FreeOK, PendingOK, FramesOK, Elems, Distinct, Unanswered
<1>6. \A i \in Entries : Queued(i)' <=> Queued(i)
  BY <1>2 DEF Queued, Elems
<1>7. ConnsOK'
  BY <1>2, <1>6 DEF IInv, ConnsOK
<1> QED BY <1>4, <1>5, <1>7 DEF IInv

-----------------------------------------------------------------------------
(* The connections are conserved *)

LEMMA InitInv ==
  ASSUME Init
  PROVE  IInv
<1>1. PICK p \in Programs :
         cl = [c \in Clients |-> [todo |-> p[c], op |-> "none", pc |-> "none", minor |-> "none",
                                  sock |-> 0, res |-> "none"]]
  BY DEF Init
<1>2. p \in [Clients -> Seq(Command)]
  BY ConstantsAssumption DEF Command
<1>3. cl \in [Clients -> ClientRec] /\ \A c \in Clients : cl[c].pc = "none" /\ cl[c].sock = 0
  <2>1. ASSUME NEW c \in Clients
        PROVE  [todo |-> p[c], op |-> "none", pc |-> "none", minor |-> "none", sock |-> 0,
                res |-> "none"] \in ClientRec
    <3>1. p[c] \in Seq(Command)
      BY <1>2
    <3> QED BY <3>1 DEF ClientRec
  <2> QED BY <1>1, <2>1
<1>4. ClientsOK
  BY <1>3 DEF ClientsOK
<1>5. /\ free = [i \in Entries |-> i] /\ conn = [i \in Entries |-> NoConn] /\ backlog = << >>
      /\ pending = << >> /\ woken = {} /\ frames = << >> /\ busy = FALSE /\ sock = << >>
      /\ walked = FALSE /\ proc = "run"
  BY DEF Init, Entries
<1>6. SocksOK /\ FreeOK /\ ConnsOK /\ PendingOK /\ FramesOK
  BY <1>5, EmptyTable
<1>7. vbd \in [Minors -> VbdRec]
  <2>1. PICK opened \in Starts, dev \in BOOLEAN :
           vbd = [m \in Minors |->
                     IF m \in opened
                     THEN [NoVbd EXCEPT !.st = "open", !.ring = TRUE, !.dev = dev /\ m \in Ioctl,
                                         !.gen = 1]
                     ELSE NoVbd]
    BY DEF Init
  <2>2. ASSUME NEW b \in BOOLEAN
        PROVE  [NoVbd EXCEPT !.st = "open", !.ring = TRUE, !.dev = b, !.gen = 1] \in VbdRec
    <3>1. ASSUME NEW x \in VbdRec
          PROVE  [x EXCEPT !.st = "open", !.ring = TRUE, !.dev = b, !.gen = 1] \in VbdRec
      BY DEF VbdRec
    <3> QED BY <3>1, NoVbdTyped
  <2>3. \A m \in Minors : (dev /\ m \in Ioctl) \in BOOLEAN
    OBVIOUS
  <2>4. ASSUME NEW m \in Minors
        PROVE  [NoVbd EXCEPT !.st = "open", !.ring = TRUE, !.dev = dev /\ m \in Ioctl, !.gen = 1]
                  \in VbdRec
    BY <2>2, <2>3
  <2> QED BY <2>1, <2>4, NoVbdTyped
<1>8. TypeOK
  <2>1. /\ sock \in Seq(SockRec) /\ backlog \in Seq(Nat) /\ pending \in Seq(Entries)
        /\ frames \in Seq(FrameRec)
    BY <1>5
  <2>2. conn \in [Entries -> ConnRec] /\ free \in Seq(Entries)
    BY <1>5, FreshTable
  <2> QED BY <1>3, <1>5, <1>7, <2>1, <2>2 DEF TypeOK
<1> QED BY <1>4, <1>6, <1>8 DEF IInv

LEMMA StepInv ==
  ASSUME IInv, [Next]_vars
  PROVE  IInv'
<1>1. CASE UNCHANGED vars
  <2>1. UNCHANGED <<cl, sock, backlog, conn, free, busy, pending, woken, frames, walked, vbd, proc>>
    BY <1>1 DEF vars
  <2>2. TypeOK' /\ ClientsOK' /\ SocksOK' /\ FreeOK' /\ PendingOK' /\ FramesOK'
    BY <2>1 DEF IInv, TypeOK, ClientsOK, SocksOK, FreeOK, PendingOK, FramesOK, Elems, Distinct,
                Unanswered
  <2>3. \A i \in Entries : Queued(i)' <=> Queued(i)
    BY <2>1 DEF Queued, Elems
  <2>4. ConnsOK'
    BY <2>1, <2>3 DEF IInv, ConnsOK
  <2> QED BY <2>2, <2>4 DEF IInv
<1>2. ASSUME NEW c \in Clients, ClientStep(c) \/ GiveUp(c)
      PROVE  IInv'
  BY <1>2, StartCommandStep, AllocateStep, FreeStep, ConnectStep, SendStep, ReceiveStep, GiveUpStep
     DEF ClientStep
<1>3. ASSUME NEW i \in Entries, ConnStep(i)
      PROVE  IInv'
  BY <1>3, ReadRequestStep, ProcessWokenStep, SendAnswerStep DEF ConnStep
<1> QED BY <1>1, <1>2, <1>3, AcceptStep, HandlerResumesStep, NextWalkStep, ExitStep, GuestStep
        DEF Next, Entries

\* Whatever clients do and however they end, no entry of the server's table of connections is
\* leaked or handed out twice, and a command on the pending list has a handler or a woken
\* connection that will take it off: tapdisk_ctl_conn_open, tapdisk_ctl_conn_close and the end
\* of tapdisk_control_process_request, nested handlers included.
THEOREM ConnectionsConserved == Spec => [](EntriesConserved /\ NoStrandedCommand)
<1>1. Init => IInv
  BY InitInv
<1>2. IInv /\ [Next]_vars => IInv'
  BY StepInv
<1>3. IInv => EntriesConserved /\ NoStrandedCommand
  BY DEF IInv, FreeOK, PendingOK, Distinct, Elems, EntriesConserved, NoStrandedCommand, Entries
<1> QED BY <1>1, <1>2, <1>3, PTL DEF Spec

-----------------------------------------------------------------------------
(* A client is given the answer to its own message *)

\* A handler that is left alone with its entry is one of a call that clients give up, and
\* then it is the only one.
Alone(B) == Deaf \subseteq B /\ (Waits \subseteq B \/ Len(frames) <= 1)

\* A connection that is answered later than its client has asked.
LEMMA NewAnswers ==
  ASSUME RightAnswer, DOMAIN sock' = DOMAIN sock,
         \A k \in DOMAIN sock : sock'[k].answers = sock[k].answers
  PROVE  RightAnswer'
BY DEF RightAnswer

LEMMA ClientRight ==
  ASSUME NEW B, RInv(B), NotGivenUp(B)', HupOK(B)', RightAnswer', UNCHANGED <<conn, frames, walked>>
  PROVE  RInv(B)'
<1>1. Served(B)'
  BY DEF RInv, Served, Kept, Left
<1>2. OutRight'
  BY DEF RInv, OutRight
<1> QED BY <1>1, <1>2 DEF RInv

\* What a client does next is part of what it had to do.
LEMMA SameCommand ==
  ASSUME NEW B, NotGivenUp(B),
         \A c \in GivesUp : /\ cl'[c].todo = cl[c].todo /\ cl'[c].op = cl[c].op
                            /\ cl'[c].pc # "none" => cl[c].pc # "none"
  PROVE  NotGivenUp(B)'
BY DEF NotGivenUp

LEMMA ReturnedCommand ==
  ASSUME NEW B, IInv, NotGivenUp(B), NEW c \in Clients, cl[c].pc # "none", NEW ok \in BOOLEAN,
         cl' = Returned(c, ok)
  PROVE  NotGivenUp(B)'
<1>1. /\ \A d \in Clients : d # c => cl'[d] = cl[d]
      /\ cl'[c].op = cl[c].op /\ cl'[c].todo = cl[c].todo
  BY ReturnedIs DEF IInv
<1>2. GivesUp \subseteq Clients
  BY ConstantsAssumption
<1> QED BY <1>1, <1>2, SameCommand

LEMMA SameSock ==
  ASSUME NEW B, RInv(B), sock' = sock
  PROVE  HupOK(B)' /\ RightAnswer'
BY DEF RInv, HupOK, RightAnswer

LEMMA StartCommandRight ==
  ASSUME NEW B, IInv, RInv(B), NEW c \in Clients, StartCommand(c)
  PROVE  RInv(B)'
<1>1. /\ \A d \in Clients : d # c => cl'[d] = cl[d]
      /\ cl[c].todo # << >> /\ cl'[c].todo = Tail(cl[c].todo)
      /\ cl'[c].op = Head(cl[c].todo).op
  BY StartCommandIs
<1>2. UNCHANGED <<conn, frames, walked>> /\ sock' = sock
  BY DEF StartCommand, server
<1>3. cl[c].todo \in Seq(Command)
  BY DEF IInv, TypeOK, ClientRec
<1>4. NotGivenUp(B)'
  <2>1. ASSUME c \in GivesUp
        PROVE  /\ \A i \in DOMAIN cl'[c].todo : CallsOf(cl'[c].todo[i].op) \cap B = {}
               /\ CallsOf(cl'[c].op) \cap B = {}
    <3>1. \A i \in DOMAIN cl[c].todo : CallsOf(cl[c].todo[i].op) \cap B = {}
      BY <2>1 DEF RInv, NotGivenUp
    <3> DEFINE q == cl[c].todo
    <3>2. /\ 1 \in DOMAIN q /\ Head(q) = q[1]
          /\ \A i \in DOMAIN Tail(q) : i + 1 \in DOMAIN q /\ Tail(q)[i] = q[i + 1]
      BY <1>1, <1>3
    <3> HIDE DEF q
    <3>3. CallsOf(Head(q).op) \cap B = {}
      BY <3>1, <3>2 DEF q
    <3>4. \A i \in DOMAIN Tail(q) : CallsOf(Tail(q)[i].op) \cap B = {}
      BY <3>1, <3>2 DEF q
    <3> QED BY <1>1, <3>3, <3>4 DEF q
  <2>2. GivesUp \subseteq Clients
    BY ConstantsAssumption
  <2> QED BY <1>1, <2>1, <2>2 DEF RInv, NotGivenUp
<1> QED BY <1>2, <1>4, SameSock, ClientRight

LEMMA KernelRight ==
  ASSUME NEW B, IInv, RInv(B), NEW c \in Clients, Allocate(c) \/ Free(c)
  PROVE  RInv(B)'
<1>1. UNCHANGED <<conn, frames, walked>> /\ sock' = sock /\ cl[c].pc # "none"
  BY DEF Allocate, Free, server
<1>2. \E ok \in BOOLEAN : cl' = Returned(c, ok)
  BY DEF Allocate, Free
<1>3. NotGivenUp(B)
  BY DEF RInv
<1>4. NotGivenUp(B)'
  BY <1>1, <1>2, <1>3, ReturnedCommand
<1> QED BY <1>1, <1>4, SameSock, ClientRight

LEMMA ConnectRight ==
  ASSUME NEW B, IInv, RInv(B), NEW c \in Clients, Connect(c)
  PROVE  RInv(B)'
<1>1. UNCHANGED <<conn, frames, walked>> /\ cl[c].pc # "none" /\ NotGivenUp(B)
  BY DEF Connect, Calls, RInv
<1>2. CASE proc = "gone" /\ cl' = Returned(c, FALSE) /\ UNCHANGED <<sock, backlog>>
  <2>1. NotGivenUp(B)'
    BY <1>1, <1>2, ReturnedCommand
  <2> QED BY <1>1, <1>2, <2>1, SameSock, ClientRight
<1>3. CASE ~(proc = "gone" /\ cl' = Returned(c, FALSE) /\ UNCHANGED <<sock, backlog>>)
  <2> DEFINE rec == [client |-> c, type |-> cl[c].pc, minor |-> cl[c].minor, msg |-> "unsent",
                     hup |-> FALSE, eof |-> FALSE, answers |-> << >>]
             n   == Len(sock) + 1
  <2>1. sock' = Append(sock, rec) /\ cl' = [cl EXCEPT ![c].sock = Len(sock')]
    BY <1>3 DEF Connect
  <2>2. cl \in [Clients -> ClientRec] /\ sock \in Seq(SockRec) /\ GivesUp \subseteq Clients
    BY ConstantsAssumption DEF IInv, TypeOK
  <2>3. NotGivenUp(B)'
    <3>1. ASSUME NEW x \in ClientRec, NEW l
          PROVE  LET z == [x EXCEPT !.sock = l]
                 IN z.todo = x.todo /\ z.op = x.op /\ z.pc = x.pc
      BY DEF ClientRec
    <3>2. cl[c] \in ClientRec
      BY <2>2
    <3>3. cl'[c] = [cl[c] EXCEPT !.sock = Len(sock')] /\ \A d \in Clients : d # c => cl'[d] = cl[d]
      BY <2>1, <2>2
    <3>4. cl'[c].todo = cl[c].todo /\ cl'[c].op = cl[c].op /\ cl'[c].pc = cl[c].pc
      BY <3>1, <3>2, <3>3
    <3> QED BY <1>1, <2>2, <3>3, <3>4, SameCommand
  <2>4. rec.hup = FALSE /\ rec.answers = << >>
    OBVIOUS
  <2> HIDE DEF rec
  <2>5. /\ DOMAIN sock' = DOMAIN sock \cup {n} /\ sock'[n] = rec
        /\ \A k \in DOMAIN sock : sock'[k] = sock[k]
    BY <2>1, <2>2
  <2> HIDE DEF n
  <2>6. HupOK(B)'
    BY <2>4, <2>5 DEF RInv, HupOK
  <2>7. RightAnswer'
    BY <2>4, <2>5 DEF RInv, RightAnswer
  <2> QED BY <1>1, <2>3, <2>6, <2>7, ClientRight
<1> QED BY <1>2, <1>3

LEMMA SendRight ==
  ASSUME NEW B, IInv, RInv(B), NEW c \in Clients, Send(c)
  PROVE  RInv(B)'
<1> DEFINE k == cl[c].sock
           z == [sock[k] EXCEPT !.msg = "sent"]
<1>1. k # 0 /\ cl' = cl /\ sock' = [sock EXCEPT ![k] = z] /\ UNCHANGED <<conn, frames, walked>>
  BY DEF Send, server
<1>2. k \in DOMAIN sock /\ sock \in Seq(SockRec)
  BY <1>1 DEF IInv, TypeOK, ClientsOK
<1>3. /\ z.hup = sock[k].hup /\ z.type = sock[k].type /\ z.eof = sock[k].eof
      /\ z.answers = sock[k].answers
  <2>1. sock[k] \in SockRec
    BY <1>2
  <2> QED BY <2>1 DEF SockRec
<1> HIDE DEF z, k
<1>4. DOMAIN sock' = DOMAIN sock /\ sock'[k] = z /\ \A l \in DOMAIN sock : l # k => sock'[l] = sock[l]
  BY <1>1, <1>2
<1>5. NotGivenUp(B)'
  BY <1>1 DEF RInv, NotGivenUp
<1>6. HupOK(B)'
  BY <1>3, <1>4 DEF RInv, HupOK
<1>7. \A l \in DOMAIN sock : sock'[l].answers = sock[l].answers
  BY <1>3, <1>4
<1>8. RightAnswer'
  BY <1>4, <1>7, NewAnswers DEF RInv
<1> QED BY <1>1, <1>5, <1>6, <1>8, ClientRight

\* A client leaves the connection k: it has been answered, or nobody of a call of B leaves.
LEMMA LeaveRight ==
  ASSUME NEW B, IInv, RInv(B), NEW k \in DOMAIN sock, sock' = [sock EXCEPT ![k].hup = TRUE],
         sock[k].type \in B => sock[k].eof \/ sock[k].answers # << >>
  PROVE  HupOK(B)' /\ RightAnswer'
<1> DEFINE z == [sock[k] EXCEPT !.hup = TRUE]
<1>1. sock' = [sock EXCEPT ![k] = z] /\ sock \in Seq(SockRec) /\ sock[k] \in SockRec
  BY DEF IInv, TypeOK
<1>2. z.type = sock[k].type /\ z.eof = sock[k].eof /\ z.answers = sock[k].answers
  BY <1>1 DEF SockRec
<1> HIDE DEF z
<1>3. DOMAIN sock' = DOMAIN sock /\ sock'[k] = z /\ \A l \in DOMAIN sock : l # k => sock'[l] = sock[l]
  BY <1>1
<1>4. HupOK(B)'
  BY <1>2, <1>3 DEF RInv, HupOK
<1>5. \A l \in DOMAIN sock : sock'[l].answers = sock[l].answers
  BY <1>2, <1>3
<1> QED BY <1>3, <1>4, <1>5, NewAnswers DEF RInv

LEMMA ReceiveRight ==
  ASSUME NEW B, IInv, RInv(B), NEW c \in Clients, Receive(c)
  PROVE  RInv(B)'
<1> DEFINE k == cl[c].sock
<1>1. /\ k # 0 /\ sock' = [sock EXCEPT ![k].hup = TRUE] /\ UNCHANGED <<conn, frames, walked>>
      /\ sock[k].answers # << >> \/ sock[k].eof
      /\ \E ok \in BOOLEAN : cl' = Returned(c, ok)
  BY DEF Receive, server
<1>2. k \in DOMAIN sock
  BY <1>1 DEF IInv, ClientsOK
<1>3. cl[c].pc # "none" /\ NotGivenUp(B)
  BY <1>1, NoCallNoSock DEF Calls, RInv
<1>4. NotGivenUp(B)'
  BY <1>1, <1>3, ReturnedCommand
<1>5. HupOK(B)' /\ RightAnswer'
  BY <1>1, <1>2, LeaveRight
<1> QED BY <1>1, <1>4, <1>5, ClientRight

LEMMA GiveUpRight ==
  ASSUME NEW B, IInv, RInv(B), NEW c \in Clients, GiveUp(c)
  PROVE  RInv(B)'
<1> DEFINE k == cl[c].sock
<1>1. /\ c \in GivesUp /\ k # 0 /\ sock' = [sock EXCEPT ![k].hup = TRUE]
      /\ UNCHANGED <<conn, frames, walked>>
      /\ cl' = [cl EXCEPT ![c].pc = "none", ![c].sock = 0, ![c].res = "error"]
  BY DEF GiveUp, server
<1>2. k \in DOMAIN sock /\ sock[k].type = cl[c].pc
  BY <1>1 DEF IInv, ClientsOK
<1>3. cl[c].pc # "none"
  BY <1>1, NoCallNoSock DEF Calls
<1>4. cl[c].pc \in CallsOf(cl[c].op) /\ CallsOf(cl[c].op) \cap B = {}
  BY <1>1, <1>3 DEF IInv, ClientsOK, RInv, NotGivenUp
<1>5. sock[k].type \notin B
  BY <1>2, <1>4
<1>6. HupOK(B)' /\ RightAnswer'
  BY <1>1, <1>2, <1>5, LeaveRight
<1>7. cl \in [Clients -> ClientRec] /\ GivesUp \subseteq Clients /\ NotGivenUp(B)
  BY ConstantsAssumption DEF IInv, TypeOK, RInv
<1>8. NotGivenUp(B)'
  <2>1. PICK x \in ClientRec : x = cl[c]
    BY <1>7
  <2> DEFINE z == [x EXCEPT !.pc = "none", !.sock = 0, !.res = "error"]
  <2>2. z.todo = x.todo /\ z.op = x.op /\ z.pc = "none"
    BY DEF ClientRec
  <2>3. cl'[c] = z /\ \A d \in Clients : d # c => cl'[d] = cl[d]
    BY <1>1, <1>7, <2>1
  <2> HIDE DEF z
  <2> QED BY <1>7, <2>1, <2>2, <2>3, SameCommand
<1> QED BY <1>1, <1>6, <1>8, ClientRight

\* A handler that is waiting.
LEMMA FrameIs ==
  ASSUME IInv, NEW j \in DOMAIN frames
  PROVE  /\ frames[j].conn \in Entries /\ frames[j].type \in Waits /\ frames[j].minor \in Minors
         /\ Len(frames) \in Nat /\ Len(frames) # 0 /\ j \in 1 .. Len(frames) /\ frames # << >>
<1>1. frames \in Seq(FrameRec)
  BY DEF IInv, TypeOK
<1>2. frames[j] \in FrameRec
  BY <1>1
<1>3. Len(frames) \in Nat /\ DOMAIN frames = 1 .. Len(frames)
  BY <1>1
<1> QED BY <1>2, <1>3 DEF FrameRec

\* The handler of a connection that is not being read from is another's.
LEMMA AcceptRight ==
  ASSUME NEW B, IInv, RInv(B), Accept
  PROVE  RInv(B)'
<1> DEFINE i == Head(free)
           k == Head(backlog)
           r == [NoConn EXCEPT !.sock = k, !.in = TRUE, !.running = conn[i].running]
<1>1. /\ backlog # << >> /\ free # << >> /\ conn' = [conn EXCEPT ![i] = r] /\ ~walked
      /\ UNCHANGED <<cl, sock, frames>>
  BY DEF Accept, client
<1>2. /\ conn \in [Entries -> ConnRec] /\ free \in Seq(Entries) /\ backlog \in Seq(Nat)
      /\ FreeOK /\ FramesOK /\ frames \in Seq(FrameRec) /\ sock \in Seq(SockRec)
  BY DEF IInv, TypeOK
<1>3. i \in Entries /\ i \in Elems(free) /\ k \in Nat
  BY <1>1, <1>2, TailFacts
<1>4. conn[i].sock = 0
  BY <1>2, <1>3 DEF FreeOK
<1>5. conn[i].running \in BOOLEAN
  BY <1>2, <1>3 DEF ConnRec
<1> HIDE DEF i, k
<1>6. r.out = << >>
  BY <1>3, <1>5, EntryIs
<1> HIDE DEF r
<1>7. conn'[i] = r /\ \A j \in Entries : j # i => conn'[j] = conn[j]
  BY <1>1, <1>2, <1>3
<1>8. \A j \in DOMAIN frames : frames[j].conn \in Entries /\ frames[j].sock # 0
  <2>1. \A j \in DOMAIN frames : frames[j] \in FrameRec /\ frames[j].sock \in DOMAIN sock
    BY <1>2 DEF FramesOK
  <2>2. 0 \notin DOMAIN sock
    BY <1>2
  <2> QED BY <2>1, <2>2 DEF FrameRec
<1>9. \A j \in DOMAIN frames : Kept(j)
  BY <1>1 DEF RInv, Served, Left
<1>10. \A j \in DOMAIN frames : Kept(j)'
  BY <1>1, <1>4, <1>7, <1>8, <1>9 DEF Kept
<1>11. Served(B)'
  BY <1>1, <1>10 DEF Served
<1>12. OutRight'
  BY <1>6, <1>7 DEF RInv, OutRight
<1>13. NotGivenUp(B)'
  BY <1>1 DEF RInv, NotGivenUp
<1> QED BY <1>1, <1>11, <1>12, <1>13, SameSock DEF RInv

\* The connection of entry i ends; no handler of a call of B loses it.
LEMMA ClosingRight ==
  ASSUME NEW B, IInv, RInv(B), NEW i \in Entries, NEW a, Closing(i, a),
         \A j \in DOMAIN a : a[j].for = conn[i].sock,
         \A j \in DOMAIN frames :
            frames[j].conn = i => /\ frames[j].type \notin B /\ frames[j].type \notin Deaf
                                  /\ Len(frames) = 1
  PROVE  RInv(B)'
<1> DEFINE k == conn[i].sock
           r == [NoConn EXCEPT !.running = conn[i].running]
<1>1. /\ k # 0 /\ conn' = [conn EXCEPT ![i] = r] /\ walked' = TRUE /\ UNCHANGED <<cl, frames>>
      /\ DOMAIN sock' = DOMAIN sock /\ \A l \in DOMAIN sock : l # k => sock'[l] = sock[l]
      /\ sock'[k].eof = TRUE /\ sock'[k].answers = a
  BY DEF Closing, Ending, Closed
<1>2. conn \in [Entries -> ConnRec] /\ conn[i].running \in BOOLEAN /\ frames \in Seq(FrameRec)
  BY DEF IInv, TypeOK, ConnRec
<1>3. r.sock = 0 /\ r.out = << >>
  BY <1>2, EntryIs
<1> HIDE DEF r
<1>4. conn'[i] = r /\ \A j \in Entries : j # i => conn'[j] = conn[j]
  BY <1>1, <1>2
<1>5. Served(B)'
  <2> SUFFICES ASSUME NEW j \in DOMAIN frames PROVE Kept(j)' \/ (Left(j)' /\ frames[j].type \notin B)
    BY <1>1 DEF Served
  <2>1. frames[j].conn \in Entries
    BY FrameIs
  <2>2. CASE frames[j].conn = i
    BY <1>1, <1>3, <1>4, <2>2 DEF Left
  <2>3. CASE frames[j].conn # i
    <3>1. conn'[frames'[j].conn] = conn[frames[j].conn] /\ frames' = frames
      BY <1>1, <1>4, <2>1, <2>3
    <3>2. Kept(j) \/ (Left(j) /\ frames[j].type \notin B)
      BY DEF RInv, Served
    <3> QED BY <1>1, <3>1, <3>2 DEF Kept, Left
  <2> QED BY <2>2, <2>3
<1>6. OutRight'
  BY <1>3, <1>4 DEF RInv, OutRight
<1>7. NotGivenUp(B)'
  BY <1>1 DEF RInv, NotGivenUp
<1>8. HupOK(B)'
  BY <1>1 DEF RInv, HupOK
<1>9. RightAnswer'
  BY <1>1 DEF RInv, RightAnswer
<1> QED BY <1>5, <1>6, <1>7, <1>8, <1>9 DEF RInv

\* A running handler has its connection, whose message has been read.
LEMMA RefusedRight ==
  ASSUME NEW B, IInv, RInv(B), NEW i \in Entries, Refused(i)
  PROVE  RInv(B)'
<1>1. /\ sock[conn[i].sock].msg = "sent" /\ conn[i].running /\ conn[i].sock # 0
  BY DEF Refused, Closing
<1>2. PICK j \in DOMAIN frames : frames[j].conn = i
  BY <1>1 DEF IInv, ConnsOK
<1>3. Kept(j)
  BY <1>1, <1>2 DEF RInv, Served, Left
<1>4. sock[frames[j].sock].msg = "read"
  BY DEF IInv, FramesOK
<1> QED BY <1>1, <1>2, <1>3, <1>4 DEF Kept

LEMMA HungUpRight ==
  ASSUME NEW B, IInv, RInv(B), Alone(B), NEW i \in Entries, HungUp(i)
  PROVE  RInv(B)'
<1> DEFINE k == conn[i].sock
<1>1. sock[k].hup /\ Closing(i, << >>) /\ k # 0
  BY DEF HungUp, Closing
<1>2. Unanswered(sock, k)
  BY <1>1 DEF IInv, SocksOK
<1>3. sock[k].type \notin B
  BY <1>1, <1>2 DEF RInv, HupOK, Unanswered
<1>4. ASSUME NEW j \in DOMAIN frames, frames[j].conn = i
      PROVE  frames[j].type \notin B /\ frames[j].type \notin Deaf /\ Len(frames) = 1
  <2>1. Kept(j)
    BY <1>1, <1>4 DEF RInv, Served, Left
  <2>2. frames[j].type = sock[k].type
    BY <1>4, <2>1 DEF IInv, FramesOK, Kept
  <2>3. frames[j].type \in Waits /\ Len(frames) \in Nat /\ Len(frames) # 0
    BY FrameIs
  <2>4. frames[j].type \notin B /\ frames[j].type \notin Deaf /\ Len(frames) <= 1
    BY <1>3, <2>2, <2>3 DEF Alone
  <2>5. \A n \in Nat : n # 0 /\ n <= 1 => n = 1
    OBVIOUS
  <2> QED BY <2>3, <2>4, <2>5
<1>5. \A j \in DOMAIN << >> : << >>[j].for = k
  OBVIOUS
<1> QED BY <1>1, <1>4, <1>5, ClosingRight

LEMMA SendAnswerRight ==
  ASSUME NEW B, IInv, RInv(B), NEW i \in Entries, SendAnswer(i)
  PROVE  RInv(B)'
<1>1. ~conn[i].running /\ (Closing(i, << >>) \/ Closing(i, conn[i].out))
  BY SendAnswerIs
<1>2. \A j \in DOMAIN frames : frames[j].conn # i
  BY <1>1 DEF IInv, ConnsOK
<1>3. \A j \in DOMAIN conn[i].out : conn[i].out[j].for = conn[i].sock
  BY DEF RInv, OutRight
<1>4. \A j \in DOMAIN << >> : << >>[j].for = conn[i].sock
  OBVIOUS
<1> QED BY <1>1, <1>2, <1>3, <1>4, ClosingRight

\* Reading a message tells the clients nothing.
LEMMA ReadRight ==
  ASSUME NEW B, IInv, RInv(B), Grown, HupSame, cl' = cl
  PROVE  NotGivenUp(B)' /\ HupOK(B)' /\ RightAnswer'
<1>1. NotGivenUp(B)'
  BY DEF RInv, NotGivenUp
<1>2. HupOK(B)'
  BY DEF RInv, HupOK, Grown, HupSame
<1>3. RightAnswer'
  BY NewAnswers DEF RInv, Grown, HupSame
<1> QED BY <1>1, <1>2, <1>3

\* Nothing moves to another entry.
LEMMA SameEntries ==
  ASSUME NEW B, IInv, RInv(B), \A j \in Entries : conn'[j].sock = conn[j].sock, frames' = frames,
         walked' = TRUE
  PROVE  Served(B)'
<1> SUFFICES ASSUME NEW j \in DOMAIN frames PROVE Kept(j)' \/ (Left(j)' /\ frames[j].type \notin B)
  BY DEF Served
<1>1. frames[j].conn \in Entries
  BY FrameIs
<1>2. Kept(j) \/ (Left(j) /\ frames[j].type \notin B)
  BY DEF RInv, Served
<1> QED BY <1>1, <1>2 DEF Kept, Left

LEMMA PendedRight ==
  ASSUME NEW B, IInv, RInv(B), NEW i \in Entries, conn[i].in, Pended(i)
  PROVE  RInv(B)'
<1>1. Called(i)
  BY ReadCalled DEF Pended
<1>2. NotGivenUp(B)' /\ HupOK(B)' /\ RightAnswer'
  BY <1>1, ReadRight DEF Called
<1>3. \A j \in Entries : conn'[j].sock = conn[j].sock /\ conn'[j].out = conn[j].out
  <2>1. PICK x \in ConnRec : x = conn[i]
    BY DEF IInv, TypeOK
  <2> DEFINE z == [x EXCEPT !.in = FALSE]
  <2>2. z.sock = x.sock /\ z.out = x.out
    BY DEF ConnRec
  <2>3. conn' = [conn EXCEPT ![i] = z] /\ conn \in [Entries -> ConnRec]
    BY <2>1 DEF Pended, IInv, TypeOK
  <2> HIDE DEF z
  <2> QED BY <2>1, <2>2, <2>3
<1>4. frames' = frames /\ walked' = TRUE
  BY DEF Pended
<1>5. Served(B)'
  BY <1>3, <1>4, SameEntries
<1>6. OutRight'
  BY <1>3 DEF RInv, OutRight
<1> QED BY <1>2, <1>5, <1>6 DEF RInv

\* An answer on the connection that the entry has.
LEMMA FinishedRight ==
  ASSUME NEW B, RInv(B), NEW i \in Entries, NEW k \in Nat, NEW ok \in BOOLEAN, Finished(i, k, ok),
         conn[i].out = << >>, conn[i].sock # 0 => k = conn[i].sock
  PROVE  OutRight'
<1> DEFINE m == [for |-> k, ok |-> ok]
<1>1. /\ \A j \in Entries : j # i => conn'[j] = conn[j]
      /\ conn'[i].sock = conn[i].sock
      /\ conn'[i].out = IF conn[i].sock = 0 THEN << >> ELSE Append(conn[i].out, m)
  BY DEF Finished
<1>2. m.for = k
  OBVIOUS
<1> HIDE DEF m
<1>3. \A j \in DOMAIN Append(<< >>, m) : Append(<< >>, m)[j] = m
  OBVIOUS
<1>4. \A j \in DOMAIN conn'[i].out : conn'[i].out[j].for = conn'[i].sock
  BY <1>1, <1>2, <1>3
<1> QED BY <1>1, <1>4 DEF RInv, OutRight

LEMMA AtOnceRight ==
  ASSUME NEW B, IInv, RInv(B), NEW i \in Entries, Called(i), AtOnce(i)
  PROVE  RInv(B)'
<1>1. PICK ok \in BOOLEAN :
         /\ Finish(i, conn[i].sock, ok, Excl(sock[conn[i].sock].type)) /\ frames' = frames
         /\ walked' = TRUE
  BY DEF AtOnce
<1>2. conn[i].sock \in Nat /\ Excl(sock[conn[i].sock].type) \in BOOLEAN /\ TypeOK
      /\ conn[i].out = << >>
  BY DEF IInv, TypeOK, ConnRec, Excl, Called
<1>3. Finished(i, conn[i].sock, ok)
  BY <1>1, <1>2, FinishIs
<1>4. OutRight'
  BY <1>2, <1>3, FinishedRight
<1>5. \A j \in Entries : conn'[j].sock = conn[j].sock
  BY <1>3 DEF Finished
<1>6. Served(B)'
  BY <1>1, <1>5, SameEntries
<1>7. NotGivenUp(B)' /\ HupOK(B)' /\ RightAnswer'
  BY ReadRight DEF Called
<1> QED BY <1>4, <1>6, <1>7 DEF RInv

LEMMA WaitingRight ==
  ASSUME NEW B, IInv, RInv(B), Alone(B)', NEW i \in Entries, Called(i), Waiting(i)
  PROVE  RInv(B)'
<1>1. PICK f \in FrameRec : /\ f.conn = i /\ f.sock = conn[i].sock
                            /\ frames' = Append(frames, f)
                            /\ conn' = [conn EXCEPT ![i].running = TRUE]
  BY DEF Waiting
<1>2. frames \in Seq(FrameRec) /\ conn \in [Entries -> ConnRec]
  BY DEF IInv, TypeOK
<1>3. \A j \in Entries : conn'[j].sock = conn[j].sock /\ conn'[j].out = conn[j].out
  <2>1. PICK x \in ConnRec : x = conn[i]
    BY <1>2
  <2> DEFINE z == [x EXCEPT !.running = TRUE]
  <2>2. z.sock = x.sock /\ z.out = x.out
    BY DEF ConnRec
  <2>3. conn' = [conn EXCEPT ![i] = z]
    BY <1>1, <2>1
  <2> HIDE DEF z
  <2> QED BY <1>2, <2>1, <2>2, <2>3
<1>4. OutRight'
  BY <1>3 DEF RInv, OutRight
<1> DEFINE n == Len(frames) + 1
<1>5. /\ DOMAIN frames' = DOMAIN frames \cup {n} /\ frames'[n] = f
      /\ \A j \in DOMAIN frames : frames'[j] = frames[j]
      /\ Len(frames') = Len(frames) + 1 /\ Len(frames) \in Nat
      /\ DOMAIN frames = 1 .. Len(frames)
  BY <1>1, <1>2
<1>6. \A j \in DOMAIN frames : Kept(j)
  <2> SUFFICES ASSUME NEW j \in DOMAIN frames, Left(j), frames[j].type \notin B PROVE FALSE
    BY DEF RInv, Served
  <2>1. frames[j].type \in Waits /\ Len(frames) = 1
    BY FrameIs DEF Left
  <2>2. Len(frames') <= 1
    BY <2>1 DEF Alone
  <2> QED BY <1>5, <2>1, <2>2
<1> HIDE DEF n
<1>7. \A j \in DOMAIN frames' : Kept(j)'
  <2> SUFFICES ASSUME NEW j \in DOMAIN frames' PROVE conn'[frames'[j].conn].sock = frames'[j].sock
    BY DEF Kept
  <2>1. CASE j = n
    BY <1>1, <1>3, <1>5, <2>1
  <2>2. CASE j \in DOMAIN frames
    <3>1. frames[j].conn \in Entries
      BY <2>2, FrameIs
    <3> QED BY <1>3, <1>5, <1>6, <2>2, <3>1 DEF Kept
  <2> QED BY <1>5, <2>1, <2>2
<1>8. Served(B)'
  BY <1>7 DEF Served
<1>9. NotGivenUp(B)' /\ HupOK(B)' /\ RightAnswer'
  BY ReadRight DEF Called
<1> QED BY <1>4, <1>8, <1>9 DEF RInv

LEMMA ReadRequestRight ==
  ASSUME NEW B, IInv, RInv(B), Alone(B), Alone(B)', NEW i \in Entries, ReadRequest(i)
  PROVE  RInv(B)'
<1>1. conn[i].in
  BY DEF ReadRequest
<1>2. Refused(i) \/ Pended(i) \/ HungUp(i) \/ (Called(i) /\ (AtOnce(i) \/ Waiting(i)))
  BY ReadRequestIs
<1> QED BY <1>1, <1>2, RefusedRight, PendedRight, HungUpRight, AtOnceRight, WaitingRight

LEMMA ProcessWokenRight ==
  ASSUME NEW B, IInv, RInv(B), Alone(B)', NEW i \in Entries, ProcessWoken(i)
  PROVE  RInv(B)'
BY ProcessWokenIs, AtOnceRight, WaitingRight

LEMMA HandlerResumesRight ==
  ASSUME NEW B, IInv, RInv(B), HandlerResumes
  PROVE  RInv(B)'
<1> DEFINE f  == Last(frames)
           ok == ~Abandoned(f)
<1>1. /\ frames # << >> /\ f \in FrameRec /\ f.conn \in Entries /\ f.sock \in Nat
      /\ conn[f.conn].out = << >> /\ Finish(f.conn, f.sock, ok, TRUE) /\ ok \in BOOLEAN
      /\ frames' = Front(frames) /\ walked' = TRUE /\ UNCHANGED <<cl, sock>>
      /\ f = frames[Len(frames)] /\ Len(frames) \in DOMAIN frames
  BY HandlerResumesIs
<1> HIDE DEF f, ok
<1>2. frames \in Seq(FrameRec) /\ TypeOK
  BY DEF IInv, TypeOK
<1>3. /\ DOMAIN frames' = 1 .. Len(frames) - 1 /\ DOMAIN frames' \subseteq DOMAIN frames
      /\ \A j \in DOMAIN frames' : frames'[j] = frames[j]
  <2>1. frames \in Seq(FrameRec) /\ frames # << >> /\ frames' = Front(frames)
    BY <1>1, <1>2
  <2>2. /\ DOMAIN Front(frames) = 1 .. Len(frames) - 1 /\ DOMAIN Front(frames) = DOMAIN frames \ {Len(frames)}
        /\ \A j \in DOMAIN Front(frames) : Front(frames)[j] = frames[j]
    BY <2>1, FrontFacts
  <2> QED BY <2>1, <2>2
<1>4. PICK i \in Entries, k \in Nat, o \in BOOLEAN, x \in BOOLEAN :
         i = f.conn /\ k = f.sock /\ o = ok /\ x = TRUE
  BY <1>1
<1>5. Finish(i, k, o, x)
  BY <1>1, <1>4
<1>6. Finished(i, k, o)
  BY <1>2, <1>5, FinishIs
<1>7. conn[i].sock # 0 => k = conn[i].sock
  <2>1. Kept(Len(frames)) \/ Left(Len(frames))
    BY <1>1 DEF RInv, Served
  <2> QED BY <1>1, <1>4, <2>1 DEF Kept, Left
<1>8. conn[i].out = << >>
  BY <1>1, <1>4
<1>9. OutRight'
  BY <1>6, <1>7, <1>8, FinishedRight
<1>10. \A j \in Entries : conn'[j].sock = conn[j].sock
  BY <1>6 DEF Finished
<1>11. Served(B)'
  <2> SUFFICES ASSUME NEW j \in DOMAIN frames' PROVE Kept(j)'
    BY DEF Served
  <2>1. j \in DOMAIN frames /\ Len(frames) # 1
    <3>1. j \in DOMAIN frames /\ j \in 1 .. Len(frames) - 1
      BY <1>3
    <3>2. Len(frames) \in Nat
      BY <3>1, FrameIs
    <3>3. \A n \in Nat : j \in 1 .. n - 1 => n # 1
      OBVIOUS
    <3> QED BY <3>1, <3>2, <3>3
  <2>2. Kept(j)
    BY <2>1 DEF RInv, Served, Left
  <2>3. frames[j].conn \in Entries
    BY <2>1, FrameIs
  <2>4. conn'[frames'[j].conn].sock = frames'[j].sock
    BY <1>3, <1>10, <2>2, <2>3 DEF Kept
  <2> QED BY <2>4 DEF Kept
<1>12. NotGivenUp(B)'
  BY <1>1 DEF RInv, NotGivenUp
<1>13. HupOK(B)' /\ RightAnswer'
  BY <1>1, SameSock
<1> QED BY <1>9, <1>11, <1>12, <1>13 DEF RInv

\* A handler whose connection is gone is not walked past.
LEMMA NextWalkRight ==
  ASSUME NEW B, IInv, RInv(B), NextWalk
  PROVE  RInv(B)'
<1>1. /\ DOMAIN frames' = DOMAIN frames
      /\ \A j \in DOMAIN frames : frames'[j].conn = frames[j].conn /\ frames'[j].sock = frames[j].sock
  BY NextWalkIs
<1>2. UNCHANGED <<cl, sock, conn>>
  BY DEF NextWalk, client
<1>3. \A j \in DOMAIN frames : Kept(j)
  <2> SUFFICES ASSUME NEW j \in DOMAIN frames, Left(j) PROVE FALSE
    BY DEF RInv, Served
  <2>1. Len(frames) = 1 /\ j \in 1 .. Len(frames) /\ frames # << >>
    BY FrameIs DEF Left
  <2>2. j = Len(frames) /\ frames # << >>
    BY <2>1
  <2>3. Last(frames) = frames[j]
    BY <2>2 DEF Last
  <2>4. Abandoned(frames[j])
    <3>1. frames[j].type \in Waits /\ frames[j].minor \in Minors
      BY FrameIs
    <3>2. Heeding(frames[j])
      BY DEF IInv, FramesOK
    <3> QED BY <3>1, <3>2 DEF Left, Abandoned, Heeding, Deaf, Waits
  <2> QED BY <2>2, <2>3, <2>4 DEF NextWalk
<1>4. Served(B)'
  <2> SUFFICES ASSUME NEW j \in DOMAIN frames' PROVE Kept(j)'
    BY DEF Served
  <2> QED BY <1>1, <1>2, <1>3 DEF Kept
<1>5. OutRight'
  BY <1>2 DEF RInv, OutRight
<1>6. NotGivenUp(B)'
  BY <1>2 DEF RInv, NotGivenUp
<1>7. HupOK(B)' /\ RightAnswer'
  BY <1>2, SameSock
<1> QED BY <1>4, <1>5, <1>6, <1>7 DEF RInv

LEMMA ExitRight ==
  ASSUME NEW B, IInv, RInv(B), Exit
  PROVE  RInv(B)'
<1>1. /\ DOMAIN sock' = DOMAIN sock
      /\ \A k \in DOMAIN sock :
            /\ sock'[k].type = sock[k].type /\ sock'[k].hup = sock[k].hup
            /\ sock'[k].eof = TRUE \/ sock'[k].eof = sock[k].eof
            /\ \/ sock'[k].answers = sock[k].answers
               \/ \E i \in Entries : /\ conn[i].sock = k
                                     /\ sock'[k].answers = sock[k].answers \o conn[i].out
  BY ExitIs
<1>2. frames' = << >> /\ cl' = cl /\ conn' = [i \in Entries |-> NoConn]
  BY DEF Exit, IInv, TypeOK
<1>3. \A k \in DOMAIN sock :
         \/ sock'[k].answers = sock[k].answers
         \/ \E i \in Entries : conn[i].sock = k /\ sock[k].answers = << >> /\ sock'[k].answers = conn[i].out
  <2> SUFFICES ASSUME NEW k \in DOMAIN sock, NEW i \in Entries, conn[i].sock = k,
                      sock'[k].answers = sock[k].answers \o conn[i].out
               PROVE  sock[k].answers = << >> /\ sock'[k].answers = conn[i].out
    BY <1>1
  <2>1. sock \in Seq(SockRec) /\ conn[i] \in ConnRec
    BY DEF IInv, TypeOK
  <2>2. k # 0 /\ conn[i].out \in Seq(Answer)
    BY <2>1 DEF ConnRec
  <2>3. Unanswered(sock, k)
    BY <2>2 DEF IInv, SocksOK
  <2>4. sock[k].answers = << >>
    BY <2>3 DEF Unanswered
  <2> QED BY <2>2, <2>4
<1>4. RightAnswer'
  BY <1>1, <1>3 DEF RInv, RightAnswer, OutRight
<1>5. HupOK(B)'
  <2> SUFFICES ASSUME NEW k \in DOMAIN sock, sock'[k].hup, sock'[k].type \in B, ~sock'[k].eof
               PROVE  sock'[k].answers # << >>
    BY <1>1 DEF HupOK
  <2>1. sock[k].eof \/ sock[k].answers # << >>
    BY <1>1 DEF RInv, HupOK
  <2> QED BY <1>1, <1>3, <2>1
<1>6. NotGivenUp(B)'
  BY <1>2 DEF RInv, NotGivenUp
<1>7. OutRight'
  <2>1. \A i \in Entries : conn'[i].out = << >>
    BY <1>2, EntryIs
  <2> QED BY <2>1 DEF OutRight
<1>8. Served(B)'
  BY <1>2 DEF Served
<1> QED BY <1>4, <1>5, <1>6, <1>7, <1>8 DEF RInv

LEMMA StepRight ==
  ASSUME NEW B, IInv, RInv(B), Alone(B), Alone(B)', [Next]_vars
  PROVE  RInv(B)'
<1>1. ASSUME NEW m \in Minors, IoStart(m) \/ IoDone(m) \/ DeviceClosed(m)
      PROVE  UNCHANGED <<cl, sock, conn, frames, walked>>
  BY <1>1 DEF IoStart, IoDone, DeviceClosed, client, server
<1>2. UNCHANGED vars => UNCHANGED <<cl, sock, conn, frames, walked>>
  BY DEF vars
<1>3. ASSUME UNCHANGED <<cl, sock, conn, frames, walked>>
      PROVE  RInv(B)'
  <2>1. NotGivenUp(B)'
    BY <1>3 DEF RInv, NotGivenUp
  <2> QED BY <1>3, <2>1, SameSock, ClientRight
<1>4. ASSUME NEW c \in Clients, ClientStep(c) \/ GiveUp(c)
      PROVE  RInv(B)'
  BY <1>4, StartCommandRight, KernelRight, ConnectRight, SendRight, ReceiveRight, GiveUpRight
     DEF ClientStep
<1>5. ASSUME NEW i \in Entries, ConnStep(i)
      PROVE  RInv(B)'
  BY <1>5, ReadRequestRight, ProcessWokenRight, SendAnswerRight DEF ConnStep
<1> QED BY <1>1, <1>2, <1>3, <1>4, <1>5, AcceptRight, HandlerResumesRight, NextWalkRight, ExitRight
        DEF Next, Entries

\* No client that may give up makes a call of B.
Patient(B) ==
  \A p \in Programs, c \in GivesUp : \A i \in DOMAIN p[c] : CallsOf(p[c][i].op) \cap B = {}

LEMMA InitRight ==
  ASSUME NEW B, Patient(B), Init
  PROVE  RInv(B)
<1>1. PICK p \in Programs :
         cl = [c \in Clients |-> [todo |-> p[c], op |-> "none", pc |-> "none", minor |-> "none",
                                  sock |-> 0, res |-> "none"]]
  BY DEF Init
<1>2. \A c \in Clients : cl[c].todo = p[c] /\ cl[c].pc = "none"
  BY <1>1
<1>3. NotGivenUp(B)
  BY <1>2, ConstantsAssumption DEF NotGivenUp, Patient
<1>4. sock = << >> /\ frames = << >> /\ conn = [i \in Entries |-> NoConn]
  BY DEF Init, Entries
<1>5. OutRight
  <2>1. \A i \in Entries : conn[i].out = << >>
    BY <1>4, EntryIs
  <2> QED BY <2>1 DEF OutRight
<1> QED BY <1>3, <1>4, <1>5 DEF RInv, HupOK, Served, RightAnswer

\* When the clients that may be killed or time out run no close and no pause, every client is
\* given the answer to its own message, however handlers nest and entries are used again:
\* tapdisk_control_process_request answers the connection it was called for.
THEOREM PatientAnswers ==
  ASSUME Patient(Waits)
  PROVE  Spec => []RightAnswer
<1>1. Alone(Waits) /\ Alone(Waits)'
  BY DEF Alone, Waits, Deaf
<1>2. Init => IInv /\ RInv(Waits)
  BY InitInv, InitRight
<1>3. IInv /\ RInv(Waits) /\ [Next]_vars => IInv' /\ RInv(Waits)'
  BY <1>1, StepInv, StepRight
<1>4. RInv(Waits) => RightAnswer
  BY DEF RInv
<1> QED BY <1>2, <1>3, <1>4, PTL DEF Spec

\* As long as handlers do not nest, it is enough that nobody gives up an orderly close, nor
\* a forced one where some minor lacks the ioctl: the loops of pause and of remove_device
\* look at conn->fd before the entry can be used again.
THEOREM ExclusiveAnswers ==
  ASSUME Patient(Deaf)
  PROVE  Spec /\ []Exclusive => []RightAnswer
<1>1. Exclusive => Alone(Deaf)
  BY DEF Alone, Exclusive
<1>2. Exclusive' => Alone(Deaf)'
  BY DEF Alone, Exclusive, Deaf
<1>3. Init => IInv /\ RInv(Deaf)
  BY InitInv, InitRight
<1>4. IInv /\ RInv(Deaf) /\ Exclusive /\ Exclusive' /\ [Next]_vars => IInv' /\ RInv(Deaf)'
  <2>1. ASSUME NEW B, B = Deaf, IInv, RInv(B), Alone(B), Alone(B)', [Next]_vars
        PROVE  IInv' /\ RInv(B)'
    BY <2>1, StepInv, StepRight
  <2> QED BY <1>1, <1>2, <2>1
<1>5. RInv(Deaf) => RightAnswer
  BY DEF RInv
<1> QED BY <1>3, <1>4, <1>5, PTL DEF Spec
=============================================================================
