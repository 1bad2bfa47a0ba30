----------------------------- MODULE VbdProofs -----------------------------
(* The queues of a VBD: no request is lost, answered twice or left waiting,   *)
(* no driver is left with I/O of an image that is closed, and an answer       *)
(* without error is true, for every number of requests and of segments.       *)
EXTENDS Vbd, FiniteSetTheorems, WellFoundedInduction, TLAPS

-----------------------------------------------------------------------------
(* The inductive invariant *)

\* Nothing is on the list twice.
Distinct(s) == \A i, j \in 1 .. Len(s) : s[i] = s[j] => i = j

\* The four queues hold each request that was queued and not answered, once.
Queues(v) ==
  /\ Distinct(v.new) /\ Distinct(v.failed) /\ Distinct(v.completed)
  /\ Elems(v.new) \cap Elems(v.failed) = {} /\ Elems(v.new) \cap Elems(v.completed) = {}
  /\ Elems(v.failed) \cap Elems(v.completed) = {}
  /\ v.pending \cap (Elems(v.new) \cup Elems(v.failed) \cup Elems(v.completed)) = {}
  /\ \A r \in Reqs : v.req[r].st = "queued" <=>
        r \in v.pending \cup Elems(v.new) \cup Elems(v.failed) \cup Elems(v.completed)

\* The I/Os of r that drivers hold.
Held(v, r) == {t \in v.treqs : t.req = r}

\* c is the request being submitted, n the number of its I/Os that are counted but
\* not yet queued.
Counted(v, c, n) ==
  /\ IsFiniteSet(v.treqs)
  /\ \A r \in Reqs : v.req[r].secs = Cardinality(Held(v, r)) + (IF r = c THEN n ELSE 0)

Submitting(v, c) ==
  \A r \in Reqs : v.req[r].submitting = IF r = c THEN 1 ELSE 0

Waiting(v, c) ==
  \A r \in Reqs : r \in v.pending <=> Held(v, r) # {} \/ r = c

\* A segment of a read is with one driver.
ReadsOnce(v) ==
  \A t, u \in v.treqs :
     t.req = u.req /\ t.iov = u.iov /\ v.req[t.req].op = "read" => t = u

\* The chains there are, and what the secondary image has to do with them.
Chains == {<<>>, <<"base">>, <<"leaf", "base">>, <<"leaf", "second", "base">>,
           <<"second", "base">>, <<"second", "leaf", "base">>}

ChainOK(v) ==
  /\ v.images \in Chains /\ v.retired # "base"
  /\ v.images = <<>> => v.retired = NoImage /\ v.ignore_enospc = {} /\ "CLOSED" \in v.state
  /\ v.secondary_mode = "DISABLED" => v.secondary = NoImage
  /\ v.secondary_mode = "MIRROR" =>
        /\ v.secondary = "second" /\ v.retired = NoImage
        /\ v.images \in {<<>>, <<"leaf", "base">>, <<"leaf", "second", "base">>}
  /\ v.secondary_mode = "STANDBY" =>
        /\ v.kind = "standby" /\ v.images \in {<<>>, <<"leaf", "base">>}
        /\ v.ignore_enospc # {} => v.secondary = "second"
  /\ "STANDBY" \in v.flags => v.kind = "standby"

Open(v) == Elems(v.images) \cup {v.retired}

\* An I/O is with an image that is open.  After a retried resume has forgotten the
\* secondary image, this only holds of reads.
MirrorOpen(v) ==
  "image" \notin OpenFails /\ v.secondary_mode = "MIRROR" =>
    v.flags = {"SECONDARY"} /\ v.images \in {<<>>, <<"leaf", "second", "base">>}

HeldOpen(v) ==
  \A t \in v.treqs : v.req[t.req].op = "read" \/ "image" \notin OpenFails => t.image \in Open(v)

\* With the queue quiesced or the images closed, nothing is pending.
Quiet(v) ==
  /\ "PAUSED" \in v.state => "QUIESCED" \in v.state /\ v.images = <<>>
  /\ "QUIESCED" \in v.state \/ v.images = <<>> => v.pending = {}

Sound(v, c, n) ==
  /\ v \in VbdState
  /\ Queues(v) /\ Counted(v, c, n) /\ Submitting(v, c) /\ Waiting(v, c)
  /\ ReadsOnce(v) /\ ChainOK(v) /\ MirrorOpen(v) /\ HeldOpen(v) /\ Quiet(v)

\* The loops over the queues: what is left to do is still on its queue.
LoopOn(s, v) == IF s.loop = "reissue" THEN v.failed ELSE v.new

LoopOK(s, v) ==
  /\ s.pc \in {"reissue", "issue_new"} => s.loop = s.pc /\ Elems(s.todo) \subseteq Elems(LoopOn(s, v))
  /\ s.pc \in {"reissue", "issue_new", "submit"} => Distinct(s.todo)
  /\ s.pc # "submit" => s.cur = NoImage
  /\ s.pc = "submit" => /\ s.cur \in Reqs /\ s.todo # <<>> /\ Head(s.todo) = s.cur
                        /\ Elems(Tail(s.todo)) \subseteq Elems(LoopOn(s, v))

\* The segments not yet submitted are with no driver; the image they go to is open.
SubmitOK(s, v) ==
  s.pc = "submit" =>
    /\ s.iov >= 1 /\ \A t \in v.treqs : t.req = s.cur => t.iov < s.iov
    /\ s.image \in Open(v) /\ s.image \in Images
    /\ v.secondary_mode = "MIRROR" => s.image = "leaf"

Control == ctl \in {"idle", "pausing", "closing", "closing_forced"} /\ signals \subseteq Signals

IInv ==
  /\ Sound(vbd, srv.cur, 0)
  /\ srv \in SrvState /\ LoopOK(srv, vbd) /\ SubmitOK(srv, vbd)
  /\ Control
-----------------------------------------------------------------------------
(* Lists *)

\* A set of numbers that is not empty has a least one.
LEMMA LeastNatural ==
  ASSUME NEW S \in SUBSET Nat, S # {}
  PROVE  \E n \in S : \A m \in S : n <= m
<1> DEFINE R == OpToRel(<, Nat)
<1>1. IsWellFoundedOn(R, Nat)
  BY NatLessThanWellFounded
<1> HIDE DEF R
<1>2. PICK x \in S : \A y \in S : ~(<<y, x>> \in R)
  BY <1>1, WFMin
<1>3. \A y \in S : ~(y < x)
  BY <1>2 DEF R, OpToRel
<1> QED BY <1>3

\* F[i] is what Only keeps of the first i elements of s.
Sifts(s, T, n, F) ==
  F = [i \in 0 .. n |-> IF i = 0 THEN <<>>
                        ELSE IF s[i] \in T THEN Append(F[i - 1], s[i]) ELSE F[i - 1]]

\* The recursion of Only is that of a function.
LEMMA SiftExists ==
  ASSUME NEW s, NEW T, NEW n \in Nat
  PROVE  \E F : Sifts(s, T, n, F)
<1> DEFINE Has(m) == \E F : Sifts(s, T, m, F)
           Bad == {m \in Nat : ~Has(m)}
<1>1. Has(0)
  <2> DEFINE F == [i \in 0 .. 0 |-> <<>>]
  <2>1. Sifts(s, T, 0, F)
    BY DEF Sifts
  <2> QED BY <2>1
<1>2. ASSUME NEW m \in Nat, m # 0, Has(m - 1)
      PROVE  Has(m)
  <2>1. PICK F : Sifts(s, T, m - 1, F)
    BY <1>2
  <2> DEFINE last == IF s[m] \in T THEN Append(F[m - 1], s[m]) ELSE F[m - 1]
             G == [i \in 0 .. m |-> IF i = m THEN last ELSE F[i]]
  <2>2. /\ \A i \in 0 .. m - 1 : F[i] = IF i = 0 THEN <<>>
                        ELSE IF s[i] \in T THEN Append(F[i - 1], s[i]) ELSE F[i - 1]
    BY <2>1 DEF Sifts
  <2>3. \A i \in 0 .. m : G[i] = IF i = 0 THEN <<>>
                        ELSE IF s[i] \in T THEN Append(G[i - 1], s[i]) ELSE G[i - 1]
    <3>1. /\ G[m] = last /\ \A i \in 0 .. m - 1 : G[i] = F[i]
      BY <1>2
    <3>2. m - 1 \in 0 .. m - 1 /\ \A i \in 0 .. m - 1 : i # 0 => i - 1 \in 0 .. m - 1
      BY <1>2
    <3> HIDE DEF G
    <3> QED BY <1>2, <2>2, <3>1, <3>2
  <2>4. Sifts(s, T, m, G)
    BY <2>3 DEF Sifts
  <2> QED BY <2>4
<1> HIDE DEF Has
<1>3. CASE Bad = {}
  <2>1. Has(n)
    BY <1>3
  <2> QED BY <2>1 DEF Has
<1>4. CASE Bad # {}
  <2>0. Bad \in SUBSET Nat
    OBVIOUS
  <2> HIDE DEF Bad
  <2>1. PICK m \in Bad : \A k \in Bad : m <= k
    BY <1>4, <2>0, LeastNatural
  <2> USE DEF Bad
  <2>2. m # 0 /\ m - 1 \in Nat /\ m - 1 \notin Bad
    BY <1>1, <2>1
  <2> QED BY <1>2, <2>1, <2>2
<1> QED BY <1>3, <1>4

\* Only(s, T) is a list of the elements of s that are in T, no more often than in s.
LEMMA OnlyFacts ==
  ASSUME NEW S, NEW s \in Seq(S), NEW T
  PROVE  /\ Only(s, T) \in Seq(S) /\ Elems(Only(s, T)) = Elems(s) \cap T
         /\ Distinct(s) => Distinct(Only(s, T))
<1> DEFINE l == Len(s)
           only == CHOOSE F : Sifts(s, T, l, F)
<1>1. l \in Nat /\ \A i \in 1 .. l : s[i] \in S
  OBVIOUS
<1>2. Sifts(s, T, l, only)
  BY <1>1, SiftExists
<1>3. Only(s, T) = only[l]
  BY DEF Only, Sifts
<1> HIDE DEF only
<1>4. /\ only[0] = <<>>
      /\ \A i \in 1 .. l : only[i] = IF s[i] \in T THEN Append(only[i - 1], s[i]) ELSE only[i - 1]
  <2> DEFINE body(i) == IF i = 0 THEN <<>>
                        ELSE IF s[i] \in T THEN Append(only[i - 1], s[i]) ELSE only[i - 1]
  <2>1. only = [i \in 0 .. l |-> body(i)]
    BY <1>2 DEF Sifts
  <2> HIDE DEF body
  <2>2. \A i \in 0 .. l : only[i] = body(i)
    BY <2>1
  <2>3. 0 \in 0 .. l /\ \A i \in 1 .. l : i \in 0 .. l /\ i # 0
    BY <1>1
  <2>4. body(0) = <<>> /\ \A i \in 1 .. l : body(i) = IF s[i] \in T THEN Append(only[i - 1], s[i])
                                                       ELSE only[i - 1]
    BY <2>3 DEF body
  <2> QED BY <2>2, <2>3, <2>4
<1> DEFINE Upto(n) == {s[i] : i \in 1 .. n}
           Q(n) == /\ only[n] \in Seq(S)
                   /\ Elems(only[n]) = Upto(n) \cap T
                   /\ Distinct(s) => Distinct(only[n])
           Bad == {n \in 0 .. l : ~Q(n)}
<1>5. Q(0)
  BY <1>4 DEF Elems, Distinct
<1>6. ASSUME NEW n \in 1 .. l, Q(n - 1)
      PROVE  Q(n)
  <2> DEFINE f == only[n - 1]
             x == s[n]
  <2>1. /\ f \in Seq(S) /\ Elems(f) = Upto(n - 1) \cap T /\ (Distinct(s) => Distinct(f))
        /\ x \in S
    BY <1>1, <1>6
  <2>2. Upto(n) = Upto(n - 1) \cup {x}
    BY <1>1
  <2>3. Distinct(s) => x \notin Upto(n - 1)
    BY <1>1 DEF Distinct
  <2>4. only[n] = IF x \in T THEN Append(f, x) ELSE f
    BY <1>4
  <2> HIDE DEF Upto, f, x
  <2>5. CASE x \in T
    <3> DEFINE g == Append(f, x)
    <3>1. only[n] = g
      BY <2>4, <2>5
    <3>2. /\ g \in Seq(S) /\ Len(g) = Len(f) + 1 /\ Len(f) \in Nat
          /\ \A i \in 1 .. Len(f) : g[i] = f[i]
          /\ g[Len(f) + 1] = x
      BY <2>1
    <3> HIDE DEF g
    <3>3. Elems(g) = Elems(f) \cup {x}
      BY <3>2 DEF Elems
    <3>4. Distinct(f) /\ x \notin Elems(f) => Distinct(g)
      BY <3>2 DEF Elems, Distinct
    <3> QED BY <2>1, <2>2, <2>3, <2>5, <3>1, <3>2, <3>3, <3>4
  <2>6. CASE x \notin T
    BY <2>1, <2>2, <2>4, <2>6
  <2> QED BY <2>5, <2>6
<1> HIDE DEF Q
<1>7. Bad = {}
  <2> SUFFICES ASSUME Bad # {} PROVE FALSE
    OBVIOUS
  <2>0. Bad \in SUBSET Nat
    BY <1>1
  <2> HIDE DEF Bad
  <2>1. PICK m \in Bad : \A k \in Bad : m <= k
    BY <2>0, LeastNatural
  <2> USE DEF Bad
  <2>2. m \in 0 .. l /\ m # 0
    BY <1>5, <2>1
  <2>3. m \in 1 .. l /\ m - 1 \in 0 .. l /\ ~(m <= m - 1)
    BY <1>1, <2>2
  <2>4. Q(m - 1)
    BY <2>1, <2>3
  <2> QED BY <1>6, <2>1, <2>3, <2>4
<1>8. Q(l)
  BY <1>1, <1>7
<1>9. Upto(l) = Elems(s)
  BY DEF Elems
<1> QED BY <1>3, <1>8, <1>9 DEF Q

\* list_del of one element.
LEMMA WithoutFacts ==
  ASSUME NEW S, NEW s \in Seq(S), NEW x
  PROVE  /\ Without(s, x) \in Seq(S) /\ Elems(Without(s, x)) = Elems(s) \ {x}
         /\ Distinct(s) => Distinct(Without(s, x))
<1> DEFINE T == Elems(s) \ {x}
<1>1. /\ Only(s, T) \in Seq(S) /\ Elems(Only(s, T)) = Elems(s) \cap T
      /\ Distinct(s) => Distinct(Only(s, T))
  BY OnlyFacts
<1> QED BY <1>1 DEF Without

\* list_add_tail.
LEMMA AppendFacts ==
  ASSUME NEW S, NEW s \in Seq(S), NEW x \in S
  PROVE  /\ Append(s, x) \in Seq(S) /\ Elems(Append(s, x)) = Elems(s) \cup {x}
         /\ Distinct(s) /\ x \notin Elems(s) => Distinct(Append(s, x))
<1> DEFINE g == Append(s, x)
<1>1. /\ g \in Seq(S) /\ Len(g) = Len(s) + 1 /\ Len(s) \in Nat
      /\ \A i \in 1 .. Len(s) : g[i] = s[i]
      /\ g[Len(s) + 1] = x
  OBVIOUS
<1> HIDE DEF g
<1>2. Elems(g) = Elems(s) \cup {x}
  BY <1>1 DEF Elems
<1>3. Distinct(s) /\ x \notin Elems(s) => Distinct(g)
  BY <1>1 DEF Elems, Distinct
<1> QED BY <1>1, <1>2, <1>3 DEF g

\* One list after the other.
LEMMA ConcatIs ==
  ASSUME NEW S, NEW s \in Seq(S), NEW t \in Seq(S)
  PROVE  /\ s \o t \in Seq(S) /\ Len(s \o t) = Len(s) + Len(t)
         /\ \A i \in 1 .. Len(s) + Len(t) : (s \o t)[i] = IF i <= Len(s) THEN s[i] ELSE t[i - Len(s)]
OBVIOUS

\* list_splice of lists that share nothing.
LEMMA ConcatFacts ==
  ASSUME NEW S, NEW s \in Seq(S), NEW t \in Seq(S)
  PROVE  /\ s \o t \in Seq(S) /\ Elems(s \o t) = Elems(s) \cup Elems(t)
         /\ Distinct(s) /\ Distinct(t) /\ Elems(s) \cap Elems(t) = {} => Distinct(s \o t)
<1> DEFINE g == s \o t
           m == Len(s)
           n == Len(t)
<1>1. /\ g \in Seq(S) /\ Len(g) = m + n /\ m \in Nat /\ n \in Nat
      /\ \A i \in 1 .. m : g[i] = s[i]
      /\ \A i \in 1 .. m + n : i > m => g[i] = t[i - m]
  OBVIOUS
<1>2. Elems(s) = {s[i] : i \in 1 .. m} /\ Elems(t) = {t[i] : i \in 1 .. n}
  BY DEF Elems
<1> HIDE DEF g, m, n
<1>3. \A i \in 1 .. m + n : i \in 1 .. m \/ (i > m /\ i - m \in 1 .. n)
  BY <1>1
<1>4. \A j \in 1 .. n : m + j \in 1 .. m + n /\ m + j > m /\ (m + j) - m = j
  BY <1>1
<1>5. Elems(g) = Elems(s) \cup Elems(t)
  <2>1. Elems(g) \subseteq Elems(s) \cup Elems(t)
    BY <1>1, <1>2, <1>3 DEF Elems
  <2>2. Elems(s) \subseteq Elems(g)
    <3>1. \A i \in 1 .. m : i \in 1 .. m + n
      BY <1>1
    <3> QED BY <1>1, <1>2, <3>1 DEF Elems
  <2>3. Elems(t) \subseteq Elems(g)
    <3> SUFFICES ASSUME NEW j \in 1 .. n PROVE t[j] \in Elems(g)
      BY <1>2
    <3>1. g[m + j] = t[j]
      BY <1>1, <1>4
    <3> QED BY <1>1, <1>4, <3>1 DEF Elems
  <2> QED BY <2>1, <2>2, <2>3
<1>6. ASSUME Distinct(s), Distinct(t), Elems(s) \cap Elems(t) = {}
      PROVE  Distinct(g)
  <2> SUFFICES ASSUME NEW i \in 1 .. m + n, NEW j \in 1 .. m + n, g[i] = g[j]
               PROVE  i = j
    BY <1>1 DEF Distinct
  <2>1. CASE i \in 1 .. m /\ j \in 1 .. m
    BY <1>1, <1>6, <2>1 DEF Distinct, m
  <2>2. CASE i \notin 1 .. m /\ j \notin 1 .. m
    <3>1. i > m /\ i - m \in 1 .. n /\ j > m /\ j - m \in 1 .. n
      BY <1>3, <2>2
    <3>2. t[i - m] = t[j - m]
      BY <1>1, <3>1
    <3>3. i - m = j - m
      BY <1>6, <3>1, <3>2 DEF Distinct, n
    <3> QED BY <1>1, <3>1, <3>3
  <2>3. CASE i \in 1 .. m /\ j \notin 1 .. m
    BY <1>1, <1>2, <1>3, <1>6, <2>3
  <2>4. CASE i \notin 1 .. m /\ j \in 1 .. m
    BY <1>1, <1>2, <1>3, <1>6, <2>4
  <2> QED BY <2>1, <2>2, <2>3, <2>4
<1> QED BY <1>1, <1>5, <1>6 DEF g

\* The rest of a list.
LEMMA TailFacts ==
  ASSUME NEW S, NEW s \in Seq(S), s # <<>>
  PROVE  /\ Head(s) \in S /\ Head(s) \in Elems(s)
         /\ Tail(s) \in Seq(S) /\ Elems(Tail(s)) \subseteq Elems(s)
         /\ Distinct(s) => Distinct(Tail(s)) /\ Head(s) \notin Elems(Tail(s))
<1> DEFINE g == Tail(s)
           m == Len(s)
<1>1. /\ m \in Nat /\ m >= 1 /\ g \in Seq(S) /\ Len(g) = m - 1 /\ Head(s) = s[1]
      /\ \A i \in 1 .. m - 1 : g[i] = s[i + 1]
      /\ \A i \in 1 .. m : s[i] \in S
  OBVIOUS
<1>2. Elems(s) = {s[i] : i \in 1 .. m}
  BY DEF Elems
<1>3. Distinct(s) <=> \A i, j \in 1 .. m : s[i] = s[j] => i = j
  BY DEF Distinct
<1> HIDE DEF g, m
<1>4. Elems(g) = {s[i + 1] : i \in 1 .. m - 1}
  BY <1>1 DEF Elems
<1>5. 1 \in 1 .. m /\ \A i \in 1 .. m - 1 : i + 1 \in 1 .. m /\ i + 1 # 1
  BY <1>1
<1>6. Distinct(s) => Distinct(g)
  <2> SUFFICES ASSUME Distinct(s), NEW i \in 1 .. m - 1, NEW j \in 1 .. m - 1, g[i] = g[j]
               PROVE  i = j
    BY <1>1 DEF Distinct
  <2>1. i + 1 = j + 1
    BY <1>1, <1>3, <1>5
  <2> QED BY <2>1
<1> QED BY <1>1, <1>2, <1>3, <1>4, <1>5, <1>6 DEF g

-----------------------------------------------------------------------------
(* The queues *)

\* The types of the fields of a VBD.
LEMMA Fields ==
  ASSUME NEW v \in VbdState
  PROVE  /\ v.new \in Seq(Reqs) /\ v.failed \in Seq(Reqs) /\ v.completed \in Seq(Reqs)
         /\ v.pending \in SUBSET Reqs /\ v.treqs \in SUBSET Treq /\ v.served \in SUBSET Treq
         /\ v.req \in [Reqs -> Vreq] /\ v.state \in SUBSET Flags
         /\ v.images \in Seq(Images) /\ v.ignore_enospc \in SUBSET Images
         /\ v.secondary \in Images \cup {NoImage} /\ v.retired \in Images \cup {NoImage}
         /\ v.flags \in SUBSET {"SECONDARY", "STANDBY"} /\ v.kind \in Kinds
         /\ v.secondary_mode \in {"DISABLED", "MIRROR", "STANDBY"}
         /\ v.ring \in {"up", "dead", "gone"}
BY DEF VbdState

\* Only the queues differ.
SameButQueues(v, w) ==
  /\ w.state = v.state /\ w.kind = v.kind /\ w.ring = v.ring /\ w.flags = v.flags
  /\ w.images = v.images /\ w.ignore_enospc = v.ignore_enospc /\ w.secondary = v.secondary
  /\ w.retired = v.retired /\ w.secondary_mode = v.secondary_mode
  /\ w.req = v.req /\ w.treqs = v.treqs /\ w.served = v.served

\* tapdisk_vbd_move_request takes the request off its queue.
LEMMA ListDel ==
  ASSUME NEW v \in VbdState, NEW r \in Reqs
  PROVE  LET w == list_del(v, r)
         IN  /\ w \in VbdState /\ SameButQueues(v, w)
             /\ w.new = Without(v.new, r) /\ w.failed = Without(v.failed, r)
             /\ w.completed = Without(v.completed, r) /\ w.pending = v.pending \ {r}
<1> DEFINE a == Without(v.new, r)
           f == Without(v.failed, r)
           d == Without(v.completed, r)
           p == v.pending \ {r}
<1>1. a \in Seq(Reqs) /\ f \in Seq(Reqs) /\ d \in Seq(Reqs) /\ p \in SUBSET Reqs
  BY Fields, WithoutFacts
<1>2. list_del(v, r) = [v EXCEPT !.new = a, !.failed = f, !.completed = d, !.pending = p]
  BY DEF list_del
<1> DEFINE w == list_del(v, r)
<1> HIDE DEF a, f, d, p, w
<1>3. /\ w \in VbdState /\ SameButQueues(v, w)
      /\ w.new = a /\ w.failed = f /\ w.completed = d /\ w.pending = p
  <2>1. w = [v EXCEPT !.new = a, !.failed = f, !.completed = d, !.pending = p]
    BY <1>2 DEF w
  <2>2. w \in VbdState
    BY <1>1, <2>1 DEF VbdState
  <2>3. SameButQueues(v, w) /\ w.new = a /\ w.failed = f /\ w.completed = d /\ w.pending = p
    BY <2>1 DEF VbdState, SameButQueues
  <2> QED BY <2>2, <2>3
<1> QED BY <1>3 DEF a, f, d, p, w

\* r goes to the end of one of the queues, and out of the one it was in.
Moved(v, r, w) ==
  /\ w \in VbdState /\ SameButQueues(v, w) /\ Queues(w)
  /\ Elems(w.new) = Elems(v.new) \ {r}
  /\ Elems(v.failed) \ {r} \subseteq Elems(w.failed)

\* The three ends of tapdisk_vbd_move_request.
LEMMA Moves ==
  ASSUME NEW v \in VbdState, NEW r \in Reqs, Queues(v), v.req[r].st = "queued"
  PROVE  /\ Moved(v, r, to_pending(v, r)) /\ to_pending(v, r).pending = v.pending \cup {r}
         /\ Moved(v, r, to_failed(v, r)) /\ to_failed(v, r).pending = v.pending \ {r}
         /\ Moved(v, r, to_completed(v, r)) /\ to_completed(v, r).pending = v.pending \ {r}
<1> DEFINE u == list_del(v, r)
<1>1. /\ u \in VbdState /\ SameButQueues(v, u)
      /\ u.new = Without(v.new, r) /\ u.failed = Without(v.failed, r)
      /\ u.completed = Without(v.completed, r) /\ u.pending = v.pending \ {r}
  BY ListDel
<1>2. /\ u.new \in Seq(Reqs) /\ u.failed \in Seq(Reqs) /\ u.completed \in Seq(Reqs)
      /\ Elems(u.new) = Elems(v.new) \ {r} /\ Elems(u.failed) = Elems(v.failed) \ {r}
      /\ Elems(u.completed) = Elems(v.completed) \ {r}
      /\ Distinct(u.new) /\ Distinct(u.failed) /\ Distinct(u.completed)
  BY <1>1, Fields, WithoutFacts DEF Queues
<1>3. \A q \in Reqs : v.req[q].st = "queued" <=>
        q \in u.pending \cup Elems(u.new) \cup Elems(u.failed) \cup Elems(u.completed) \cup {r}
  BY <1>1, <1>2 DEF Queues
<1>4. /\ Elems(u.new) \cap Elems(u.failed) = {} /\ Elems(u.new) \cap Elems(u.completed) = {}
      /\ Elems(u.failed) \cap Elems(u.completed) = {}
      /\ u.pending \cap (Elems(u.new) \cup Elems(u.failed) \cup Elems(u.completed)) = {}
      /\ r \notin Elems(u.new) /\ r \notin Elems(u.failed) /\ r \notin Elems(u.completed)
      /\ r \notin u.pending
  BY <1>1, <1>2 DEF Queues
<1>5. u.pending \in SUBSET Reqs /\ u.req = v.req
  BY <1>1, Fields DEF SameButQueues
<1>6. \A w : SameButQueues(u, w) => SameButQueues(v, w)
  BY <1>1 DEF SameButQueues
<1>7. /\ to_pending(v, r) = [u EXCEPT !.pending = @ \cup {r}]
      /\ to_failed(v, r) = [u EXCEPT !.failed = Append(@, r)]
      /\ to_completed(v, r) = [u EXCEPT !.completed = Append(@, r)]
  BY DEF to_pending, to_failed, to_completed
<1> HIDE DEF u
<1>8. /\ Moved(v, r, to_pending(v, r)) /\ to_pending(v, r).pending = v.pending \cup {r}
  <2> DEFINE w == [u EXCEPT !.pending = @ \cup {r}]
  <2>1. w \in VbdState
    BY <1>1, <1>5 DEF VbdState
  <2>2. /\ SameButQueues(u, w) /\ w.new = u.new /\ w.failed = u.failed
        /\ w.completed = u.completed /\ w.pending = u.pending \cup {r}
    BY <1>1 DEF VbdState, SameButQueues
  <2> HIDE DEF w
  <2>3. SameButQueues(v, w) /\ w.req = v.req
    BY <1>6, <2>2 DEF SameButQueues
  <2>4. \A q \in Reqs : w.req[q].st = "queued" <=>
          q \in w.pending \cup Elems(w.new) \cup Elems(w.failed) \cup Elems(w.completed)
    BY <1>3, <2>2, <2>3
  <2>5. Queues(w)
    BY <1>2, <1>4, <2>2, <2>4 DEF Queues
  <2>6. w.pending = v.pending \cup {r}
    BY <1>1, <2>2
  <2>7. Moved(v, r, w)
    BY <1>2, <2>1, <2>2, <2>3, <2>5 DEF Moved
  <2>8. to_pending(v, r) = w
    BY <1>7 DEF w
  <2> QED BY <2>6, <2>7, <2>8
<1>9. /\ Moved(v, r, to_failed(v, r)) /\ to_failed(v, r).pending = v.pending \ {r}
  <2> DEFINE s == Append(u.failed, r)
             w == [u EXCEPT !.failed = s]
  <2>1. s \in Seq(Reqs) /\ Elems(s) = Elems(u.failed) \cup {r} /\ Distinct(s)
    BY <1>2, <1>4, AppendFacts
  <2>2. to_failed(v, r) = w
    BY <1>7
  <2> HIDE DEF s
  <2>3. w \in VbdState
    BY <1>1, <2>1 DEF VbdState
  <2>4. /\ SameButQueues(u, w) /\ w.new = u.new /\ w.failed = s
        /\ w.completed = u.completed /\ w.pending = u.pending
    BY <1>1 DEF VbdState, SameButQueues
  <2> HIDE DEF w
  <2>5. SameButQueues(v, w) /\ w.req = v.req
    BY <1>6, <2>4 DEF SameButQueues
  <2>6. \A q \in Reqs : w.req[q].st = "queued" <=>
          q \in w.pending \cup Elems(w.new) \cup Elems(w.failed) \cup Elems(w.completed)
    BY <1>3, <2>1, <2>4, <2>5
  <2>7. Queues(w)
    BY <1>2, <1>4, <2>1, <2>4, <2>6 DEF Queues
  <2>8. w.pending = v.pending \ {r}
    BY <1>1, <2>4
  <2>9. Moved(v, r, w)
    BY <1>2, <2>1, <2>3, <2>4, <2>5, <2>7 DEF Moved
  <2> QED BY <2>2, <2>8, <2>9
<1>10. /\ Moved(v, r, to_completed(v, r)) /\ to_completed(v, r).pending = v.pending \ {r}
  <2> DEFINE s == Append(u.completed, r)
             w == [u EXCEPT !.completed = s]
  <2>1. s \in Seq(Reqs) /\ Elems(s) = Elems(u.completed) \cup {r} /\ Distinct(s)
    BY <1>2, <1>4, AppendFacts
  <2>2. to_completed(v, r) = w
    BY <1>7
  <2> HIDE DEF s
  <2>3. w \in VbdState
    BY <1>1, <2>1 DEF VbdState
  <2>4. /\ SameButQueues(u, w) /\ w.new = u.new /\ w.completed = s
        /\ w.failed = u.failed /\ w.pending = u.pending
    BY <1>1 DEF VbdState, SameButQueues
  <2> HIDE DEF w
  <2>5. SameButQueues(v, w) /\ w.req = v.req
    BY <1>6, <2>4 DEF SameButQueues
  <2>6. \A q \in Reqs : w.req[q].st = "queued" <=>
          q \in w.pending \cup Elems(w.new) \cup Elems(w.failed) \cup Elems(w.completed)
    BY <1>3, <2>1, <2>4, <2>5
  <2>7. Queues(w)
    BY <1>2, <1>4, <2>1, <2>4, <2>6 DEF Queues
  <2>8. w.pending = v.pending \ {r}
    BY <1>1, <2>4
  <2>9. Moved(v, r, w)
    BY <1>2, <2>1, <2>3, <2>4, <2>5, <2>7 DEF Moved
  <2> QED BY <2>2, <2>8, <2>9
<1> QED BY <1>8, <1>9, <1>10

\* What the rest of the invariant says of a VBD.
LEMMA Frame ==
  ASSUME NEW v, NEW w, NEW c, NEW n, SameButQueues(v, w)
  PROVE  /\ \A r : Held(w, r) = Held(v, r)
         /\ Counted(v, c, n) => Counted(w, c, n)
         /\ Submitting(v, c) => Submitting(w, c)
         /\ ReadsOnce(v) => ReadsOnce(w)
         /\ ChainOK(v) => ChainOK(w)
         /\ MirrorOpen(v) => MirrorOpen(w)
         /\ HeldOpen(v) => HeldOpen(w)
<1>1. \A r : Held(w, r) = Held(v, r)
  BY DEF SameButQueues, Held
<1>2. Counted(v, c, n) => Counted(w, c, n)
  BY <1>1 DEF SameButQueues, Counted
<1>3. Submitting(v, c) => Submitting(w, c)
  BY DEF SameButQueues, Submitting
<1>4. ReadsOnce(v) => ReadsOnce(w)
  BY DEF SameButQueues, ReadsOnce
<1>5. ChainOK(v) => ChainOK(w)
  BY DEF SameButQueues, ChainOK
<1>6. MirrorOpen(v) => MirrorOpen(w)
  BY DEF SameButQueues, MirrorOpen
<1>7. HeldOpen(v) => HeldOpen(w)
  BY DEF SameButQueues, HeldOpen, Open
<1> QED BY <1>1, <1>2, <1>3, <1>4, <1>5, <1>6, <1>7

\* A VBD of which nothing is amiss but that r, none of whose I/Os is out, may still be
\* on the queue of pending requests.
Ending(v, c, n, r) ==
  /\ v \in VbdState /\ r \in Reqs /\ r # c
  /\ Queues(v) /\ Counted(v, c, n) /\ Submitting(v, c)
  /\ ReadsOnce(v) /\ ChainOK(v) /\ MirrorOpen(v) /\ HeldOpen(v)
  /\ v.req[r].st = "queued" /\ Held(v, r) = {}
  /\ \A q \in Reqs \ {r} : q \in v.pending <=> Held(v, q) # {} \/ q = c
  /\ "PAUSED" \in v.state => "QUIESCED" \in v.state /\ v.images = <<>>
  /\ "QUIESCED" \in v.state \/ v.images = <<>> => v.pending \subseteq {r}

\* tapdisk_vbd_complete_vbd_request of a request whose last I/O is over.
LEMMA Retired ==
  ASSUME NEW v, NEW c, NEW n \in Nat, NEW r, Ending(v, c, n, r)
  PROVE  /\ Sound(complete_vbd_request(v, r), c, n) /\ Moved(v, r, complete_vbd_request(v, r))
<1> DEFINE w == complete_vbd_request(v, r)
<1>1. v \in VbdState /\ r \in Reqs /\ Queues(v) /\ v.req[r].st = "queued"
  BY DEF Ending
<1>2. v.req[r].submitting = 0 /\ v.req[r].secs = 0
  <2>1. Cardinality(Held(v, r)) = 0
    BY FS_EmptySet DEF Ending
  <2>2. v.req[r].secs = Cardinality(Held(v, r)) + 0
    BY DEF Ending, Counted
  <2>3. v.req[r].submitting = 0
    BY DEF Ending, Submitting
  <2> QED BY <2>1, <2>2, <2>3
<1>3. w \in {to_failed(v, r), to_completed(v, r)}
  BY <1>2 DEF complete_vbd_request
<1> HIDE DEF w
<1>4. Moved(v, r, w) /\ w.pending = v.pending \ {r}
  BY <1>1, <1>3, Moves
<1>5. SameButQueues(v, w) /\ w \in VbdState /\ Queues(w)
  BY <1>4 DEF Moved
<1>6. /\ Counted(w, c, n) /\ Submitting(w, c) /\ ReadsOnce(w) /\ ChainOK(w) /\ MirrorOpen(w)
      /\ HeldOpen(w) /\ \A q : Held(w, q) = Held(v, q)
  BY <1>5, Frame DEF Ending
<1>7. Waiting(w, c)
  BY <1>4, <1>6 DEF Ending, Waiting
<1>8. Quiet(w)
  <2>1. w.state = v.state /\ w.images = v.images
    BY <1>5 DEF SameButQueues
  <2> QED BY <1>4, <2>1 DEF Ending, Quiet
<1>9. Sound(w, c, n)
  BY <1>5, <1>6, <1>7, <1>8 DEF Sound
<1> QED BY <1>4, <1>9 DEF w

-----------------------------------------------------------------------------
(* The chain of images *)

\* The chains, one by one.
LEMMA ChainElems ==
  /\ <<>> \in Seq(Images) /\ Elems(<<>>) = {}
  /\ <<"base">> \in Seq(Images) /\ Elems(<<"base">>) = {"base"}
  /\ <<"leaf", "base">> \in Seq(Images) /\ Elems(<<"leaf", "base">>) = {"leaf", "base"}
  /\ <<"second", "base">> \in Seq(Images) /\ Elems(<<"second", "base">>) = {"second", "base"}
  /\ <<"leaf", "second", "base">> \in Seq(Images)
  /\ Elems(<<"leaf", "second", "base">>) = {"leaf", "second", "base"}
  /\ <<"second", "leaf", "base">> \in Seq(Images)
  /\ Elems(<<"second", "leaf", "base">>) = {"second", "leaf", "base"}
<1>1. <<>> \in Seq(Images) /\ Elems(<<>>) = {}
  BY DEF Elems
<1>2. ASSUME NEW a \in Images
      PROVE  <<a>> \in Seq(Images) /\ Elems(<<a>>) = {a}
  BY DEF Elems
<1>3. ASSUME NEW a \in Images, NEW b \in Images
      PROVE  <<a, b>> \in Seq(Images) /\ Elems(<<a, b>>) = {a, b}
  <2>1. 1 .. 2 = {1, 2} /\ Len(<<a, b>>) = 2
    OBVIOUS
  <2> QED BY <2>1 DEF Elems
<1>4. ASSUME NEW a \in Images, NEW b \in Images, NEW c \in Images
      PROVE  <<a, b, c>> \in Seq(Images) /\ Elems(<<a, b, c>>) = {a, b, c}
  <2>1. 1 .. 3 = {1, 2, 3} /\ Len(<<a, b, c>>) = 3
    OBVIOUS
  <2> QED BY <2>1 DEF Elems
<1>5. "leaf" \in Images /\ "second" \in Images /\ "base" \in Images
  BY DEF Images
<1> QED BY <1>1, <1>2, <1>3, <1>4, <1>5

\* Every chain ends with the base image.
LEMMA ChainEnds ==
  ASSUME NEW s \in Chains, s # <<>>
  PROVE  /\ s \in Seq(Images) /\ Len(s) \in 1 .. 3 /\ s[Len(s)] = "base"
         /\ \A i \in 1 .. Len(s) : s[i] = "base" => i = Len(s)
         /\ Head(s) = s[1] /\ \A i \in 1 .. Len(s) : s[i] \in Elems(s) /\ s[i] \in Images
         /\ Elems(s) \subseteq Images
<1>1. s \in Seq(Images)
  BY ChainElems DEF Chains
<1>2. Len(s) \in 1 .. 3 /\ s[Len(s)] = "base" /\ \A i \in 1 .. Len(s) : s[i] = "base" => i = Len(s)
  BY DEF Chains
<1> QED BY <1>1, <1>2 DEF Elems

\* What Only leaves of a short list.
LEMMA OnlySteps ==
  ASSUME NEW S, NEW s \in Seq(S), NEW T
  PROVE  \E F : /\ F[0] = <<>> /\ Only(s, T) = F[Len(s)]
                /\ \A i \in 1 .. Len(s) : F[i] = IF s[i] \in T THEN Append(F[i - 1], s[i]) ELSE F[i - 1]
<1> DEFINE l == Len(s)
           only == CHOOSE F : Sifts(s, T, l, F)
<1>1. l \in Nat
  OBVIOUS
<1>2. Sifts(s, T, l, only)
  BY <1>1, SiftExists
<1>3. Only(s, T) = only[l]
  BY DEF Only, Sifts
<1> HIDE DEF only
<1> DEFINE body(i) == IF i = 0 THEN <<>>
                      ELSE IF s[i] \in T THEN Append(only[i - 1], s[i]) ELSE only[i - 1]
<1>4. only = [i \in 0 .. l |-> body(i)]
  BY <1>2 DEF Sifts
<1> HIDE DEF body
<1>5. \A i \in 0 .. l : only[i] = body(i)
  BY <1>4
<1>6. 0 \in 0 .. l /\ \A i \in 1 .. l : i \in 0 .. l /\ i # 0
  BY <1>1
<1>7. body(0) = <<>> /\ \A i \in 1 .. l : body(i) = IF s[i] \in T THEN Append(only[i - 1], s[i])
                                                    ELSE only[i - 1]
  BY <1>6 DEF body
<1> QED BY <1>3, <1>5, <1>6, <1>7

\* Lists of one and of two elements.
LEMMA Appends ==
  ASSUME NEW a, NEW b
  PROVE  Append(<<>>, a) = <<a>> /\ Append(<<a>>, b) = <<a, b>>
<1> DEFINE S == {a, b}
<1>1. ASSUME NEW s \in Seq(S), NEW t \in Seq(S), Len(s) = Len(t),
             \A i \in 1 .. Len(s) : s[i] = t[i]
      PROVE  s = t
  <2>1. s = [i \in 1 .. Len(s) |-> s[i]] /\ t = [i \in 1 .. Len(t) |-> t[i]]
    OBVIOUS
  <2> QED BY <1>1, <2>1
<1>2. /\ Append(<<>>, a) \in Seq(S) /\ <<a>> \in Seq(S) /\ Len(Append(<<>>, a)) = 1
      /\ Len(<<a>>) = 1 /\ Append(<<>>, a)[1] = a /\ <<a>>[1] = a
  OBVIOUS
<1>3. /\ Append(<<a>>, b) \in Seq(S) /\ <<a, b>> \in Seq(S) /\ Len(Append(<<a>>, b)) = 2
      /\ Len(<<a, b>>) = 2 /\ Append(<<a>>, b)[1] = a /\ Append(<<a>>, b)[2] = b
      /\ <<a, b>>[1] = a /\ <<a, b>>[2] = b
  OBVIOUS
<1> HIDE DEF S
<1>4. Append(<<>>, a) = <<a>>
  BY <1>1, <1>2
<1>5. Append(<<a>>, b) = <<a, b>>
  <2> DEFINE s == Append(<<a>>, b)
             t == <<a, b>>
  <2>1. /\ s \in Seq(S) /\ t \in Seq(S) /\ Len(s) = 2 /\ Len(t) = 2
        /\ s[1] = t[1] /\ s[2] = t[2]
    BY <1>3
  <2> HIDE DEF s, t
  <2>2. \A i \in 1 .. 2 : s[i] = t[i]
    <3>1. 1 .. 2 = {1, 2}
      OBVIOUS
    <3> QED BY <2>1, <3>1
  <2>3. s = t
    BY <1>1, <2>1, <2>2
  <2> QED BY <2>3 DEF s, t
<1> QED BY <1>4, <1>5

\* A chain without its secondary image.
LEMMA WithoutSecond ==
  ASSUME NEW s \in Chains, s # <<>>
  PROVE  /\ Without(s, "second") \in {<<"base">>, <<"leaf", "base">>}
         /\ Elems(Without(s, "second")) = Elems(s) \ {"second"}
<1> DEFINE T == Elems(s) \ {"second"}
<1>1. s \in Seq(Images) /\ Len(s) \in {1, 2, 3}
  BY ChainEnds
<1>2. PICK F : /\ F[0] = <<>> /\ Only(s, T) = F[Len(s)]
               /\ \A i \in 1 .. Len(s) : F[i] = IF s[i] \in T THEN Append(F[i - 1], s[i]) ELSE F[i - 1]
  BY <1>1, OnlySteps
<1>3. Without(s, "second") = F[Len(s)]
  BY <1>2 DEF Without
<1>4. \A i \in 1 .. Len(s) : s[i] \in T <=> s[i] # "second"
  BY <1>1 DEF Elems
<1> HIDE DEF T
<1>5. /\ Append(<<>>, "base") = <<"base">> /\ Append(<<>>, "leaf") = <<"leaf">>
      /\ Append(<<"leaf">>, "base") = <<"leaf", "base">>
  BY Appends
<1> DEFINE l == Len(s)
<1>6. ASSUME NEW i \in 1 .. l
      PROVE  F[i] = IF s[i] = "second" THEN F[i - 1] ELSE Append(F[i - 1], s[i])
  BY <1>2, <1>4, <1>6
<1>7. /\ 1 \in 1 .. l /\ 1 - 1 = 0 /\ (l = 2 => 2 \in 1 .. l) /\ 2 - 1 = 1
      /\ (l = 3 => 2 \in 1 .. l /\ 3 \in 1 .. l) /\ 3 - 1 = 2
  BY <1>1, SMTT(30)
<1>8. F[1] = IF s[1] = "second" THEN <<>> ELSE Append(<<>>, s[1])
  BY <1>2, <1>6, <1>7
<1>9. l \in {2, 3} => F[2] = IF s[2] = "second" THEN F[1] ELSE Append(F[1], s[2])
  BY <1>6, <1>7
<1>10. l = 3 => F[3] = IF s[3] = "second" THEN F[2] ELSE Append(F[2], s[3])
  BY <1>6, <1>7
<1>11. F[l] \in {<<"base">>, <<"leaf", "base">>}
  <2>1. CASE s = <<"base">>
    <3>1. l = 1 /\ s[1] = "base"
      BY <2>1
    <3> QED BY <1>5, <1>8, <3>1
  <2>2. CASE s = <<"leaf", "base">>
    <3>1. l = 2 /\ s[1] = "leaf" /\ s[2] = "base"
      BY <2>2
    <3> HIDE DEF l
    <3> QED BY <1>5, <1>8, <1>9, <3>1
  <2>3. CASE s = <<"second", "base">>
    <3>1. l = 2 /\ s[1] = "second" /\ s[2] = "base"
      BY <2>3
    <3> HIDE DEF l
    <3> QED BY <1>5, <1>8, <1>9, <3>1
  <2>4. CASE s = <<"leaf", "second", "base">>
    <3>1. l = 3 /\ s[1] = "leaf" /\ s[2] = "second" /\ s[3] = "base"
      BY <2>4
    <3> HIDE DEF l
    <3> QED BY <1>5, <1>8, <1>9, <1>10, <3>1
  <2>5. CASE s = <<"second", "leaf", "base">>
    <3>1. l = 3 /\ s[1] = "second" /\ s[2] = "leaf" /\ s[3] = "base"
      BY <2>5
    <3> HIDE DEF l
    <3> QED BY <1>5, <1>8, <1>9, <1>10, <3>1
  <2> QED BY <2>1, <2>2, <2>3, <2>4, <2>5 DEF Chains
<1>12. Elems(Without(s, "second")) = Elems(s) \ {"second"}
  BY <1>1, WithoutFacts
<1> QED BY <1>3, <1>11, <1>12

\* Only the images differ.
SameIO(v, w) ==
  /\ w.state = v.state /\ w.kind = v.kind /\ w.ring = v.ring /\ w.flags = v.flags
  /\ w.new = v.new /\ w.pending = v.pending /\ w.failed = v.failed /\ w.completed = v.completed
  /\ w.req = v.req /\ w.treqs = v.treqs /\ w.served = v.served

\* An image that was open still is, as far as I/Os may be with it.
Onward(v, w) ==
  /\ \A i \in Images : i \in Open(v) => i \in Open(w)
  /\ v.images # <<>> => w.images # <<>>
  /\ w.secondary_mode = "MIRROR" => v.secondary_mode = "MIRROR"
  /\ w.state = v.state
  /\ \A r \in Reqs : w.req[r].op = v.req[r].op

WithImages(v, s, x, y, m) ==
  [v EXCEPT !.images = s, !.secondary = x, !.retired = y, !.secondary_mode = m]

\* What a change of the images leaves alone.
Rehung(v, s, x, y, m, w) ==
  /\ w \in VbdState /\ SameIO(v, w) /\ w.images = s /\ w.secondary = x /\ w.retired = y
  /\ w.secondary_mode = m /\ w.ignore_enospc = v.ignore_enospc

\* What a change of the images leaves alone is left alone.
LEMMA ImagesReplaced ==
  ASSUME NEW v \in VbdState, NEW s \in Seq(Images), NEW x \in Images \cup {NoImage},
         NEW y \in Images \cup {NoImage}, NEW m \in {"DISABLED", "MIRROR", "STANDBY"}
  PROVE  Rehung(v, s, x, y, m, WithImages(v, s, x, y, m))
<1> DEFINE w == WithImages(v, s, x, y, m)
<1>1. w \in VbdState
  BY DEF VbdState, WithImages
<1>2. /\ SameIO(v, w) /\ w.images = s /\ w.secondary = x /\ w.retired = y
      /\ w.secondary_mode = m /\ w.ignore_enospc = v.ignore_enospc
  BY DEF VbdState, SameIO, WithImages
<1> QED BY <1>1, <1>2 DEF Rehung

\* A change of the images that keeps the open ones open keeps the invariant.
LEMMA ImagesFrame ==
  ASSUME NEW v, NEW w \in VbdState, NEW c, NEW n, Sound(v, c, n), SameIO(v, w),
         \A i \in Images : i \in Open(v) => i \in Open(w),
         v.images # <<>>, w.images # <<>>, ChainOK(w), w.secondary_mode = "DISABLED"
  PROVE  Sound(w, c, n) /\ Onward(v, w)
<1>1. Queues(w)
  BY DEF Sound, Queues, SameIO
<1>2. \A r : Held(w, r) = Held(v, r)
  BY DEF Held, SameIO
<1>3. Counted(w, c, n)
  BY <1>2 DEF Sound, Counted, SameIO
<1>4. Submitting(w, c)
  BY DEF Sound, Submitting, SameIO
<1>5. Waiting(w, c)
  BY <1>2 DEF Sound, Waiting, SameIO
<1>6. ReadsOnce(w)
  BY DEF Sound, ReadsOnce, SameIO
<1>7. MirrorOpen(w)
  BY DEF MirrorOpen
<1>8. HeldOpen(w)
  <2>1. \A t \in v.treqs : t.image \in Images
    BY DEF Sound, VbdState, Treq
  <2> QED BY <2>1 DEF Sound, HeldOpen, SameIO
<1>9. Quiet(w)
  BY DEF Sound, Quiet, SameIO
<1>10. Onward(v, w)
  BY DEF Onward, SameIO
<1> QED BY <1>1, <1>3, <1>4, <1>5, <1>6, <1>7, <1>8, <1>9, <1>10 DEF Sound

\* ENOSPC on the leaf: it is left to itself, or the standby image goes in front of it.
LEMMA Enospc ==
  ASSUME NEW v, NEW c, NEW n, Sound(v, c, n), v.images # <<>>, v.ignore_enospc # {}
  PROVE  Sound(on_enospc(v), c, n) /\ Onward(v, on_enospc(v)) /\ SameIO(v, on_enospc(v))
<1> DEFINE w == on_enospc(v)
<1>1. /\ v \in VbdState /\ ChainOK(v) /\ v.images \in Seq(Images) /\ v.secondary \in Images \cup {NoImage}
      /\ v.retired \in Images \cup {NoImage}
  BY Fields DEF Sound
<1>2. CASE v.secondary_mode = "MIRROR"
  <2> DEFINE s == Tail(v.images)
  <2>1. v.images \in {<<"leaf", "base">>, <<"leaf", "second", "base">>} /\ v.retired = NoImage
    BY <1>1, <1>2 DEF ChainOK
  <2>2. /\ Head(v.images) = "leaf" /\ s \in {<<"base">>, <<"second", "base">>}
        /\ s \in Seq(Images) /\ Elems(s) = Elems(v.images) \ {"leaf"}
    <3>1. CASE v.images = <<"leaf", "base">>
      <4>1. Tail(<<"leaf", "base">>) = <<"base">>
        BY <1>1
      <4> QED BY <3>1, <4>1, ChainElems
    <3>2. CASE v.images = <<"leaf", "second", "base">>
      <4>1. Tail(<<"leaf", "second", "base">>) = <<"second", "base">>
        BY <1>1
      <4> QED BY <3>2, <4>1, ChainElems
    <3> QED BY <2>1, <3>1, <3>2
  <2>3. w = WithImages(v, s, NoImage, "leaf", "DISABLED")
    BY <1>1, <1>2, <2>2 DEF on_enospc, disable_secondary, VbdState, WithImages
  <2> HIDE DEF w, s
  <2>4. /\ w \in VbdState /\ SameIO(v, w) /\ w.images = s /\ w.secondary = NoImage
        /\ w.retired = "leaf" /\ w.secondary_mode = "DISABLED"
        /\ w.ignore_enospc = v.ignore_enospc
    <3>1. "leaf" \in Images
      BY DEF Images
    <3>2. Rehung(v, s, NoImage, "leaf", "DISABLED", w)
      BY <1>1, <2>2, <2>3, <3>1, ImagesReplaced
    <3> QED BY <3>2 DEF Rehung
  <2>5. \A i \in Images : i \in Open(v) => i \in Open(w)
    <3>1. NoImage \notin Images
      BY ConstantsAssumption
    <3> QED BY <2>1, <2>2, <2>4, <3>1 DEF Open
  <2>6. w.images # <<>>
    <3>1. s # <<>>
      BY <2>2, ChainElems
    <3> QED BY <2>4, <3>1
  <2>7. ChainOK(w)
    <3>1. w.flags = v.flags /\ w.kind = v.kind
      BY <2>4 DEF SameIO
    <3>2. s \in Chains
      BY <2>2 DEF Chains
    <3> QED BY <1>1, <2>4, <2>6, <3>1, <3>2 DEF ChainOK
  <2> QED BY <2>4, <2>5, <2>6, <2>7, ImagesFrame DEF w
<1>3. CASE v.secondary_mode = "STANDBY"
  <2> DEFINE s == <<"second">> \o v.images
  <2>1. v.images = <<"leaf", "base">> /\ v.secondary = "second"
    BY <1>1, <1>3 DEF ChainOK
  <2>2. s = <<"second", "leaf", "base">>
    <3> DEFINE t == <<"second", "leaf", "base">>
               a == <<"second">>
               b == <<"leaf", "base">>
    <3>1. /\ a \in Seq(Images) /\ b \in Seq(Images) /\ t \in Seq(Images)
          /\ Len(a) = 1 /\ Len(b) = 2 /\ Len(t) = 3 /\ a[1] = "second" /\ b[1] = "leaf" /\ b[2] = "base"
          /\ t[1] = "second" /\ t[2] = "leaf" /\ t[3] = "base"
      BY DEF Images
    <3>2. s = a \o b
      BY <2>1
    <3> HIDE DEF a, b, t, s
    <3>3. /\ s \in Seq(Images) /\ Len(s) = 3 /\ s[1] = a[1]
          /\ s[2] = b[1] /\ s[3] = b[2]
      <4>0. /\ a \o b \in Seq(Images) /\ Len(a \o b) = Len(a) + Len(b)
            /\ \A i \in 1 .. Len(a) + Len(b) : (a \o b)[i] = IF i <= Len(a) THEN a[i] ELSE b[i - Len(a)]
        BY <3>1, ConcatIs
      <4>1. s \in Seq(Images) /\ Len(s) = 3
        BY <3>1, <3>2, <4>0
      <4>2. \A i \in 1 .. 3 : s[i] = IF i <= 1 THEN a[i] ELSE b[i - 1]
        BY <3>1, <3>2, <4>0
      <4>3. 1 \in 1 .. 3 /\ 2 \in 1 .. 3 /\ 3 \in 1 .. 3 /\ 2 - 1 = 1 /\ 3 - 1 = 2
        OBVIOUS
      <4> QED BY <4>1, <4>2, <4>3
    <3>4. 1 .. 3 = {1, 2, 3}
      OBVIOUS
    <3>5. \A i \in 1 .. 3 : s[i] = t[i]
      BY <3>1, <3>3, <3>4
    <3>6. s = [i \in 1 .. 3 |-> s[i]] /\ t = [i \in 1 .. 3 |-> t[i]]
      BY <3>1, <3>3
    <3>7. s = t
      BY <3>5, <3>6
    <3> QED BY <3>7 DEF t
  <2>3. s \in Seq(Images) /\ Elems(v.images) \subseteq Elems(s)
    BY <2>1, <2>2, ChainElems
  <2>4. w = WithImages(v, s, NoImage, v.retired, "DISABLED")
    BY <1>1, <1>3, <2>1 DEF on_enospc, disable_secondary, VbdState, WithImages
  <2> HIDE DEF w, s
  <2>5. /\ w \in VbdState /\ SameIO(v, w) /\ w.images = s /\ w.secondary = NoImage
        /\ w.retired = v.retired /\ w.secondary_mode = "DISABLED"
        /\ w.ignore_enospc = v.ignore_enospc
    <3>1. Rehung(v, s, NoImage, v.retired, "DISABLED", w)
      BY <1>1, <2>3, <2>4, ImagesReplaced
    <3> QED BY <3>1 DEF Rehung
  <2>6. \A i \in Images : i \in Open(v) => i \in Open(w)
    BY <2>3, <2>5 DEF Open
  <2>7. w.images # <<>>
    BY <2>2, <2>5
  <2>8. ChainOK(w)
    <3>1. w.flags = v.flags /\ w.kind = v.kind
      BY <2>5 DEF SameIO
    <3>2. s \in Chains
      BY <2>2 DEF Chains
    <3> QED BY <1>1, <2>5, <2>7, <3>1, <3>2 DEF ChainOK
  <2> QED BY <2>5, <2>6, <2>7, <2>8, ImagesFrame DEF w
<1>4. CASE v.secondary_mode \notin {"MIRROR", "STANDBY"}
  <2>1. w = v
    BY <1>4 DEF on_enospc
  <2> QED BY <2>1 DEF Onward, SameIO
<1> QED BY <1>2, <1>3, <1>4

\* An NBD mirror that fails is taken out of the chain.
LEMMA NbdError ==
  ASSUME NEW v, NEW c, NEW n, Sound(v, c, n), v.images # <<>>, v.kind = "nbd",
         "second" \in {v.secondary, v.retired}
  PROVE  /\ Sound(on_nbd_error(v, "second"), c, n) /\ Onward(v, on_nbd_error(v, "second"))
         /\ SameIO(v, on_nbd_error(v, "second"))
<1> DEFINE w == on_nbd_error(v, "second")
           s == Without(v.images, "second")
<1>1. v \in VbdState /\ ChainOK(v) /\ v.images \in Chains
  BY DEF Sound, ChainOK
<1>2. /\ s \in {<<"base">>, <<"leaf", "base">>} /\ Elems(s) = Elems(v.images) \ {"second"}
  BY <1>1, WithoutSecond
<1>3. s \in Seq(Images) /\ s # <<>> /\ s \in Chains /\ "second" \in Images /\ NoImage \notin Images
  <2>1. s \in Chains /\ s # <<>>
    BY <1>2 DEF Chains
  <2> QED BY <1>2, <2>1, ChainElems, ConstantsAssumption DEF Images
<1>4. /\ v.secondary_mode # "STANDBY"
      /\ v.secondary_mode = "DISABLED" => v.secondary = NoImage /\ v.retired = "second"
      /\ v.secondary_mode = "MIRROR" => v.retired = NoImage
      /\ v.secondary_mode \in {"DISABLED", "MIRROR"}
  <2>1. v.secondary_mode # "STANDBY"
    BY <1>1 DEF ChainOK
  <2>2. v.secondary_mode = "DISABLED" => v.secondary = NoImage
    BY <1>1 DEF ChainOK
  <2>3. v.secondary_mode = "MIRROR" => v.retired = NoImage
    BY <1>1 DEF ChainOK
  <2> QED BY <1>1, <1>3, <2>1, <2>2, <2>3, Fields
<1>5. w = WithImages(v, s, NoImage, "second", "DISABLED")
  <2>1. CASE v.secondary_mode = "MIRROR"
    BY <1>1, <2>1 DEF on_nbd_error, disable_secondary, VbdState, WithImages
  <2>2. CASE v.secondary_mode = "DISABLED"
    BY <1>1, <1>4, <2>2 DEF on_nbd_error, VbdState, WithImages
  <2> QED BY <1>4, <2>1, <2>2
<1> HIDE DEF w, s
<1>6. /\ w \in VbdState /\ SameIO(v, w) /\ w.images = s /\ w.secondary = NoImage
      /\ w.retired = "second" /\ w.secondary_mode = "DISABLED"
      /\ w.ignore_enospc = v.ignore_enospc
  <2>1. Rehung(v, s, NoImage, "second", "DISABLED", w)
    BY <1>1, <1>3, <1>5, ImagesReplaced
  <2> QED BY <2>1 DEF Rehung
<1>7. \A i \in Images : i \in Open(v) => i \in Open(w)
  BY <1>2, <1>3, <1>4, <1>6 DEF Open
<1>8. ChainOK(w)
  <2>1. w.flags = v.flags /\ w.kind = v.kind
    BY <1>6 DEF SameIO
  <2> QED BY <1>1, <1>3, <1>6, <2>1 DEF ChainOK
<1> QED BY <1>3, <1>6, <1>7, <1>8, ImagesFrame DEF w

-----------------------------------------------------------------------------
(* The end of an I/O *)

\* Only the requests and the I/Os differ, and of the requests what concerns I/O.
SameButTreqs(v, w) ==
  /\ w.state = v.state /\ w.kind = v.kind /\ w.ring = v.ring /\ w.flags = v.flags
  /\ w.images = v.images /\ w.ignore_enospc = v.ignore_enospc /\ w.secondary = v.secondary
  /\ w.retired = v.retired /\ w.secondary_mode = v.secondary_mode
  /\ w.new = v.new /\ w.pending = v.pending /\ w.failed = v.failed /\ w.completed = v.completed
  /\ \A q \in Reqs : /\ w.req[q].st = v.req[q].st /\ w.req[q].op = v.req[q].op
                     /\ w.req[q].submitting = v.req[q].submitting

\* What the invariant says of queues and images does not depend on I/Os.
LEMMA TreqsFrame ==
  ASSUME NEW v, NEW w, NEW c, SameButTreqs(v, w)
  PROVE  /\ Queues(v) => Queues(w)
         /\ Submitting(v, c) => Submitting(w, c)
         /\ ChainOK(v) => ChainOK(w)
         /\ MirrorOpen(v) => MirrorOpen(w)
         /\ Quiet(v) => Quiet(w)
         /\ Onward(v, w) /\ Open(w) = Open(v)
<1>1. Queues(v) => Queues(w)
  BY DEF SameButTreqs, Queues
<1>2. Submitting(v, c) => Submitting(w, c)
  BY DEF SameButTreqs, Submitting
<1>3. ChainOK(v) => ChainOK(w)
  BY DEF SameButTreqs, ChainOK
<1>4. MirrorOpen(v) => MirrorOpen(w)
  BY DEF SameButTreqs, MirrorOpen
<1>5. Quiet(v) => Quiet(w)
  BY DEF SameButTreqs, Quiet
<1>6. Onward(v, w) /\ Open(w) = Open(v)
  BY DEF SameButTreqs, Onward, Open
<1> QED BY <1>1, <1>2, <1>3, <1>4, <1>5, <1>6

\* What becomes of a VBD whose driver ends, passes on or is given t, while c is being
\* submitted.
Progress(v, c, t, w) ==
  /\ Onward(v, w)
  /\ \A u \in w.treqs : u \in v.treqs \/ (u.req = t.req /\ u.iov = t.iov)
  /\ t.req = c => w.new = v.new /\ w.failed = v.failed

\* Two steps with t are one.
LEMMA ProgressTwice ==
  ASSUME NEW v, NEW u, NEW w, NEW c, NEW t, Progress(v, c, t, u), Progress(u, c, t, w)
  PROVE  Progress(v, c, t, w)
<1>1. Onward(v, w)
  BY DEF Progress, Onward
<1>2. \A x \in w.treqs : x \in v.treqs \/ (x.req = t.req /\ x.iov = t.iov)
  BY DEF Progress
<1>3. t.req = c => w.new = v.new /\ w.failed = v.failed
  BY DEF Progress
<1> QED BY <1>1, <1>2, <1>3 DEF Progress

\* t is no more with a driver.
Eased(v, t, e) ==
  [v EXCEPT !.treqs = @ \ {t}, !.req[t.req].secs = @ - 1,
            !.req[t.req].error = IF @ # "ok" THEN @ ELSE e]

\* What the end of an I/O leaves alone.
LEMMA EasedFacts ==
  ASSUME NEW v \in VbdState, NEW t \in v.treqs, NEW e \in Errors, v.req[t.req].secs >= 1
  PROVE  /\ Eased(v, t, e) \in VbdState /\ SameButTreqs(v, Eased(v, t, e))
         /\ Eased(v, t, e).treqs = v.treqs \ {t}
         /\ Eased(v, t, e).req[t.req].secs = v.req[t.req].secs - 1
         /\ \A q \in Reqs : q # t.req => Eased(v, t, e).req[q].secs = v.req[q].secs
<1> DEFINE w == Eased(v, t, e)
           r == t.req
           x == [v.req[r] EXCEPT !.secs = @ - 1, !.error = IF @ # "ok" THEN @ ELSE e]
           f == [v.req EXCEPT ![r] = x]
<1>1. r \in Reqs /\ v.req \in [Reqs -> Vreq] /\ v.req[r] \in Vreq
  BY DEF VbdState, Treq
<1>2. x \in Vreq
  <2> DEFINE s == v.req[r].secs - 1
             err == IF v.req[r].error # "ok" THEN v.req[r].error ELSE e
  <2>1. v.req[r].secs \in Nat /\ v.req[r].error \in Errors
    BY <1>1 DEF Vreq
  <2>2. s \in Nat /\ err \in Errors
    BY <2>1
  <2>3. x = [v.req[r] EXCEPT !.secs = s, !.error = err]
    BY <1>1 DEF Vreq
  <2> HIDE DEF s, err, x
  <2> QED BY <1>1, <2>2, <2>3 DEF Vreq
<1>3. /\ x.st = v.req[r].st /\ x.op = v.req[r].op /\ x.submitting = v.req[r].submitting
      /\ x.secs = v.req[r].secs - 1
  BY <1>1 DEF Vreq
<1>4. w = [v EXCEPT !.treqs = v.treqs \ {t}, !.req = f]
  BY <1>1, ZenonT(40) DEF Eased, VbdState, Vreq
<1> HIDE DEF x
<1>5. f \in [Reqs -> Vreq] /\ f[r] = x /\ \A q \in Reqs : q # r => f[q] = v.req[q]
  BY <1>1, <1>2
<1> HIDE DEF f, w
<1>6. w \in VbdState
  BY <1>4, <1>5 DEF VbdState
<1>7. /\ w.treqs = v.treqs \ {t} /\ w.req = f
      /\ w.state = v.state /\ w.kind = v.kind /\ w.ring = v.ring /\ w.flags = v.flags
      /\ w.images = v.images /\ w.ignore_enospc = v.ignore_enospc /\ w.secondary = v.secondary
      /\ w.retired = v.retired /\ w.secondary_mode = v.secondary_mode
      /\ w.new = v.new /\ w.pending = v.pending /\ w.failed = v.failed /\ w.completed = v.completed
  BY <1>4 DEF VbdState
<1>8. \A q \in Reqs : /\ w.req[q].st = v.req[q].st /\ w.req[q].op = v.req[q].op
                      /\ w.req[q].submitting = v.req[q].submitting
  BY <1>3, <1>5, <1>7
<1>9. SameButTreqs(v, w)
  BY <1>7, <1>8 DEF SameButTreqs
<1> QED BY <1>3, <1>5, <1>6, <1>7, <1>9 DEF w

\* tapdisk_vbd_complete_td_request, its last part.
LEMMA TreqEnds ==
  ASSUME NEW v, NEW c, NEW n \in Nat, NEW t \in v.treqs, NEW e \in Errors, Sound(v, c, n)
  PROVE  LET w == __complete_td_request(v, t, e)
         IN  Sound(w, c, n) /\ Progress(v, c, t, w) /\ w.treqs = v.treqs \ {t}
<1> DEFINE r == t.req
           u == Eased(v, t, e)
           w == complete_vbd_request(u, r)
<1>1. __complete_td_request(v, t, e) = w
  BY DEF __complete_td_request, Eased
<1>2. /\ v \in VbdState /\ r \in Reqs /\ Queues(v) /\ Counted(v, c, n) /\ Submitting(v, c)
      /\ Waiting(v, c) /\ ReadsOnce(v) /\ ChainOK(v) /\ MirrorOpen(v) /\ HeldOpen(v) /\ Quiet(v)
  BY DEF Sound, VbdState, Treq
<1>3. /\ IsFiniteSet(Held(v, r)) /\ t \in Held(v, r) /\ Cardinality(Held(v, r)) \in Nat
      /\ Cardinality(Held(v, r)) >= 1 /\ IsFiniteSet(Held(v, r) \ {t})
      /\ Cardinality(Held(v, r) \ {t}) = Cardinality(Held(v, r)) - 1
      /\ IsFiniteSet(v.treqs \ {t})
  <2>1. IsFiniteSet(v.treqs) /\ Held(v, r) \subseteq v.treqs /\ t \in Held(v, r)
    BY <1>2 DEF Counted, Held
  <2>2. IsFiniteSet(Held(v, r))
    BY <2>1, FS_Subset
  <2>3. Cardinality(Held(v, r)) \in Nat /\ Cardinality(Held(v, r)) # 0
    BY <2>1, <2>2, FS_CardinalityType, FS_EmptySet
  <2>4. IsFiniteSet(Held(v, r) \ {t}) /\ Cardinality(Held(v, r) \ {t}) = Cardinality(Held(v, r)) - 1
    BY <2>1, <2>2, FS_RemoveElement
  <2>5. IsFiniteSet(v.treqs \ {t})
    BY <2>1, FS_Subset
  <2> QED BY <2>1, <2>2, <2>3, <2>4, <2>5
<1> DEFINE k == IF r = c THEN n ELSE 0
<1>4. v.req[r].secs = Cardinality(Held(v, r)) + k /\ k \in Nat
  BY <1>2 DEF Counted
<1>5. v.req[r].secs >= 1
  BY <1>3, <1>4
<1>6. /\ u \in VbdState /\ SameButTreqs(v, u) /\ u.treqs = v.treqs \ {t}
      /\ u.req[r].secs = v.req[r].secs - 1
      /\ \A q \in Reqs : q # r => u.req[q].secs = v.req[q].secs
  BY <1>2, <1>5, EasedFacts
<1> HIDE DEF u
<1>7. Held(u, r) = Held(v, r) \ {t} /\ \A q \in Reqs : q # r => Held(u, q) = Held(v, q)
  BY <1>6 DEF Held
<1>8. Counted(u, c, n)
  <2>1. u.req[r].secs = Cardinality(Held(u, r)) + k
    BY <1>3, <1>4, <1>6, <1>7
  <2>2. \A q \in Reqs : q # r => u.req[q].secs = Cardinality(Held(u, q)) + (IF q = c THEN n ELSE 0)
    BY <1>2, <1>6, <1>7 DEF Counted
  <2>3. IsFiniteSet(u.treqs)
    BY <1>3, <1>6
  <2> QED BY <2>1, <2>2, <2>3 DEF Counted
<1>9. /\ Queues(u) /\ Submitting(u, c) /\ ChainOK(u) /\ MirrorOpen(u) /\ Quiet(u)
      /\ Onward(v, u) /\ Open(u) = Open(v)
  BY <1>2, <1>6, TreqsFrame
<1>10. ReadsOnce(u) /\ HeldOpen(u)
  <2>1. \A x \in u.treqs : x \in v.treqs /\ x.req \in Reqs
    BY <1>2, <1>6 DEF VbdState, Treq
  <2>2. \A q \in Reqs : u.req[q].op = v.req[q].op
    BY <1>6 DEF SameButTreqs
  <2>3. ReadsOnce(u)
    BY <1>2, <2>1, <2>2 DEF ReadsOnce
  <2>4. HeldOpen(u)
    BY <1>2, <1>9, <2>1, <2>2 DEF HeldOpen
  <2> QED BY <2>3, <2>4
<1>11. u.pending = v.pending /\ r \in v.pending /\ u.req[r].st = v.req[r].st
  BY <1>2, <1>3, <1>6 DEF SameButTreqs, Waiting
<1>12. \A q \in Reqs \ {r} : q \in u.pending <=> Held(u, q) # {} \/ q = c
  BY <1>2, <1>7, <1>11 DEF Waiting
<1>13. CASE r = c \/ Held(u, r) # {}
  <2>1. Waiting(u, c)
    BY <1>11, <1>12, <1>13 DEF Waiting
  <2>2. Sound(u, c, n)
    BY <1>6, <1>8, <1>9, <1>10, <2>1 DEF Sound
  <2>3. w = u
    <3>1. CASE r = c
      <4>1. u.req[r].submitting = 1
        BY <1>2, <1>9, <3>1 DEF Submitting
      <4> QED BY <4>1 DEF complete_vbd_request
    <3>2. CASE Held(u, r) # {}
      <4>1. IsFiniteSet(Held(u, r)) /\ Cardinality(Held(u, r)) \in Nat /\ Cardinality(Held(u, r)) # 0
        BY <1>3, <1>7, <3>2, FS_CardinalityType, FS_EmptySet
      <4>2. u.req[r].secs = Cardinality(Held(u, r)) + k
        BY <1>3, <1>4, <1>6, <1>7
      <4>3. u.req[r].secs # 0
        BY <1>4, <4>1, <4>2
      <4> QED BY <4>3 DEF complete_vbd_request
    <3> QED BY <1>13, <3>1, <3>2
  <2>4. Progress(v, c, t, u)
    BY <1>6, <1>9 DEF Progress, SameButTreqs
  <2> QED BY <1>1, <1>6, <2>2, <2>3, <2>4
<1>14. CASE r # c /\ Held(u, r) = {}
  <2>1. u.req[r].st = "queued"
    BY <1>2, <1>11 DEF Queues
  <2>2. Ending(u, c, n, r)
    BY <1>2, <1>6, <1>8, <1>9, <1>10, <1>12, <1>14, <2>1 DEF Ending, Quiet
  <2>3. Sound(w, c, n) /\ Moved(u, r, w)
    BY <2>2, Retired
  <2>4. SameButQueues(u, w)
    BY <2>3 DEF Moved
  <2>5. Progress(v, c, t, w)
    <3>1. Onward(u, w) /\ w.treqs = u.treqs
      BY <2>4 DEF SameButQueues, Onward, Open
    <3>2. Onward(v, w)
      BY <1>9, <3>1 DEF Onward
    <3> QED BY <1>6, <1>14, <3>1, <3>2 DEF Progress
  <2>6. w.treqs = v.treqs \ {t}
    BY <1>6, <2>4 DEF SameButQueues
  <2> QED BY <1>1, <2>3, <2>5, <2>6
<1> QED BY <1>13, <1>14

\* While a driver holds an I/O the images are open and the queue is not quiesced.
LEMMA Busy ==
  ASSUME NEW v, NEW c, NEW n, NEW t \in v.treqs, Sound(v, c, n)
  PROVE  /\ v.images # <<>> /\ v.images \in Chains /\ "QUIESCED" \notin v.state
         /\ t \in Treq /\ t.req \in Reqs /\ t.iov \in 1 .. Iovs /\ t.image \in Images
<1>1. t \in Treq /\ t.req \in Reqs /\ t.iov \in 1 .. Iovs /\ t.image \in Images
  BY DEF Sound, VbdState, Treq
<1>2. t.req \in v.pending
  BY <1>1 DEF Sound, Waiting, Held
<1>3. v.images # <<>> /\ "QUIESCED" \notin v.state
  BY <1>2 DEF Sound, Quiet
<1>4. v.images \in Chains
  BY DEF Sound, ChainOK
<1> QED BY <1>1, <1>3, <1>4

\* The history of what was carried out is not part of the invariant.
LEMMA ServedFrame ==
  ASSUME NEW v, NEW c, NEW n, NEW t \in v.treqs, Sound(v, c, n)
  PROVE  LET w == [v EXCEPT !.served = @ \cup {t}]
         IN  /\ Sound(w, c, n) /\ Onward(v, w) /\ w.treqs = v.treqs
             /\ w.new = v.new /\ w.failed = v.failed
<1> DEFINE w == [v EXCEPT !.served = @ \cup {t}]
<1>1. v \in VbdState /\ t \in Treq
  BY Busy DEF Sound
<1>2. w \in VbdState
  BY <1>1 DEF VbdState
<1>3. SameButTreqs(v, w) /\ w.treqs = v.treqs /\ w.req = v.req
  BY <1>1 DEF VbdState, SameButTreqs
<1> HIDE DEF w
<1>4. Queues(w) /\ Submitting(w, c) /\ ChainOK(w) /\ MirrorOpen(w) /\ Quiet(w) /\ Onward(v, w)
      /\ Open(w) = Open(v)
  BY <1>3, TreqsFrame DEF Sound
<1>5. \A r : Held(w, r) = Held(v, r)
  BY <1>3 DEF Held
<1>6. Counted(w, c, n)
  BY <1>3, <1>5 DEF Sound, Counted
<1>7. Waiting(w, c)
  BY <1>3, <1>5 DEF Sound, Waiting, SameButTreqs
<1>8. ReadsOnce(w)
  BY <1>3 DEF Sound, ReadsOnce
<1>9. HeldOpen(w)
  BY <1>3, <1>4 DEF Sound, HeldOpen
<1>10. Sound(w, c, n)
  BY <1>2, <1>4, <1>6, <1>7, <1>8, <1>9 DEF Sound
<1> QED BY <1>3, <1>4, <1>10 DEF w, SameButTreqs

\* tapdisk_vbd_complete_td_request.
LEMMA TreqCompletes ==
  ASSUME NEW v, NEW c, NEW n \in Nat, NEW t \in v.treqs, NEW res \in Errors, Sound(v, c, n)
  PROVE  LET w == complete_td_request(v, t, res)
         IN  Sound(w, c, n) /\ Progress(v, c, t, w) /\ w.treqs = v.treqs \ {t}
<1> DEFINE ignored == res = "ENOSPC" /\ t.image \in v.ignore_enospc
           a == IF ignored THEN on_enospc(v) ELSE v
           nbd == /\ res # "ok" /\ ~ignored /\ v.kind = "nbd" /\ t.image = "second"
                  /\ t.image \in {a.secondary, a.retired}
           b == IF nbd THEN on_nbd_error(a, t.image) ELSE a
           h == IF res = "ok" THEN [b EXCEPT !.served = @ \cup {t}] ELSE b
           e == IF ignored \/ nbd THEN "ok" ELSE res
           w == __complete_td_request(h, t, e)
<1>1. complete_td_request(v, t, res) = w
  BY DEF complete_td_request
<1>2. v.images # <<>>
  BY Busy
<1>3. /\ Sound(a, c, n) /\ Onward(v, a) /\ a.treqs = v.treqs /\ a.new = v.new /\ a.failed = v.failed
  <2>1. CASE ignored
    <3>1. v.ignore_enospc # {}
      BY <2>1
    <3>2. Sound(on_enospc(v), c, n) /\ Onward(v, on_enospc(v)) /\ SameIO(v, on_enospc(v))
      BY <1>2, <3>1, Enospc
    <3> QED BY <2>1, <3>2 DEF SameIO
  <2>2. CASE ~ignored
    BY <2>2 DEF Onward
  <2> QED BY <2>1, <2>2
<1>4. /\ Sound(b, c, n) /\ Onward(v, b) /\ b.treqs = v.treqs /\ b.new = v.new /\ b.failed = v.failed
  <2>1. CASE nbd
    <3>1. a = v /\ t.image = "second" /\ v.kind = "nbd" /\ "second" \in {v.secondary, v.retired}
      BY <2>1
    <3> HIDE DEF a
    <3>2. /\ Sound(on_nbd_error(v, "second"), c, n) /\ Onward(v, on_nbd_error(v, "second"))
          /\ SameIO(v, on_nbd_error(v, "second"))
      BY <1>2, <3>1, NbdError
    <3>3. b = on_nbd_error(v, "second")
      BY <2>1, <3>1
    <3> QED BY <3>2, <3>3 DEF SameIO
  <2>2. CASE ~nbd
    BY <1>3, <2>2
  <2> QED BY <2>1, <2>2
<1>5. e \in Errors
  BY DEF Errors
<1> HIDE DEF b, nbd, ignored, a, e
<1>6. /\ Sound(h, c, n) /\ Onward(v, h) /\ h.treqs = v.treqs /\ h.new = v.new /\ h.failed = v.failed
  <2>1. CASE res = "ok"
    <3> DEFINE g == [b EXCEPT !.served = @ \cup {t}]
    <3>1. /\ Sound(g, c, n) /\ Onward(b, g) /\ g.treqs = b.treqs
          /\ g.new = b.new /\ g.failed = b.failed
      BY <1>4, ServedFrame
    <3>2. h = g
      BY <2>1
    <3> HIDE DEF g
    <3>3. Onward(v, g)
      BY <1>4, <3>1 DEF Onward
    <3> QED BY <1>4, <3>1, <3>2, <3>3
  <2>2. CASE res # "ok"
    BY <1>4, <2>2
  <2> QED BY <2>1, <2>2
<1> HIDE DEF h
<1>7. Sound(w, c, n) /\ Progress(h, c, t, w) /\ w.treqs = v.treqs \ {t}
  BY <1>5, <1>6, TreqEnds
<1>8. Progress(v, c, t, h)
  BY <1>6 DEF Progress
<1>9. Progress(v, c, t, w)
  BY <1>7, <1>8, ProgressTwice
<1> HIDE DEF w
<1> QED BY <1>1, <1>7, <1>9

\* A change to a request that is none of its queue's, its I/Os' or its direction's business.
Touched(v, r, x) == [v EXCEPT !.req[r] = x]

\* What a change to one request leaves alone.
LEMMA TouchedFacts ==
  ASSUME NEW v \in VbdState, NEW r \in Reqs, NEW x \in Vreq
  PROVE  LET w == Touched(v, r, x)
         IN  /\ w \in VbdState /\ w.treqs = v.treqs /\ w.req[r] = x
             /\ \A q \in Reqs : q # r => w.req[q] = v.req[q]
             /\ x.st = v.req[r].st /\ x.op = v.req[r].op /\ x.submitting = v.req[r].submitting
                  => SameButTreqs(v, w)
<1> DEFINE w == Touched(v, r, x)
           f == [v.req EXCEPT ![r] = x]
<1>1. v.req \in [Reqs -> Vreq]
  BY Fields
<1>2. f \in [Reqs -> Vreq] /\ f[r] = x /\ \A q \in Reqs : q # r => f[q] = v.req[q]
  BY <1>1
<1>3. w = [v EXCEPT !.req = f]
  BY DEF Touched, VbdState
<1> HIDE DEF w, f
<1>4. w \in VbdState
  BY <1>2, <1>3 DEF VbdState
<1>5. /\ w.treqs = v.treqs /\ w.req = f
      /\ w.state = v.state /\ w.kind = v.kind /\ w.ring = v.ring /\ w.flags = v.flags
      /\ w.images = v.images /\ w.ignore_enospc = v.ignore_enospc /\ w.secondary = v.secondary
      /\ w.retired = v.retired /\ w.secondary_mode = v.secondary_mode
      /\ w.new = v.new /\ w.pending = v.pending /\ w.failed = v.failed /\ w.completed = v.completed
  BY <1>3 DEF VbdState
<1>6. ASSUME x.st = v.req[r].st, x.op = v.req[r].op, x.submitting = v.req[r].submitting
      PROVE  SameButTreqs(v, w)
  <2>1. \A q \in Reqs : /\ w.req[q].st = v.req[q].st /\ w.req[q].op = v.req[q].op
                        /\ w.req[q].submitting = v.req[q].submitting
    BY <1>2, <1>5, <1>6
  <2> QED BY <1>5, <2>1 DEF SameButTreqs
<1> QED BY <1>2, <1>4, <1>5, <1>6 DEF w

Alike(v, r, x, w) ==
  /\ SameButTreqs(v, w) /\ w.treqs = v.treqs /\ w.req[r] = x
  /\ \A q \in Reqs : q # r => w.req[q] = v.req[q]

\* Such a change keeps the invariant.
LEMMA TouchedSound ==
  ASSUME NEW v, NEW c, NEW n, NEW r \in Reqs, NEW x \in Vreq, Sound(v, c, n),
         x.st = v.req[r].st, x.op = v.req[r].op, x.submitting = v.req[r].submitting,
         x.secs = v.req[r].secs
  PROVE  Sound(Touched(v, r, x), c, n) /\ Alike(v, r, x, Touched(v, r, x))
<1> DEFINE w == Touched(v, r, x)
<1>1. v \in VbdState
  BY DEF Sound
<1>2. /\ w \in VbdState /\ w.treqs = v.treqs /\ w.req[r] = x
      /\ \A q \in Reqs : q # r => w.req[q] = v.req[q]
      /\ SameButTreqs(v, w)
  BY <1>1, TouchedFacts
<1> HIDE DEF w
<1>3. Queues(w) /\ Submitting(w, c) /\ ChainOK(w) /\ MirrorOpen(w) /\ Quiet(w) /\ Onward(v, w)
      /\ Open(w) = Open(v)
  BY <1>2, TreqsFrame DEF Sound
<1>4. \A q : Held(w, q) = Held(v, q)
  BY <1>2 DEF Held
<1>5. \A q \in Reqs : w.req[q].secs = v.req[q].secs /\ w.req[q].op = v.req[q].op
  BY <1>2
<1>6. Counted(w, c, n)
  BY <1>2, <1>4, <1>5 DEF Sound, Counted
<1>7. Waiting(w, c)
  BY <1>2, <1>4 DEF Sound, Waiting, SameButTreqs
<1>8. \A t \in v.treqs : t.req \in Reqs
  BY <1>1 DEF VbdState, Treq
<1>9. ReadsOnce(w)
  BY <1>2, <1>5, <1>8 DEF Sound, ReadsOnce
<1>10. HeldOpen(w)
  BY <1>2, <1>3, <1>5, <1>8 DEF Sound, HeldOpen
<1>11. Sound(w, c, n)
  BY <1>2, <1>3, <1>6, <1>7, <1>9, <1>10 DEF Sound
<1> QED BY <1>2, <1>11 DEF w, Alike

\* A read is passed on to an image of the chain.
LEMMA ParentOpen ==
  ASSUME NEW v, NEW i \in Open(v), i \in Images, v.images \in Chains, v.images # <<>>,
         v.retired # "base", ~is_last_image(v, i)
  PROVE  parent_image(v, i) \in Elems(v.images) /\ parent_image(v, i) \in Images
<1> DEFINE s == v.images
           l == Len(s)
<1>1. /\ s \in Seq(Images) /\ l \in 1 .. 3 /\ s[l] = "base"
      /\ \A k \in 1 .. l : s[k] = "base" => k = l
      /\ Head(s) = s[1] /\ \A k \in 1 .. l : s[k] \in Elems(s) /\ s[k] \in Images
  BY ChainEnds
<1>2. i # "base"
  BY <1>1 DEF is_last_image
<1>3. ASSUME NEW j, j \in Elems(s), j # "base"
      PROVE  next_image(v, j) \in Elems(s) /\ next_image(v, j) \in Images
  <2> DEFINE k == CHOOSE k \in 1 .. l : s[k] = j
  <2>1. \E k2 \in 1 .. l : s[k2] = j
    BY <1>3 DEF Elems
  <2>2. k \in 1 .. l /\ s[k] = j
    BY <2>1
  <2>3. next_image(v, j) = s[k + 1]
    BY DEF next_image
  <2> HIDE DEF k, s, l
  <2>4. k # l
    BY <1>1, <1>3, <2>2
  <2>5. k + 1 \in 1 .. l
    BY <1>1, <2>2, <2>4
  <2> QED BY <1>1, <2>3, <2>5
<1> DEFINE p == IF v.retired = i THEN Head(v.images) ELSE next_image(v, i)
<1>4. p \in Elems(s) /\ p \in Images
  <2>1. CASE v.retired = i
    <3>1. 1 \in 1 .. l
      BY <1>1
    <3> QED BY <1>1, <2>1, <3>1
  <2>2. CASE v.retired # i
    <3>1. i \in Elems(s)
      BY <2>2 DEF Open
    <3> QED BY <1>2, <1>3, <2>2, <3>1
  <2> QED BY <2>1, <2>2
<1>5. parent_image(v, i) = IF reads_through(v, p) THEN next_image(v, p) ELSE p
  BY DEF parent_image
<1>6. reads_through(v, p) => p # "base"
  BY DEF reads_through
<1> HIDE DEF p, s, l
<1> QED BY <1>3, <1>4, <1>5, <1>6 DEF s

\* td_forward_request, on its way to the next image.
LEMMA TreqReissued ==
  ASSUME NEW v, NEW c, NEW n \in Nat, NEW t \in v.treqs, Sound(v, c, n), v.req[t.req].op = "read"
  PROVE  LET w == reissue_td_request(v, t)
         IN  Sound(w, c, n) /\ Progress(v, c, t, w)
<1> DEFINE r == t.req
           x == [v.req[r] EXCEPT !.recent = TRUE]
           u == Touched(v, r, x)
           w == reissue_td_request(v, t)
<1>1. /\ v.images # <<>> /\ v.images \in Chains /\ t \in Treq /\ r \in Reqs /\ t.iov \in 1 .. Iovs
      /\ t.image \in Images
  BY Busy
<1>2. v \in VbdState /\ v.req \in [Reqs -> Vreq] /\ v.req[r] \in Vreq
  BY <1>1, Fields DEF Sound
<1>3. /\ x \in Vreq /\ x.st = v.req[r].st /\ x.op = v.req[r].op
      /\ x.submitting = v.req[r].submitting /\ x.secs = v.req[r].secs
  BY <1>2 DEF Vreq
<1>4. [v EXCEPT !.req[t.req].recent = TRUE] = u
  BY <1>1, <1>2 DEF Touched, VbdState
<1> HIDE DEF x
<1>5. /\ Sound(u, c, n) /\ SameButTreqs(v, u) /\ u.treqs = v.treqs /\ u.req[r] = x
      /\ \A q \in Reqs : q # r => u.req[q] = v.req[q]
  <2>1. Sound(u, c, n) /\ Alike(v, r, x, u)
    BY <1>1, <1>3, TouchedSound
  <2> QED BY <2>1 DEF Alike
<1>6. Onward(v, u) /\ Open(u) = Open(v)
  BY <1>5, TreqsFrame
<1>7. Progress(v, c, t, u)
  BY <1>5, <1>6 DEF Progress, SameButTreqs
<1> DEFINE t2 == [t EXCEPT !.image = parent_image(v, t.image)]
           g == [u EXCEPT !.treqs = (@ \ {t}) \cup {t2}]
<1>8. w = IF is_last_image(v, t.image) THEN complete_td_request(u, t, "ok") ELSE g
  BY <1>4 DEF reissue_td_request
<1> HIDE DEF u
<1>9. CASE is_last_image(v, t.image)
  <2>1. "ok" \in Errors
    BY DEF Errors
  <2> DEFINE d == complete_td_request(u, t, "ok")
  <2>2. Sound(d, c, n) /\ Progress(u, c, t, d)
    BY <1>5, <2>1, TreqCompletes
  <2> HIDE DEF d
  <2>3. Progress(v, c, t, d)
    BY <1>7, <2>2, ProgressTwice
  <2> QED BY <1>8, <1>9, <2>2, <2>3 DEF d
<1>10. CASE ~is_last_image(v, t.image)
  <2>1. t.image \in Open(v)
    BY DEF Sound, HeldOpen
  <2>2. v.retired # "base"
    BY DEF Sound, ChainOK
  <2>3. parent_image(v, t.image) \in Elems(v.images) /\ parent_image(v, t.image) \in Images
    BY <1>1, <1>10, <2>1, <2>2, ParentOpen
  <2>4. t2 \in Treq /\ t2.req = r /\ t2.iov = t.iov /\ t2.image \in Open(v)
    BY <1>1, <2>3 DEF Treq, Open
  <2> HIDE DEF t2
  <2> DEFINE T == (u.treqs \ {t}) \cup {t2}
  <2>5. u \in VbdState /\ T \in SUBSET Treq
    <3>1. u \in VbdState
      BY <1>5 DEF Sound
    <3> QED BY <2>4, <3>1, Fields DEF T
  <2>6. g = [u EXCEPT !.treqs = T]
    BY <1>5
  <2> HIDE DEF T, g
  <2>7. g \in VbdState
    BY <2>5, <2>6 DEF VbdState
  <2>8. SameButTreqs(u, g) /\ g.treqs = T /\ g.req = u.req
    BY <2>5, <2>6 DEF VbdState, SameButTreqs
  <2>9. /\ Queues(g) /\ Submitting(g, c) /\ ChainOK(g) /\ MirrorOpen(g) /\ Quiet(g) /\ Onward(u, g)
        /\ Open(g) = Open(u)
    BY <1>5, <2>8, TreqsFrame DEF Sound
  <2>10. t2 \notin u.treqs \ {t}
    BY <1>5, <2>4 DEF Sound, ReadsOnce
  <2>11. Held(g, r) = (Held(u, r) \ {t}) \cup {t2} /\ \A q \in Reqs : q # r => Held(g, q) = Held(u, q)
    BY <1>5, <2>4, <2>8 DEF Held, T
  <2>12. /\ IsFiniteSet(Held(u, r)) /\ t \in Held(u, r) /\ IsFiniteSet(u.treqs)
    <3>1. IsFiniteSet(u.treqs) /\ Held(u, r) \subseteq u.treqs /\ t \in Held(u, r)
      BY <1>5 DEF Sound, Counted, Held
    <3> QED BY <3>1, FS_Subset
  <2>13. Cardinality(Held(g, r)) = Cardinality(Held(u, r)) /\ IsFiniteSet(T)
    <3> DEFINE H == Held(u, r)
    <3>1. IsFiniteSet(H \ {t}) /\ Cardinality(H \ {t}) = Cardinality(H) - 1 /\ Cardinality(H) \in Nat
      BY <2>12, FS_RemoveElement, FS_CardinalityType
    <3>2. t2 \notin H \ {t}
      BY <2>10 DEF Held
    <3>3. Cardinality((H \ {t}) \cup {t2}) = Cardinality(H \ {t}) + 1
      BY <3>1, <3>2, FS_AddElement
    <3>4. IsFiniteSet(T)
      <4>1. IsFiniteSet(u.treqs \ {t})
        BY <2>12, FS_Subset
      <4> QED BY <4>1, FS_AddElement DEF T
    <3> HIDE DEF H
    <3>5. Cardinality((H \ {t}) \cup {t2}) = Cardinality(H)
      BY <3>1, <3>3
    <3> QED BY <2>11, <3>4, <3>5 DEF H
  <2>14. Counted(g, c, n)
    <3>1. \A q \in Reqs : Cardinality(Held(g, q)) = Cardinality(Held(u, q))
      BY <2>11, <2>13
    <3> QED BY <1>5, <2>8, <2>13, <3>1 DEF Sound, Counted
  <2>15. Waiting(g, c)
    <3>1. \A q \in Reqs : Held(g, q) # {} <=> Held(u, q) # {}
      BY <2>11, <2>12
    <3> QED BY <1>5, <2>8, <3>1 DEF Sound, Waiting, SameButTreqs
  <2>16. ReadsOnce(g)
    <3> SUFFICES ASSUME NEW y \in T, NEW z \in T, y.req = z.req, y.iov = z.iov,
                        u.req[y.req].op = "read"
                 PROVE  y = z
      BY <2>8 DEF ReadsOnce
    <3>1. \A a \in u.treqs : a.req = r /\ a.iov = t.iov /\ u.req[a.req].op = "read" => a = t
      BY <1>5 DEF Sound, ReadsOnce
    <3>2. CASE y = t2 \/ z = t2
      BY <2>4, <3>1, <3>2 DEF T
    <3>3. CASE y # t2 /\ z # t2
      BY <1>5, <3>3 DEF Sound, ReadsOnce, T
    <3> QED BY <3>2, <3>3
  <2>17. HeldOpen(g)
    <3>1. \A y \in T : y = t2 \/ y \in u.treqs
      BY DEF T
    <3> QED BY <1>5, <1>6, <2>4, <2>8, <2>9, <3>1 DEF Sound, HeldOpen
  <2>18. Sound(g, c, n)
    BY <2>7, <2>9, <2>14, <2>15, <2>16, <2>17 DEF Sound
  <2>19. Progress(u, c, t, g)
    BY <2>4, <2>8, <2>9 DEF Progress, SameButTreqs, T
  <2>20. Progress(v, c, t, g)
    BY <1>7, <2>19, ProgressTwice
  <2> QED BY <1>8, <1>10, <2>18, <2>20
<1> QED BY <1>9, <1>10

\* td_forward_request.
LEMMA TreqForwarded ==
  ASSUME NEW v, NEW c, NEW n \in Nat, NEW t \in v.treqs, Sound(v, c, n), v.req[t.req].op = "read"
  PROVE  LET w == forward_request(v, t)
         IN  Sound(w, c, n) /\ Progress(v, c, t, w)
<1> DEFINE a == reissue_td_request(v, t)
           b == complete_td_request(v, t, "EBUSY")
<1>1. Sound(a, c, n) /\ Progress(v, c, t, a)
  BY TreqReissued
<1>2. "EBUSY" \in Errors
  BY DEF Errors
<1>3. Sound(b, c, n) /\ Progress(v, c, t, b)
  BY <1>2, TreqCompletes
<1>4. forward_request(v, t) = IF queue_ready(v) THEN a ELSE b
  BY DEF forward_request
<1> HIDE DEF a, b
<1> QED BY <1>1, <1>3, <1>4

-----------------------------------------------------------------------------
(* The submission of a segment *)

\* Segments of c that are counted before they are queued.
LEMMA Raised ==
  ASSUME NEW v, NEW c \in Reqs, NEW k \in Nat, Sound(v, c, 0)
  PROVE  LET w == [v EXCEPT !.req[c].secs = @ + k]
         IN  Sound(w, c, k) /\ SameButTreqs(v, w) /\ w.treqs = v.treqs
<1> DEFINE w == [v EXCEPT !.req[c].secs = @ + k]
           x == [v.req[c] EXCEPT !.secs = @ + k]
<1>1. v \in VbdState /\ v.req \in [Reqs -> Vreq] /\ v.req[c] \in Vreq
  BY Fields DEF Sound
<1>2. x \in Vreq /\ x.secs = v.req[c].secs + k
  <2> DEFINE s == v.req[c].secs + k
  <2>1. s \in Nat
    BY <1>1 DEF Vreq
  <2>2. x = [v.req[c] EXCEPT !.secs = s]
    BY <1>1 DEF Vreq
  <2> HIDE DEF s, x
  <2>3. x \in Vreq /\ x.secs = s
    BY <1>1, <2>1, <2>2 DEF Vreq
  <2> QED BY <2>3 DEF s
<1>3. x.st = v.req[c].st /\ x.op = v.req[c].op /\ x.submitting = v.req[c].submitting
  BY <1>1 DEF Vreq
<1>4. w = Touched(v, c, x)
  BY <1>1 DEF Touched, VbdState
<1> HIDE DEF w, x
<1>5. /\ w \in VbdState /\ w.treqs = v.treqs /\ w.req[c] = x
      /\ \A q \in Reqs : q # c => w.req[q] = v.req[q]
      /\ SameButTreqs(v, w)
  BY <1>1, <1>2, <1>3, <1>4, TouchedFacts
<1>6. Queues(w) /\ Submitting(w, c) /\ ChainOK(w) /\ MirrorOpen(w) /\ Quiet(w)
      /\ Open(w) = Open(v)
  BY <1>5, TreqsFrame DEF Sound
<1>7. \A q : Held(w, q) = Held(v, q)
  BY <1>5 DEF Held
<1>8. Counted(w, c, k)
  <2>1. IsFiniteSet(w.treqs)
    BY <1>5 DEF Sound, Counted
  <2>2. ASSUME NEW q \in Reqs
        PROVE  w.req[q].secs = Cardinality(Held(w, q)) + (IF q = c THEN k ELSE 0)
    <3>1. v.req[q].secs = Cardinality(Held(v, q)) + 0 /\ v.req[q].secs \in Nat
      BY <1>1 DEF Sound, Counted, Vreq
    <3>2. IsFiniteSet(Held(v, q))
      <4>1. IsFiniteSet(v.treqs) /\ Held(v, q) \subseteq v.treqs
        BY DEF Sound, Counted, Held
      <4> QED BY <4>1, FS_Subset
    <3>3. Cardinality(Held(v, q)) \in Nat
      BY <3>2, FS_CardinalityType
    <3>4. CASE q = c
      BY <1>2, <1>5, <1>7, <3>1, <3>3, <3>4
    <3>5. CASE q # c
      BY <1>5, <1>7, <3>1, <3>5
    <3> QED BY <3>4, <3>5
  <2> QED BY <2>1, <2>2 DEF Counted
<1>9. Waiting(w, c)
  BY <1>5, <1>7 DEF Sound, Waiting, SameButTreqs
<1>10. \A t \in v.treqs : t.req \in Reqs
  BY <1>1 DEF VbdState, Treq
<1>11. \A q \in Reqs : w.req[q].op = v.req[q].op
  BY <1>5 DEF SameButTreqs
<1>12. ReadsOnce(w)
  BY <1>5, <1>10, <1>11 DEF Sound, ReadsOnce
<1>13. HeldOpen(w)
  BY <1>5, <1>6, <1>10, <1>11 DEF Sound, HeldOpen
<1>14. Sound(w, c, k)
  BY <1>5, <1>6, <1>8, <1>9, <1>12, <1>13 DEF Sound
<1> QED BY <1>5, <1>14 DEF w

\* t may be given to a driver: it is not with one yet, and its image is open.
Ready(v, t) ==
  /\ t \notin v.treqs
  /\ v.req[t.req].op = "read" => \A u \in v.treqs : ~(u.req = t.req /\ u.iov = t.iov)
  /\ v.req[t.req].op = "read" \/ "image" \notin OpenFails => t.image \in Open(v)

\* A driver is given t.
LEMMA TreqGiven ==
  ASSUME NEW v, NEW c \in Reqs, NEW n \in Nat, NEW t \in Treq, t.req = c,
         Sound(v, c, n + 1), Ready(v, t)
  PROVE  LET u == [v EXCEPT !.treqs = @ \cup {t}]
         IN  /\ Sound(u, c, n) /\ Progress(v, c, t, u) /\ u.treqs = v.treqs \cup {t}
             /\ u.req = v.req
<1> DEFINE T == v.treqs \cup {t}
           u == [v EXCEPT !.treqs = T]
<1>1. v \in VbdState /\ T \in SUBSET Treq
  BY Fields DEF Sound
<1>2. t \in T /\ \A y \in T : y = t \/ y \in v.treqs
  OBVIOUS
<1>3. [v EXCEPT !.treqs = @ \cup {t}] = u
  OBVIOUS
<1> HIDE DEF T
<1>4. u \in VbdState
  BY <1>1 DEF VbdState
<1>5. SameButTreqs(v, u) /\ u.treqs = T /\ u.req = v.req
  BY <1>1 DEF VbdState, SameButTreqs
<1> HIDE DEF u
<1>6. /\ Queues(u) /\ Submitting(u, c) /\ ChainOK(u) /\ MirrorOpen(u) /\ Quiet(u)
      /\ Open(u) = Open(v) /\ Onward(v, u)
  BY <1>5, TreqsFrame DEF Sound
<1>7. Held(u, c) = Held(v, c) \cup {t} /\ \A q \in Reqs : q # c => Held(u, q) = Held(v, q)
  BY <1>5 DEF Held, T
<1>8. Counted(u, c, n)
  <2>1. IsFiniteSet(v.treqs) /\ Held(v, c) \subseteq v.treqs /\ t \notin Held(v, c)
    BY DEF Sound, Counted, Held, Ready
  <2>2. IsFiniteSet(T)
    BY <2>1, FS_AddElement DEF T
  <2>3. IsFiniteSet(Held(v, c)) /\ Cardinality(Held(v, c)) \in Nat
    BY <2>1, FS_Subset, FS_CardinalityType
  <2>4. Cardinality(Held(v, c) \cup {t}) = Cardinality(Held(v, c)) + 1
    BY <2>1, <2>3, FS_AddElement
  <2>5. v.req[c].secs = Cardinality(Held(v, c)) + (n + 1)
    BY DEF Sound, Counted
  <2>6. u.req[c].secs = Cardinality(Held(u, c)) + n
    BY <1>5, <1>7, <2>3, <2>4, <2>5
  <2>7. \A q \in Reqs : q # c => u.req[q].secs = Cardinality(Held(u, q)) + 0
    BY <1>5, <1>7 DEF Sound, Counted
  <2> QED BY <1>5, <2>2, <2>6, <2>7 DEF Counted
<1>9. Waiting(u, c)
  BY <1>5, <1>7 DEF Sound, Waiting, SameButTreqs
<1>10. ReadsOnce(u)
  <2> SUFFICES ASSUME NEW y \in T, NEW z \in T, y.req = z.req, y.iov = z.iov,
                      v.req[y.req].op = "read"
               PROVE  y = z
    BY <1>5 DEF ReadsOnce
  <2>1. CASE y = t \/ z = t
    BY <1>2, <2>1 DEF Ready
  <2>2. CASE y # t /\ z # t
    BY <1>2, <2>2 DEF Sound, ReadsOnce
  <2> QED BY <2>1, <2>2
<1>11. HeldOpen(u)
  BY <1>2, <1>5, <1>6 DEF Sound, HeldOpen, Ready
<1>12. Sound(u, c, n)
  BY <1>4, <1>6, <1>8, <1>9, <1>10, <1>11 DEF Sound
<1>13. Progress(v, c, t, u)
  BY <1>2, <1>5, <1>6 DEF Progress, SameButTreqs
<1> QED BY <1>3, <1>5, <1>12, <1>13 DEF T

\* td_queue_read and td_queue_write.
LEMMA TdQueue ==
  ASSUME NEW v, NEW c \in Reqs, NEW n \in Nat, NEW t \in Treq, t.req = c,
         Sound(v, c, n + 1), Ready(v, t), NEW how \in {"async", "forward"} \cup Errors,
         how = "forward" => v.req[c].op = "read"
  PROVE  LET w == td_queue(v, t, how)
         IN  /\ Sound(w, c, n) /\ Progress(v, c, t, w)
             /\ how # "forward" => w.treqs \subseteq v.treqs \cup {t}
<1> DEFINE u == [v EXCEPT !.treqs = @ \cup {t}]
           w == td_queue(v, t, how)
<1>1. /\ Sound(u, c, n) /\ Progress(v, c, t, u) /\ u.treqs = v.treqs \cup {t} /\ u.req = v.req
  BY TreqGiven
<1>2. w = CASE how = "async"   -> u
            [] how = "forward" -> forward_request(u, t)
            [] OTHER           -> complete_td_request(u, t, how)
  BY DEF td_queue
<1> HIDE DEF u, w
<1>3. CASE how = "async"
  BY <1>1, <1>2, <1>3 DEF w
<1>4. CASE how = "forward"
  <2> DEFINE d == forward_request(u, t)
  <2>1. Sound(d, c, n) /\ Progress(u, c, t, d)
    BY <1>1, <1>4, TreqForwarded
  <2>2. w = d
    BY <1>2, <1>4
  <2> HIDE DEF d
  <2>3. Progress(v, c, t, d)
    BY <1>1, <2>1, ProgressTwice
  <2> QED BY <1>4, <2>1, <2>2, <2>3 DEF w
<1>5. CASE how \notin {"async", "forward"}
  <2> DEFINE d == complete_td_request(u, t, how)
  <2>1. Sound(d, c, n) /\ Progress(u, c, t, d) /\ d.treqs = u.treqs \ {t}
    BY <1>1, <1>5, TreqCompletes
  <2>2. w = d
    BY <1>2, <1>5
  <2> HIDE DEF d
  <2>3. Progress(v, c, t, d)
    BY <1>1, <2>1, ProgressTwice
  <2>4. d.treqs \subseteq v.treqs \cup {t}
    BY <1>1, <2>1
  <2> QED BY <2>1, <2>2, <2>3, <2>4 DEF w
<1> QED BY <1>3, <1>4, <1>5

\* Only reads are forwarded.
LEMMA HowsFacts ==
  ASSUME NEW v, NEW t, v.req[t.req].op \in {"read", "write"}, NEW how \in Hows(v, t)
  PROVE  how \in {"async", "forward"} \cup Errors /\ (how = "forward" => v.req[t.req].op = "read")
<1>1. Results(v, t) \subseteq Errors /\ "forward" \notin Errors
  BY ConstantsAssumption DEF Results, Errors
<1> QED BY <1>1 DEF Hows

\* The copy of a segment of c for the mirror, which is queued before the segment.
MirrorQueued(v, t, hm) ==
  LET n == IF mirrored(v, t.req) THEN 2 ELSE 1
      u == [v EXCEPT !.req[t.req].secs = @ + n]
  IN  IF n = 2 THEN td_queue(u, [t EXCEPT !.image = v.secondary], hm) ELSE u

Copied(v, c, t, hm, x) ==
  /\ mirrored(v, c) =>
       LET u == [v EXCEPT !.req[c].secs = @ + 2]
           m == [t EXCEPT !.image = v.secondary]
       IN  /\ x = td_queue(u, m, hm) /\ Sound(u, c, 2) /\ Ready(u, m)
           /\ m \in Treq /\ m.req = c /\ m.iov = t.iov /\ m.image = "second"
  /\ ~mirrored(v, c) => x = [v EXCEPT !.req[c].secs = @ + 1]

\* What is done then, and what is left to be done.
LEMMA MirrorSubmitted ==
  ASSUME NEW v, NEW c \in Reqs, NEW t \in Treq, t.req = c, Sound(v, c, 0),
         \A u \in v.treqs : u.req = c => u.iov < t.iov,
         t.image \in Open(v), v.secondary_mode = "MIRROR" => t.image = "leaf",
         NEW hm \in (IF mirrored(v, c) THEN Hows(v, [t EXCEPT !.image = v.secondary]) ELSE {"async"})
  PROVE  LET x == MirrorQueued(v, t, hm)
         IN  /\ Sound(x, c, 1) /\ Progress(v, c, t, x) /\ Ready(x, t) /\ x.req[c].op = v.req[c].op
             /\ Copied(v, c, t, hm, x)
<1> DEFINE m == [t EXCEPT !.image = v.secondary]
           n == IF mirrored(v, c) THEN 2 ELSE 1
           u == [v EXCEPT !.req[c].secs = @ + n]
           x == IF n = 2 THEN td_queue(u, m, hm) ELSE u
<1>1. MirrorQueued(v, t, hm) = x
  BY DEF MirrorQueued
<1>2. /\ v \in VbdState /\ v.req[c].op \in {"read", "write"} /\ t.iov \in Nat
      /\ \A y \in v.treqs : y.req \in Reqs /\ y.iov \in Nat
  BY DEF Sound, VbdState, Vreq, Treq
<1>3. n \in Nat /\ n \in {1, 2} /\ (n = 2 <=> mirrored(v, c))
  OBVIOUS
<1> HIDE DEF n
<1>4. Sound(u, c, n) /\ SameButTreqs(v, u) /\ u.treqs = v.treqs
  BY <1>3, Raised
<1>5. u.req[c].op = v.req[c].op /\ u.secondary_mode = v.secondary_mode /\ u.new = v.new
      /\ u.failed = v.failed
  BY <1>4 DEF SameButTreqs
<1>6. Open(u) = Open(v) /\ Onward(v, u)
  BY <1>4, TreqsFrame
<1>7. Progress(v, c, t, u)
  BY <1>4, <1>5, <1>6 DEF Progress
<1> HIDE DEF u
<1>8. /\ Sound(x, c, 1) /\ Progress(v, c, t, x) /\ Ready(x, t) /\ x.req[c].op = v.req[c].op
      /\ mirrored(v, c) =>
            /\ n = 2 /\ x = td_queue(u, m, hm) /\ Sound(u, c, 2) /\ Ready(u, m)
            /\ m \in Treq /\ m.req = c /\ m.iov = t.iov /\ m.image = "second"
      /\ ~mirrored(v, c) => n = 1 /\ x = u
  <2>1. CASE mirrored(v, c)
    <3>1. v.secondary_mode = "MIRROR" /\ v.req[c].op = "write" /\ t.image = "leaf" /\ n = 2
      BY <1>3, <2>1 DEF mirrored
    <3>2. v.secondary = "second"
      BY <3>1 DEF Sound, ChainOK
    <3>3. m \in Treq /\ m.req = c /\ m.iov = t.iov /\ m.image = "second"
      BY <3>2 DEF Treq, Images
    <3>4. hm \in {"async", "forward"} \cup Errors /\ hm # "forward"
      <4>1. hm \in Hows(v, m)
        BY <2>1
      <4>2. v.req[m.req].op = "write"
        BY <3>1, <3>3
      <4> HIDE DEF m
      <4>3. hm \in {"async", "forward"} \cup Errors /\ (hm = "forward" => v.req[m.req].op = "read")
        BY <4>1, <4>2, HowsFacts
      <4> QED BY <4>2, <4>3
    <3>5. Ready(u, m)
      <4>1. m \notin u.treqs
        <5> HIDE DEF m
        <5>1. \A y \in v.treqs : y.req = c => y.iov # t.iov
          BY <1>2
        <5> QED BY <1>4, <3>3, <5>1
      <4>2. "image" \notin OpenFails => "second" \in Open(v)
        <5> SUFFICES ASSUME "image" \notin OpenFails PROVE "second" \in Open(v)
          OBVIOUS
        <5>1. v.images # <<>>
          <6>1. c \in v.pending
            BY DEF Sound, Waiting
          <6> QED BY <6>1 DEF Sound, Quiet
        <5>2. v.images = <<"leaf", "second", "base">>
          BY <3>1, <5>1 DEF Sound, MirrorOpen
        <5> QED BY <5>2, ChainElems DEF Open
      <4> QED BY <1>5, <1>6, <3>1, <3>3, <4>1, <4>2 DEF Ready
    <3> DEFINE d == td_queue(u, m, hm)
    <3>6. Sound(d, c, 1) /\ Progress(u, c, m, d) /\ d.treqs \subseteq u.treqs \cup {m}
      <4>1. Sound(u, c, 1 + 1)
        BY <1>4, <3>1
      <4> HIDE DEF m
      <4> QED BY <3>3, <3>4, <3>5, <4>1, TdQueue
    <3>7. x = d
      BY <3>1
    <3> HIDE DEF d, x, m
    <3>8. Progress(u, c, t, d)
      BY <3>3, <3>6 DEF Progress
    <3>9. Progress(v, c, t, d)
      BY <1>7, <3>8, ProgressTwice
    <3>10. d.req[c].op = v.req[c].op
      BY <3>9 DEF Progress, Onward
    <3>11. t.image \in Images
      BY DEF Treq
    <3>12. Ready(d, t)
      <4>1. t \notin d.treqs
        <5>1. t # m
          BY <3>1, <3>3
        <5>2. t \notin v.treqs
          BY <1>2
        <5> QED BY <1>4, <3>6, <5>1, <5>2
      <4>2. t.image \in Open(d)
        BY <3>9, <3>11 DEF Progress, Onward
      <4> QED BY <3>1, <3>10, <4>1, <4>2 DEF Ready
    <3> QED BY <1>4, <2>1, <3>1, <3>3, <3>5, <3>6, <3>7, <3>9, <3>10, <3>12 DEF d
  <2>2. CASE ~mirrored(v, c)
    <3>1. n = 1
      BY <1>3, <2>2
    <3>2. x = u
      BY <3>1
    <3>3. Ready(u, t)
      <4>1. \A y \in u.treqs : ~(y.req = t.req /\ y.iov = t.iov)
        BY <1>2, <1>4
      <4> QED BY <1>4, <1>6, <4>1 DEF Ready
    <3> QED BY <1>4, <1>5, <1>7, <2>2, <3>1, <3>2, <3>3
  <2> QED BY <2>1, <2>2
<1> HIDE DEF x
<1> QED BY <1>1, <1>8 DEF u, Copied

\* One segment, and its copy for the mirror.
LEMMA IovSubmitted ==
  ASSUME NEW v, NEW c \in Reqs, NEW t \in Treq, t.req = c, Sound(v, c, 0),
         \A u \in v.treqs : u.req = c => u.iov < t.iov,
         t.image \in Open(v), v.secondary_mode = "MIRROR" => t.image = "leaf",
         NEW how \in Hows(v, t),
         NEW hm \in (IF mirrored(v, c) THEN Hows(v, [t EXCEPT !.image = v.secondary]) ELSE {"async"})
  PROVE  LET w == submit_iov(v, t, hm, how)
         IN  /\ Sound(w, c, 0) /\ Progress(v, c, t, w)
<1> DEFINE x == MirrorQueued(v, t, hm)
           w == td_queue(x, t, how)
<1>1. submit_iov(v, t, hm, how) = w
  BY DEF submit_iov, MirrorQueued
<1>2. v.req[c].op \in {"read", "write"}
  BY DEF Sound, VbdState, Vreq
<1>3. how \in {"async", "forward"} \cup Errors /\ (how = "forward" => v.req[c].op = "read")
  BY <1>2, HowsFacts
<1>4. /\ Sound(x, c, 1) /\ Progress(v, c, t, x) /\ Ready(x, t) /\ x.req[c].op = v.req[c].op
  BY MirrorSubmitted
<1> HIDE DEF x
<1>5. Sound(w, c, 0) /\ Progress(x, c, t, w)
  <2>1. Sound(x, c, 0 + 1)
    BY <1>4
  <2> QED BY <1>3, <1>4, <2>1, TdQueue
<1> HIDE DEF w
<1>6. Progress(v, c, t, w)
  BY <1>4, <1>5, ProgressTwice
<1> QED BY <1>1, <1>5, <1>6

\* The step of the loop over the segments.
LEMMA SubmitIovOK ==
  ASSUME IInv, SubmitIov
  PROVE  IInv'
<1> DEFINE c == srv.cur
           t == [req |-> c, iov |-> srv.iov, image |-> srv.image]
<1>1. /\ srv.pc = "submit" /\ srv.iov <= Iovs /\ srv \in SrvState /\ c \in Reqs /\ srv.iov >= 1
      /\ srv.image \in Images /\ srv.image \in Open(vbd) /\ Sound(vbd, c, 0)
      /\ vbd.secondary_mode = "MIRROR" => srv.image = "leaf"
      /\ \A u \in vbd.treqs : u.req = c => u.iov < srv.iov
  BY DEF SubmitIov, IInv, LoopOK, SubmitOK
<1>2. srv.iov \in Nat
  BY <1>1 DEF SrvState
<1>3. t \in Treq /\ t.req = c /\ t.iov = srv.iov /\ t.image = srv.image
  BY <1>1, <1>2, ConstantsAssumption DEF Treq
<1> DEFINE m == [t EXCEPT !.image = vbd.secondary]
<1>4. PICK how \in Hows(vbd, t), hm \in IF mirrored(vbd, c) THEN Hows(vbd, m) ELSE {"async"} :
         vbd' = submit_iov(vbd, t, hm, how)
  BY DEF SubmitIov
<1>5. /\ srv' = [srv EXCEPT !.iov = @ + 1] /\ UNCHANGED <<ctl, signals>>
  BY DEF SubmitIov
<1> HIDE DEF t, c
<1>6. Sound(vbd', c, 0) /\ Progress(vbd, c, t, vbd')
  BY <1>1, <1>3, <1>4, IovSubmitted
<1>7. /\ srv' \in SrvState /\ srv'.pc = "submit" /\ srv'.cur = c /\ srv'.iov = srv.iov + 1
      /\ srv'.image = srv.image /\ srv'.todo = srv.todo /\ srv'.loop = srv.loop
  BY <1>1, <1>2, <1>5 DEF SrvState, c
<1>8. LoopOK(srv', vbd')
  <2>1. LoopOK(srv, vbd)
    BY DEF IInv
  <2>2. LoopOn(srv', vbd') = LoopOn(srv, vbd)
    BY <1>3, <1>6, <1>7 DEF LoopOn, Progress
  <2> QED BY <1>1, <1>7, <2>1, <2>2 DEF LoopOK, c
<1>9. SubmitOK(srv', vbd')
  <2>1. \A u \in vbd'.treqs : u.req = c => u.iov < srv.iov + 1
    <3> SUFFICES ASSUME NEW u \in vbd'.treqs, u.req = c PROVE u.iov < srv.iov + 1
      OBVIOUS
    <3>1. u \in vbd.treqs \/ u.iov = srv.iov
      BY <1>3, <1>6 DEF Progress
    <3>2. u.iov \in Nat
      BY <1>6 DEF Sound, VbdState, Treq
    <3> QED BY <1>1, <1>2, <3>1, <3>2
  <2>2. srv.image \in Open(vbd') /\ (vbd'.secondary_mode = "MIRROR" => srv.image = "leaf")
    BY <1>1, <1>6 DEF Progress, Onward
  <2>3. srv'.iov >= 1
    BY <1>1, <1>2, <1>7
  <2> QED BY <1>1, <1>7, <2>1, <2>2, <2>3 DEF SubmitOK
<1>10. Control'
  BY <1>5 DEF IInv, Control
<1> QED BY <1>6, <1>7, <1>8, <1>9, <1>10 DEF IInv

-----------------------------------------------------------------------------
(* The loops over the queues *)

\* Of r only what is not its queue's, its I/Os' or its direction's business differs; of
\* the rest nothing does.
SameButReq(v, r, w) ==
  /\ w.state = v.state /\ w.kind = v.kind /\ w.ring = v.ring /\ w.flags = v.flags
  /\ w.images = v.images /\ w.ignore_enospc = v.ignore_enospc /\ w.secondary = v.secondary
  /\ w.retired = v.retired /\ w.secondary_mode = v.secondary_mode
  /\ w.new = v.new /\ w.pending = v.pending /\ w.failed = v.failed /\ w.completed = v.completed
  /\ w.treqs = v.treqs
  /\ \A q \in Reqs : /\ w.req[q].st = v.req[q].st /\ w.req[q].op = v.req[q].op
                     /\ w.req[q].secs = v.req[q].secs
                     /\ q # r => w.req[q] = v.req[q]

\* A change to one request, that may begin or end its submission.
LEMMA ReqTouched ==
  ASSUME NEW v \in VbdState, NEW r \in Reqs, NEW x \in Vreq,
         x.st = v.req[r].st, x.op = v.req[r].op, x.secs = v.req[r].secs
  PROVE  Touched(v, r, x) \in VbdState /\ SameButReq(v, r, Touched(v, r, x))
         /\ Touched(v, r, x).req[r] = x
<1> DEFINE w == Touched(v, r, x)
           f == [v.req EXCEPT ![r] = x]
<1>1. v.req \in [Reqs -> Vreq]
  BY Fields
<1>2. f \in [Reqs -> Vreq] /\ f[r] = x /\ \A q \in Reqs : q # r => f[q] = v.req[q]
  BY <1>1
<1>3. w = [v EXCEPT !.req = f]
  BY DEF Touched, VbdState
<1> HIDE DEF w, f
<1>4. w \in VbdState
  BY <1>2, <1>3 DEF VbdState
<1>5. /\ w.treqs = v.treqs /\ w.req = f
      /\ w.state = v.state /\ w.kind = v.kind /\ w.ring = v.ring /\ w.flags = v.flags
      /\ w.images = v.images /\ w.ignore_enospc = v.ignore_enospc /\ w.secondary = v.secondary
      /\ w.retired = v.retired /\ w.secondary_mode = v.secondary_mode
      /\ w.new = v.new /\ w.pending = v.pending /\ w.failed = v.failed /\ w.completed = v.completed
  BY <1>3 DEF VbdState
<1>6. \A q \in Reqs : /\ w.req[q].st = v.req[q].st /\ w.req[q].op = v.req[q].op
                      /\ w.req[q].secs = v.req[q].secs /\ (q # r => w.req[q] = v.req[q])
  BY <1>2, <1>5
<1>7. SameButReq(v, r, w)
  BY <1>5, <1>6 DEF SameButReq
<1> QED BY <1>2, <1>4, <1>5, <1>7 DEF w

\* What the invariant says apart from the submission.
LEMMA ReqFrame ==
  ASSUME NEW v \in VbdState, NEW w, NEW r, NEW c, NEW n, SameButReq(v, r, w)
  PROVE  /\ Queues(v) => Queues(w)
         /\ Counted(v, c, n) => Counted(w, c, n)
         /\ Waiting(v, c) => Waiting(w, c)
         /\ ReadsOnce(v) => ReadsOnce(w)
         /\ ChainOK(v) => ChainOK(w)
         /\ MirrorOpen(v) => MirrorOpen(w)
         /\ HeldOpen(v) => HeldOpen(w)
         /\ \A q : Held(w, q) = Held(v, q)
<1>1. \A q : Held(w, q) = Held(v, q)
  BY DEF SameButReq, Held
<1>2. \A t \in v.treqs : t.req \in Reqs
  BY DEF VbdState, Treq
<1>3. Queues(v) => Queues(w)
  BY DEF Queues, SameButReq
<1>4. Counted(v, c, n) => Counted(w, c, n)
  BY <1>1 DEF Counted, SameButReq
<1>5. Waiting(v, c) => Waiting(w, c)
  BY <1>1 DEF Waiting, SameButReq
<1>6. ReadsOnce(v) => ReadsOnce(w)
  BY <1>2 DEF ReadsOnce, SameButReq
<1>7. ChainOK(v) => ChainOK(w)
  BY DEF ChainOK, SameButReq
<1>8. MirrorOpen(v) => MirrorOpen(w)
  BY DEF MirrorOpen, SameButReq
<1>9. HeldOpen(v) => HeldOpen(w)
  BY <1>2 DEF HeldOpen, SameButReq, Open
<1> QED BY <1>1, <1>3, <1>4, <1>5, <1>6, <1>7, <1>8, <1>9

\* c is being submitted; if the queue is quiesced or the images are closed it is the only
\* pending request, and without I/O.
Submitted(v, c) ==
  /\ v \in VbdState /\ c \in Reqs
  /\ Queues(v) /\ Counted(v, c, 0) /\ Submitting(v, c) /\ Waiting(v, c)
  /\ ReadsOnce(v) /\ ChainOK(v) /\ MirrorOpen(v) /\ HeldOpen(v)
  /\ "PAUSED" \in v.state => "QUIESCED" \in v.state /\ v.images = <<>>
  /\ "QUIESCED" \in v.state \/ v.images = <<>> => v.pending \subseteq {c} /\ Held(v, c) = {}

\* The invariant during a submission.
LEMMA SoundSubmitted ==
  ASSUME NEW v, NEW c \in Reqs, Sound(v, c, 0)
  PROVE  Submitted(v, c)
<1>1. c \in v.pending
  BY DEF Sound, Waiting
<1>2. ~("QUIESCED" \in v.state \/ v.images = <<>>)
  BY <1>1 DEF Sound, Quiet
<1> QED BY <1>2 DEF Sound, Submitted, Quiet

\* The other requests stay on the queues they are on.
Kept(v, c, w) ==
  /\ Elems(v.new) \ {c} \subseteq Elems(w.new)
  /\ Elems(v.failed) \ {c} \subseteq Elems(w.failed)

\* The end of tapdisk_vbd_issue_request.
LEMMA Issued ==
  ASSUME NEW v, NEW c, Submitted(v, c)
  PROVE  Sound(issued(v, c), NoImage, 0) /\ Kept(v, c, issued(v, c))
<1> DEFINE x == [v.req[c] EXCEPT !.submitting = 0]
           w == Touched(v, c, x)
<1>1. v \in VbdState /\ c \in Reqs /\ v.req \in [Reqs -> Vreq] /\ v.req[c] \in Vreq /\ c # NoImage
  BY Fields, ConstantsAssumption DEF Submitted
<1>2. /\ x \in Vreq /\ x.st = v.req[c].st /\ x.op = v.req[c].op /\ x.secs = v.req[c].secs
      /\ x.submitting = 0
  BY <1>1 DEF Vreq
<1>3. issued(v, c) = complete_vbd_request(w, c)
  BY <1>1 DEF issued, Touched, VbdState
<1> HIDE DEF x
<1>4. w \in VbdState /\ SameButReq(v, c, w) /\ w.req[c] = x
  BY <1>1, <1>2, ReqTouched
<1> HIDE DEF w
<1>5. /\ Queues(w) /\ Counted(w, c, 0) /\ Waiting(w, c) /\ ReadsOnce(w) /\ ChainOK(w)
      /\ MirrorOpen(w) /\ HeldOpen(w) /\ \A q : Held(w, q) = Held(v, q)
  BY <1>1, <1>4, ReqFrame DEF Submitted
<1>6. w.state = v.state /\ w.images = v.images /\ w.pending = v.pending /\ w.new = v.new
      /\ w.failed = v.failed
  BY <1>4 DEF SameButReq
<1>7. Counted(w, NoImage, 0)
  <2>1. \A r \in Reqs : Cardinality(Held(w, r)) \in Nat
    <3>1. \A r \in Reqs : Held(w, r) \subseteq w.treqs
      BY DEF Held
    <3> QED BY <1>5, <3>1, FS_Subset, FS_CardinalityType DEF Counted
  <2> QED BY <1>5, <2>1, ConstantsAssumption DEF Counted
<1>8. Submitting(w, NoImage)
  <2>1. \A q \in Reqs : q # c => w.req[q] = v.req[q]
    BY <1>4 DEF SameButReq
  <2> QED BY <1>2, <1>4, <2>1, ConstantsAssumption DEF Submitted, Submitting
<1>9. c \in w.pending
  BY <1>1, <1>5 DEF Waiting
<1>10. CASE Held(v, c) = {}
  <2>1. w.req[c].st = "queued"
    BY <1>1, <1>5, <1>9 DEF Queues
  <2>2. \A q \in Reqs \ {c} : q \in w.pending <=> Held(w, q) # {} \/ q = NoImage
    BY <1>5, ConstantsAssumption DEF Waiting
  <2>3. Ending(w, NoImage, 0, c)
    BY <1>1, <1>4, <1>5, <1>6, <1>7, <1>8, <1>10, <2>1, <2>2 DEF Submitted, Ending
  <2>4. Sound(complete_vbd_request(w, c), NoImage, 0) /\ Moved(w, c, complete_vbd_request(w, c))
    BY <2>3, Retired
  <2>5. Kept(v, c, complete_vbd_request(w, c))
    BY <1>6, <2>4 DEF Moved, Kept
  <2> QED BY <1>3, <2>4, <2>5
<1>11. CASE Held(v, c) # {}
  <2>1. w.req[c].secs # 0
    <3>1. Held(w, c) \subseteq w.treqs
      BY DEF Held
    <3>2. IsFiniteSet(Held(w, c))
      BY <1>5, <3>1, FS_Subset DEF Counted
    <3>3. Cardinality(Held(w, c)) # 0
      BY <1>5, <1>11, <3>2, FS_EmptySet
    <3>4. w.req[c].secs = Cardinality(Held(w, c)) + 0
      BY <1>1, <1>7 DEF Counted
    <3> QED BY <3>2, <3>3, <3>4, FS_CardinalityType
  <2>2. complete_vbd_request(w, c) = w
    BY <2>1 DEF complete_vbd_request
  <2>3. Waiting(w, NoImage)
    BY <1>5, <1>9, <1>11, ConstantsAssumption DEF Waiting
  <2>4. Quiet(w)
    BY <1>6, <1>11 DEF Submitted, Quiet
  <2>5. Sound(w, NoImage, 0)
    BY <1>4, <1>5, <1>7, <1>8, <2>3, <2>4 DEF Sound
  <2>6. Kept(v, c, w)
    BY <1>6 DEF Kept
  <2> QED BY <1>3, <2>2, <2>5, <2>6
<1> QED BY <1>10, <1>11

\* The beginning of tapdisk_vbd_issue_request.
LEMMA Begun ==
  ASSUME NEW v, NEW r \in Reqs, Sound(v, NoImage, 0), r \in Elems(v.new) \cup Elems(v.failed)
  PROVE  LET u == to_pending([v EXCEPT !.req[r].submitting = 1, !.req[r].recent = TRUE], r)
         IN  /\ Submitted(u, r) /\ Held(u, r) = {} /\ Kept(v, r, u)
             /\ u.state = v.state /\ u.images = v.images /\ u.retired = v.retired
             /\ u.secondary_mode = v.secondary_mode
<1> DEFINE x == [v.req[r] EXCEPT !.submitting = 1, !.recent = TRUE]
           w == Touched(v, r, x)
           u == to_pending(w, r)
<1>1. /\ v \in VbdState /\ v.req \in [Reqs -> Vreq] /\ v.req[r] \in Vreq /\ r # NoImage
  BY Fields, ConstantsAssumption DEF Sound
<1>2. /\ x \in Vreq /\ x.st = v.req[r].st /\ x.op = v.req[r].op /\ x.secs = v.req[r].secs
      /\ x.submitting = 1
  <2>1. 1 \in 0 .. 1 /\ TRUE \in BOOLEAN
    OBVIOUS
  <2> QED BY <1>1, <2>1 DEF Vreq
<1>3. [v EXCEPT !.req[r].submitting = 1, !.req[r].recent = TRUE] = w
  BY <1>1 DEF Touched, VbdState
<1> HIDE DEF x
<1>4. w \in VbdState /\ SameButReq(v, r, w) /\ w.req[r] = x
  BY <1>1, <1>2, ReqTouched
<1> HIDE DEF w
<1>5. /\ Queues(w) /\ Counted(w, NoImage, 0) /\ Waiting(w, NoImage) /\ ReadsOnce(w) /\ ChainOK(w)
      /\ MirrorOpen(w) /\ HeldOpen(w) /\ \A q : Held(w, q) = Held(v, q)
  BY <1>1, <1>4, ReqFrame DEF Sound
<1>6. /\ w.state = v.state /\ w.images = v.images /\ w.pending = v.pending /\ w.new = v.new
      /\ w.failed = v.failed /\ w.retired = v.retired /\ w.secondary_mode = v.secondary_mode
      /\ \A q \in Reqs : q # r => w.req[q] = v.req[q]
  BY <1>4 DEF SameButReq
<1>7. r \notin w.pending /\ w.req[r].st = "queued" /\ Held(w, r) = {}
  BY <1>1, <1>5, <1>6 DEF Queues, Waiting
<1>8. Moved(w, r, u) /\ u.pending = w.pending \cup {r}
  BY <1>4, <1>5, <1>7, Moves
<1> HIDE DEF u
<1>9. u \in VbdState /\ SameButQueues(w, u) /\ Queues(u)
  BY <1>8 DEF Moved
<1>10. Submitting(w, r)
  BY <1>2, <1>4, <1>6, ConstantsAssumption DEF Sound, Submitting
<1>11. Counted(w, r, 0)
  <2>1. \A q \in Reqs : Cardinality(Held(w, q)) \in Nat
    <3>1. \A q \in Reqs : Held(w, q) \subseteq w.treqs
      BY DEF Held
    <3> QED BY <1>5, <3>1, FS_Subset, FS_CardinalityType DEF Counted
  <2> QED BY <1>5, <2>1, ConstantsAssumption DEF Counted
<1>12. /\ Counted(u, r, 0) /\ Submitting(u, r) /\ ReadsOnce(u) /\ ChainOK(u) /\ MirrorOpen(u)
       /\ HeldOpen(u) /\ \A q : Held(u, q) = Held(w, q)
  BY <1>5, <1>9, <1>10, <1>11, Frame
<1>13. Waiting(u, r)
  BY <1>5, <1>8, <1>12, ConstantsAssumption DEF Waiting
<1>14. /\ u.state = v.state /\ u.images = v.images /\ u.retired = v.retired
       /\ u.secondary_mode = v.secondary_mode
  BY <1>6, <1>9 DEF SameButQueues
<1>15. Submitted(u, r)
  BY <1>6, <1>7, <1>8, <1>9, <1>12, <1>13, <1>14 DEF Submitted, Sound, Quiet
<1>16. Kept(v, r, u)
  BY <1>6, <1>8 DEF Moved, Kept
<1> QED BY <1>3, <1>7, <1>12, <1>14, <1>15, <1>16 DEF u

\* tapdisk_vbd_issue_request that finds the queue stopped or no image.
LEMMA Refused ==
  ASSUME NEW v, NEW c, NEW e \in Errors, Submitted(v, c)
  PROVE  LET w == [v EXCEPT !.req[c].error = e]
         IN  Submitted(w, c) /\ w.new = v.new /\ w.failed = v.failed
<1> DEFINE x == [v.req[c] EXCEPT !.error = e]
           w == Touched(v, c, x)
<1>1. v \in VbdState /\ c \in Reqs /\ v.req \in [Reqs -> Vreq] /\ v.req[c] \in Vreq
  BY Fields DEF Submitted
<1>2. /\ x \in Vreq /\ x.st = v.req[c].st /\ x.op = v.req[c].op /\ x.secs = v.req[c].secs
      /\ x.submitting = v.req[c].submitting
  BY <1>1 DEF Vreq
<1>3. [v EXCEPT !.req[c].error = e] = w
  BY <1>1 DEF Touched, VbdState
<1> HIDE DEF x
<1>4. w \in VbdState /\ SameButReq(v, c, w) /\ w.req[c] = x
  BY <1>1, <1>2, ReqTouched
<1> HIDE DEF w
<1>5. /\ Queues(w) /\ Counted(w, c, 0) /\ Waiting(w, c) /\ ReadsOnce(w) /\ ChainOK(w)
      /\ MirrorOpen(w) /\ HeldOpen(w) /\ \A q : Held(w, q) = Held(v, q)
  BY <1>1, <1>4, ReqFrame DEF Submitted
<1>6. w.state = v.state /\ w.images = v.images /\ w.pending = v.pending /\ w.new = v.new
      /\ w.failed = v.failed /\ \A q \in Reqs : q # c => w.req[q] = v.req[q]
  BY <1>4 DEF SameButReq
<1>7. Submitting(w, c)
  BY <1>2, <1>4, <1>6 DEF Submitted, Submitting
<1>8. Submitted(w, c)
  BY <1>1, <1>4, <1>5, <1>6, <1>7 DEF Submitted
<1> QED BY <1>3, <1>6, <1>8

\* Away from the loops and the submission, what they were at does not matter.
LEMMA AtRest ==
  ASSUME NEW s, NEW v, s.pc \notin {"reissue", "issue_new", "submit"}, s.cur = NoImage
  PROVE  LoopOK(s, v) /\ SubmitOK(s, v)
BY DEF LoopOK, SubmitOK

\* The next place of the loop.
LEMMA Goto ==
  ASSUME srv \in SrvState,
         NEW pc \in {"events", "check", "reissue", "issue_new", "tail", "kick", "recheck", "end", "exited"},
         NEW s \in Seq(Reqs)
  PROVE  /\ goto(pc) \in SrvState /\ goto(pc).pc = pc /\ goto(pc).cur = NoImage
         /\ goto(pc).todo = srv.todo /\ goto(pc).loop = srv.loop
         /\ [goto(pc) EXCEPT !.todo = s] \in SrvState /\ [goto(pc) EXCEPT !.todo = s].pc = pc
         /\ [goto(pc) EXCEPT !.todo = s].cur = NoImage /\ [goto(pc) EXCEPT !.todo = s].todo = s
         /\ [goto(pc) EXCEPT !.todo = s].loop = srv.loop
BY DEF SrvState, goto

\* The places away from the loops.
LEMMA Rests ==
  ASSUME srv \in SrvState, NEW pc \in {"events", "check", "tail", "kick", "recheck", "end", "exited"}
  PROVE  /\ goto(pc) \in SrvState /\ goto(pc).cur = NoImage /\ goto(pc).pc = pc
         /\ \A v : LoopOK(goto(pc), v) /\ SubmitOK(goto(pc), v)
<1> DEFINE s == goto(pc)
<1>1. s \in SrvState /\ s.pc = pc /\ s.cur = NoImage
  BY DEF SrvState, goto
<1> HIDE DEF s
<1>2. \A v : LoopOK(s, v) /\ SubmitOK(s, v)
  BY <1>1, AtRest
<1> QED BY <1>1, <1>2 DEF s

\* The next round of a loop, or its end.
LEMMA LoopsOn ==
  ASSUME srv \in SrvState, NEW v, NEW r, srv.todo # <<>>, Distinct(srv.todo),
         Elems(Tail(srv.todo)) \subseteq Elems(LoopOn(srv, v))
  PROVE  LET s == loop_on(v, r)
         IN  s \in SrvState /\ s.cur = NoImage /\ LoopOK(s, v) /\ SubmitOK(s, v)
<1> DEFINE s == loop_on(v, r)
           rest == Tail(srv.todo)
           none == <<>>
<1>1. srv.todo \in Seq(Reqs) /\ srv.loop \in {"reissue", "issue_new"}
  BY DEF SrvState
<1>2. rest \in Seq(Reqs) /\ Distinct(rest) /\ none \in Seq(Reqs)
  BY <1>1, TailFacts
<1>0. Elems(none) = {} /\ Distinct(none)
  BY DEF Elems, Distinct
<1> HIDE DEF rest, none
<1>3. CASE s = [goto(srv.loop) EXCEPT !.todo = rest]
  <2>1. /\ s \in SrvState /\ s.pc = srv.loop /\ s.cur = NoImage /\ s.todo = rest /\ s.loop = srv.loop
    BY <1>1, <1>2, <1>3, Goto
  <2> HIDE DEF s
  <2>2. LoopOn(s, v) = LoopOn(srv, v)
    BY <2>1 DEF LoopOn
  <2>3. LoopOK(s, v) /\ SubmitOK(s, v)
    BY <1>1, <1>2, <2>1, <2>2 DEF LoopOK, SubmitOK, rest
  <2> QED BY <2>1, <2>3 DEF s
<1>4. CASE s = [goto("reissue") EXCEPT !.todo = none] /\ srv.loop = "reissue"
  <2>1. /\ s \in SrvState /\ s.pc = "reissue" /\ s.cur = NoImage /\ s.todo = none /\ s.loop = "reissue"
    BY <1>1, <1>2, <1>4, Goto
  <2> HIDE DEF s
  <2>3. LoopOK(s, v) /\ SubmitOK(s, v)
    BY <1>0, <2>1 DEF LoopOK, SubmitOK
  <2> QED BY <2>1, <2>3 DEF s
<1>5. ASSUME NEW pc \in {"tail", "end"}, s = [goto(pc) EXCEPT !.todo = none]
      PROVE  s \in SrvState /\ s.cur = NoImage /\ LoopOK(s, v) /\ SubmitOK(s, v)
  <2>1. s \in SrvState /\ s.pc = pc /\ s.cur = NoImage
    BY <1>2, <1>5, Goto
  <2> HIDE DEF s
  <2> QED BY <2>1, AtRest
<1>6. \/ s = [goto(srv.loop) EXCEPT !.todo = rest]
      \/ s = [goto("reissue") EXCEPT !.todo = none] /\ srv.loop = "reissue"
      \/ s = [goto("tail") EXCEPT !.todo = none] \/ s = [goto("end") EXCEPT !.todo = none]
  BY DEF loop_on, rest, none
<1> QED BY <1>3, <1>4, <1>5, <1>6

\* The step after the last segment.
LEMMA EndIssueOK ==
  ASSUME IInv, EndIssue
  PROVE  IInv'
<1> DEFINE c == srv.cur
<1>1. /\ srv.pc = "submit" /\ vbd' = issued(vbd, c) /\ srv' = loop_on(vbd', c)
      /\ UNCHANGED <<ctl, signals>>
  BY DEF EndIssue
<1>2. /\ srv \in SrvState /\ c \in Reqs /\ srv.todo # <<>> /\ Head(srv.todo) = c
      /\ Distinct(srv.todo) /\ Elems(Tail(srv.todo)) \subseteq Elems(LoopOn(srv, vbd))
      /\ Sound(vbd, c, 0)
  BY <1>1 DEF IInv, LoopOK
<1> HIDE DEF c
<1>3. Sound(vbd', NoImage, 0) /\ Kept(vbd, c, vbd')
  BY <1>1, <1>2, SoundSubmitted, Issued
<1>4. c \notin Elems(Tail(srv.todo))
  <2>1. srv.todo \in Seq(Reqs)
    BY <1>2 DEF SrvState
  <2> QED BY <1>2, <2>1, TailFacts
<1>5. Elems(Tail(srv.todo)) \subseteq Elems(LoopOn(srv, vbd'))
  BY <1>2, <1>3, <1>4 DEF Kept, LoopOn
<1>6. srv' \in SrvState /\ srv'.cur = NoImage /\ LoopOK(srv', vbd') /\ SubmitOK(srv', vbd')
  BY <1>1, <1>2, <1>5, LoopsOn
<1>7. Control'
  BY <1>1 DEF IInv, Control
<1> QED BY <1>3, <1>6, <1>7 DEF IInv

\* What a step of the loops establishes.
InOrder(v, s) == Sound(v, s.cur, 0) /\ s \in SrvState /\ LoopOK(s, v) /\ SubmitOK(s, v)

\* tapdisk_vbd_issue_request up to its loop over the segments.
LEMMA BeginIssueOK ==
  ASSUME NEW v, NEW r, Sound(v, NoImage, 0), srv \in SrvState, srv.pc \in {"reissue", "issue_new"},
         srv.loop = srv.pc, srv.todo # <<>>, r = Head(srv.todo), Distinct(srv.todo),
         Elems(srv.todo) \subseteq Elems(LoopOn(srv, v)), BeginIssue(v, r)
  PROVE  InOrder(vbd', srv')
<1> DEFINE u == to_pending([v EXCEPT !.req[r].submitting = 1, !.req[r].recent = TRUE], r)
           e == IF v.images = <<>> THEN "ENOSYS" ELSE "EAGAIN"
           d == [u EXCEPT !.req[r].error = e]
           f == issued(d, r)
<1>1. srv.todo \in Seq(Reqs)
  BY DEF SrvState
<1>2. /\ r \in Reqs /\ r \in Elems(srv.todo) /\ r \notin Elems(Tail(srv.todo))
      /\ Elems(Tail(srv.todo)) \subseteq Elems(srv.todo)
  BY <1>1, TailFacts
<1>3. r \in Elems(v.new) \cup Elems(v.failed)
  BY <1>2 DEF LoopOn
<1>4. /\ Submitted(u, r) /\ Held(u, r) = {} /\ Kept(v, r, u)
      /\ u.state = v.state /\ u.images = v.images /\ u.retired = v.retired
      /\ u.secondary_mode = v.secondary_mode
  BY <1>2, <1>3, Begun
<1>5. CASE v.images # <<>> /\ queue_ready(v)
  <2>1. /\ vbd' = u
        /\ srv' = [srv EXCEPT !.pc = "submit", !.cur = r, !.iov = 1, !.image = Head(v.images)]
    BY <1>5 DEF BeginIssue
  <2> HIDE DEF u
  <2>2. Head(v.images) \in Images /\ Head(v.images) \in Open(u)
    <3>1. v.images \in Chains
      BY DEF Sound, ChainOK
    <3>2. 1 \in 1 .. Len(v.images) /\ Head(v.images) = v.images[1]
      BY <1>5, <3>1, ChainEnds
    <3>3. v.images[1] \in Images /\ v.images[1] \in Elems(v.images)
      BY <1>5, <3>1, <3>2, ChainEnds
    <3> QED BY <1>4, <3>2, <3>3 DEF Open
  <2>3. u.secondary_mode = "MIRROR" => Head(v.images) = "leaf"
    <3> SUFFICES ASSUME u.secondary_mode = "MIRROR" PROVE Head(v.images) = "leaf"
      OBVIOUS
    <3>1. v.images \in {<<"leaf", "base">>, <<"leaf", "second", "base">>}
      BY <1>4, <1>5 DEF Sound, ChainOK
    <3> QED BY <3>1
  <2>4. /\ srv' \in SrvState /\ srv'.pc = "submit" /\ srv'.cur = r /\ srv'.iov = 1
        /\ srv'.image = Head(v.images) /\ srv'.todo = srv.todo /\ srv'.loop = srv.loop
    <3> DEFINE h == Head(v.images)
    <3> HIDE DEF h
    <3>1. srv' = [srv EXCEPT !.pc = "submit", !.cur = r, !.iov = 1, !.image = h] /\ h \in Images
      BY <2>1, <2>2 DEF h
    <3> QED BY <1>2, <3>1 DEF SrvState, h
  <2>5. Sound(u, r, 0)
    <3>1. "QUIESCED" \notin u.state /\ u.images # <<>>
      BY <1>4, <1>5 DEF queue_ready
    <3> QED BY <1>4, <3>1 DEF Submitted, Sound, Quiet
  <2>6. LoopOK(srv', u)
    <3>1. Elems(Tail(srv.todo)) \subseteq Elems(LoopOn(srv', u))
      BY <1>2, <1>4, <2>4 DEF Kept, LoopOn
    <3> QED BY <1>2, <2>4, <3>1 DEF LoopOK
  <2>7. SubmitOK(srv', u)
    <3>1. \A t \in u.treqs : t.req # r
      BY <1>4 DEF Held
    <3> QED BY <2>2, <2>3, <2>4, <3>1 DEF SubmitOK
  <2> QED BY <2>1, <2>4, <2>5, <2>6, <2>7 DEF InOrder
<1>6. CASE ~(v.images # <<>> /\ queue_ready(v))
  <2>1. vbd' = f /\ srv' = loop_on(f, r)
    BY <1>6 DEF BeginIssue
  <2>2. e \in Errors
    BY DEF Errors
  <2> HIDE DEF u, e
  <2>3. Submitted(d, r) /\ d.new = u.new /\ d.failed = u.failed
    BY <1>4, <2>2, Refused
  <2> HIDE DEF d
  <2>4. Sound(f, NoImage, 0) /\ Kept(d, r, f)
    BY <2>3, Issued
  <2> HIDE DEF f
  <2>5. Elems(Tail(srv.todo)) \subseteq Elems(LoopOn(srv, f))
    BY <1>2, <1>4, <2>3, <2>4 DEF Kept, LoopOn
  <2> DEFINE s == loop_on(f, r)
  <2>6. s \in SrvState /\ s.cur = NoImage /\ LoopOK(s, f) /\ SubmitOK(s, f)
    BY <2>5, LoopsOn
  <2> QED BY <2>1, <2>4, <2>6 DEF InOrder
<1> QED BY <1>5, <1>6

\* A failed request that is completed.
LEMMA FailedEnds ==
  ASSUME NEW v, NEW r \in Elems(v.failed), Sound(v, NoImage, 0)
  PROVE  /\ Sound(complete_vbd_request(v, r), NoImage, 0)
         /\ Elems(v.failed) \ {r} \subseteq Elems(complete_vbd_request(v, r).failed)
<1>1. r \in Reqs /\ r # NoImage
  <2>1. v.failed \in Seq(Reqs)
    BY Fields DEF Sound
  <2>2. r \in Reqs
    BY <2>1 DEF Elems
  <2> QED BY <2>2, ConstantsAssumption
<1>2. r \notin v.pending /\ v.req[r].st = "queued"
  BY <1>1 DEF Sound, Queues
<1>3. Held(v, r) = {}
  BY <1>1, <1>2 DEF Sound, Waiting
<1>4. Ending(v, NoImage, 0, r)
  BY <1>1, <1>2, <1>3 DEF Sound, Ending, Waiting, Quiet
<1>5. Sound(complete_vbd_request(v, r), NoImage, 0) /\ Moved(v, r, complete_vbd_request(v, r))
  BY <1>4, Retired
<1> QED BY <1>5 DEF Moved

\* The loop over the failed requests.
LEMMA ReissueOK ==
  ASSUME IInv, Reissue
  PROVE  IInv'
<1> DEFINE r == Head(srv.todo)
           s == [srv EXCEPT !.todo = Tail(@)]
<1>1. /\ srv.pc = "reissue" /\ srv \in SrvState /\ srv.loop = "reissue" /\ srv.cur = NoImage
      /\ Elems(srv.todo) \subseteq Elems(vbd.failed) /\ Distinct(srv.todo)
      /\ Sound(vbd, NoImage, 0) /\ srv.todo \in Seq(Reqs)
  BY DEF Reissue, IInv, LoopOK, LoopOn, SrvState
<1>2. UNCHANGED <<ctl, signals>>
  BY DEF Reissue
<1>3. Control'
  BY <1>2 DEF IInv, Control
<1>4. ASSUME srv.todo # <<>>
      PROVE  /\ s \in SrvState /\ s.pc = "reissue" /\ s.loop = "reissue" /\ s.cur = NoImage
             /\ Elems(s.todo) \subseteq Elems(srv.todo) \ {r} /\ Distinct(s.todo)
             /\ r \in Elems(vbd.failed) /\ r \in Reqs
  <2>1. /\ r \in Reqs /\ r \in Elems(srv.todo) /\ Tail(srv.todo) \in Seq(Reqs)
        /\ Elems(Tail(srv.todo)) \subseteq Elems(srv.todo)
        /\ Distinct(Tail(srv.todo)) /\ r \notin Elems(Tail(srv.todo))
    BY <1>1, <1>4, TailFacts
  <2> DEFINE rest == Tail(srv.todo)
  <2> HIDE DEF rest
  <2>2. s = [srv EXCEPT !.todo = rest]
    BY DEF rest
  <2> HIDE DEF s
  <2>3. rest \in Seq(Reqs)
    BY <2>1 DEF rest
  <2>4. s \in SrvState /\ s.pc = "reissue" /\ s.loop = "reissue" /\ s.cur = NoImage /\ s.todo = rest
    BY <1>1, <2>2, <2>3 DEF SrvState
  <2> QED BY <1>1, <2>1, <2>4 DEF rest
<1>5. CASE srv.todo = <<>>
  <2> DEFINE g == goto("issue_new")
             n == vbd.new
  <2>1. srv' = [g EXCEPT !.todo = n, !.loop = "issue_new"] /\ vbd' = vbd
    BY <1>5 DEF Reissue
  <2>2. n \in Seq(Reqs) /\ Distinct(n)
    BY <1>1, Fields DEF Sound, Queues
  <2>3. g \in SrvState /\ g.pc = "issue_new" /\ g.cur = NoImage
    BY <1>1, <2>2, Goto
  <2> HIDE DEF g, n
  <2>4. /\ srv' \in SrvState /\ srv'.pc = "issue_new" /\ srv'.loop = "issue_new" /\ srv'.cur = NoImage
        /\ srv'.todo = n
    BY <2>1, <2>2, <2>3 DEF SrvState
  <2>5. LoopOK(srv', vbd')
    BY <2>1, <2>2, <2>4 DEF LoopOK, LoopOn, n
  <2>6. SubmitOK(srv', vbd')
    BY <2>4 DEF SubmitOK
  <2> QED BY <1>1, <1>3, <2>1, <2>4, <2>5, <2>6 DEF IInv
<1>6. CASE srv.todo # <<>> /\ srv' = s /\ vbd' = complete_vbd_request(vbd, r)
  <2>1. Sound(vbd', NoImage, 0) /\ Elems(vbd.failed) \ {r} \subseteq Elems(vbd'.failed)
    BY <1>1, <1>4, <1>6, FailedEnds
  <2> HIDE DEF s
  <2>2. LoopOK(srv', vbd') /\ SubmitOK(srv', vbd')
    BY <1>1, <1>4, <1>6, <2>1 DEF LoopOK, LoopOn, SubmitOK
  <2> QED BY <1>3, <1>4, <1>6, <2>1, <2>2 DEF IInv
<1>7. CASE srv.todo # <<>> /\ srv' = s /\ vbd' = vbd
  <2> HIDE DEF s
  <2>1. LoopOK(srv', vbd') /\ SubmitOK(srv', vbd')
    BY <1>1, <1>4, <1>7 DEF LoopOK, LoopOn, SubmitOK
  <2> QED BY <1>1, <1>3, <1>4, <1>7, <2>1 DEF IInv
<1>8. CASE srv.todo # <<>> /\ BeginIssue([vbd EXCEPT !.req[r].error = "ok"], r)
  <2> DEFINE x == [vbd.req[r] EXCEPT !.error = "ok"]
             v == Touched(vbd, r, x)
  <2>1. r \in Reqs
    BY <1>4, <1>8
  <2> HIDE DEF r
  <2>2. vbd \in VbdState /\ vbd.req \in [Reqs -> Vreq] /\ vbd.req[r] \in Vreq
    BY <1>1, <2>1, Fields DEF Sound
  <2>3. /\ x \in Vreq /\ x.st = vbd.req[r].st /\ x.op = vbd.req[r].op
        /\ x.submitting = vbd.req[r].submitting /\ x.secs = vbd.req[r].secs
    BY <2>2 DEF Vreq, Errors
  <2>4. [vbd EXCEPT !.req[r].error = "ok"] = v
    BY <2>1, <2>2 DEF Touched, VbdState
  <2> HIDE DEF x
  <2>5. Sound(v, NoImage, 0) /\ Alike(vbd, r, x, v)
    BY <1>1, <2>1, <2>3, TouchedSound
  <2> HIDE DEF v
  <2>6. v.failed = vbd.failed
    BY <2>5 DEF Alike, SameButTreqs
  <2>7. Elems(srv.todo) \subseteq Elems(LoopOn(srv, v))
    BY <1>1, <2>6 DEF LoopOn
  <2>8. BeginIssue(v, r)
    BY <1>8, <2>4
  <2>9. InOrder(vbd', srv')
    BY <1>1, <1>8, <2>5, <2>7, <2>8, BeginIssueOK DEF r
  <2> QED BY <1>3, <2>9 DEF IInv, InOrder
<1> QED BY <1>5, <1>6, <1>7, <1>8 DEF Reissue

\* The loop over the new requests.
LEMMA IssueNewOK ==
  ASSUME IInv, IssueNew
  PROVE  IInv'
<1>1. /\ srv.pc = "issue_new" /\ srv \in SrvState /\ srv.loop = "issue_new" /\ srv.cur = NoImage
      /\ Elems(srv.todo) \subseteq Elems(LoopOn(srv, vbd)) /\ Distinct(srv.todo)
      /\ Sound(vbd, NoImage, 0) /\ srv.todo \in Seq(Reqs)
  BY DEF IssueNew, IInv, LoopOK, SrvState
<1>2. UNCHANGED <<ctl, signals>>
  BY DEF IssueNew
<1>3. Control'
  BY <1>2 DEF IInv, Control
<1>4. CASE srv.todo = <<>>
  <2> DEFINE pc == IF srv.ret = "tail" THEN "tail" ELSE "kick"
  <2>1. srv' = goto(pc) /\ vbd' = vbd /\ pc \in {"tail", "kick"}
    BY <1>4 DEF IssueNew
  <2> HIDE DEF pc
  <2>2. srv' \in SrvState /\ srv'.cur = NoImage
    BY <1>1, <2>1, Rests
  <2>3. LoopOK(srv', vbd') /\ SubmitOK(srv', vbd')
    BY <1>1, <2>1, Rests
  <2> QED BY <1>1, <1>3, <2>1, <2>2, <2>3 DEF IInv
<1>5. CASE srv.todo # <<>>
  <2>1. BeginIssue(vbd, Head(srv.todo))
    BY <1>5 DEF IssueNew
  <2>2. InOrder(vbd', srv')
    BY <1>1, <1>5, <2>1, BeginIssueOK
  <2> QED BY <1>3, <2>2 DEF IInv, InOrder
<1> QED BY <1>4, <1>5

-----------------------------------------------------------------------------
(* Requests that change their queue without I/O *)

\* Only the lists differ, and of the requests what does not concern I/O.
SameButLists(v, w) ==
  /\ w.state = v.state /\ w.kind = v.kind /\ w.flags = v.flags
  /\ w.images = v.images /\ w.ignore_enospc = v.ignore_enospc /\ w.secondary = v.secondary
  /\ w.retired = v.retired /\ w.secondary_mode = v.secondary_mode
  /\ w.pending = v.pending /\ w.treqs = v.treqs
  /\ \A q \in Reqs : w.req[q].secs = v.req[q].secs /\ w.req[q].submitting = v.req[q].submitting
  /\ \A t \in v.treqs : w.req[t.req].op = v.req[t.req].op

\* Requests that change their list and keep their I/Os.
LEMMA Relisted ==
  ASSUME NEW v, NEW w \in VbdState, NEW c, NEW n, Sound(v, c, n), SameButLists(v, w), Queues(w)
  PROVE  Sound(w, c, n)
<1>1. \A q : Held(w, q) = Held(v, q)
  BY DEF SameButLists, Held
<1>2. Counted(w, c, n)
  BY <1>1 DEF Sound, Counted, SameButLists
<1>3. Submitting(w, c)
  BY DEF Sound, Submitting, SameButLists
<1>4. Waiting(w, c)
  BY <1>1 DEF Sound, Waiting, SameButLists
<1>5. ReadsOnce(w)
  BY DEF Sound, ReadsOnce, SameButLists
<1>6. ChainOK(w) /\ MirrorOpen(w) /\ Quiet(w)
  BY DEF Sound, ChainOK, MirrorOpen, Quiet, SameButLists
<1>7. HeldOpen(w)
  BY DEF Sound, HeldOpen, SameButLists, Open
<1> QED BY <1>2, <1>3, <1>4, <1>5, <1>6, <1>7 DEF Sound

\* v with its lists and requests replaced.
WithLists(v, a, b, d, f) == [v EXCEPT !.new = a, !.failed = b, !.completed = d, !.req = f]

\* As far as I/O is concerned, f agrees with the requests of v.
Agrees(v, f) ==
  /\ f \in [Reqs -> Vreq]
  /\ \A q \in Reqs : f[q].secs = v.req[q].secs /\ f[q].submitting = v.req[q].submitting
  /\ \A t \in v.treqs : f[t.req].op = v.req[t.req].op

Listed(v, a, b, d, f, w) ==
  /\ w \in VbdState /\ SameButLists(v, w)
  /\ w.new = a /\ w.failed = b /\ w.completed = d /\ w.req = f

\* What a change of the lists leaves alone.
LEMMA ListsReplaced ==
  ASSUME NEW v \in VbdState, NEW a \in Seq(Reqs), NEW b \in Seq(Reqs), NEW d \in Seq(Reqs),
         NEW f, Agrees(v, f)
  PROVE  Listed(v, a, b, d, f, WithLists(v, a, b, d, f))
<1> DEFINE w == WithLists(v, a, b, d, f)
<1>1. w \in VbdState
  BY DEF WithLists, VbdState, Agrees
<1>2. /\ w.new = a /\ w.failed = b /\ w.completed = d /\ w.req = f
      /\ w.state = v.state /\ w.kind = v.kind /\ w.flags = v.flags
      /\ w.images = v.images /\ w.ignore_enospc = v.ignore_enospc /\ w.secondary = v.secondary
      /\ w.retired = v.retired /\ w.secondary_mode = v.secondary_mode
      /\ w.pending = v.pending /\ w.treqs = v.treqs
  BY DEF WithLists, VbdState
<1> HIDE DEF w
<1>3. SameButLists(v, w)
  BY <1>2 DEF SameButLists, Agrees
<1> QED BY <1>1, <1>2, <1>3 DEF w, Listed

\* tapdisk_vbd_kill_requests.
LEMMA Killed ==
  ASSUME NEW v, Sound(v, NoImage, 0)
  PROVE  Sound(kill_requests(v), NoImage, 0)
<1> DEFINE R == Elems(v.new) \cup Elems(v.failed)
           f == [r \in Reqs |-> IF r \in R THEN [v.req[r] EXCEPT !.error = "ESHUTDOWN"] ELSE v.req[r]]
           m == v.completed \o v.new
           d == m \o v.failed
           none == <<>>
           w == WithLists(v, none, none, d, f)
<1>1. /\ v \in VbdState /\ v.new \in Seq(Reqs) /\ v.failed \in Seq(Reqs) /\ v.completed \in Seq(Reqs)
      /\ v.req \in [Reqs -> Vreq] /\ Queues(v) /\ \A t \in v.treqs : t.req \in Reqs
  <2>1. v \in VbdState /\ Queues(v)
    BY DEF Sound
  <2> QED BY <2>1, Fields DEF Treq
<1>2. kill_requests(v) = w
  <2>1. d = v.completed \o v.new \o v.failed
    OBVIOUS
  <2> QED BY <1>1 DEF kill_requests, WithLists, VbdState
<1>3. \A r \in Reqs : /\ f[r] \in Vreq /\ f[r].st = v.req[r].st /\ f[r].op = v.req[r].op
                      /\ f[r].secs = v.req[r].secs /\ f[r].submitting = v.req[r].submitting
  <2> TAKE r \in Reqs
  <2> DEFINE y == v.req[r]
  <2>1. y \in Vreq
    BY <1>1
  <2> HIDE DEF y, R
  <2>2. f[r] = IF r \in R THEN [y EXCEPT !.error = "ESHUTDOWN"] ELSE y
    BY DEF y
  <2> HIDE DEF f
  <2>3. /\ f[r] \in Vreq /\ f[r].st = y.st /\ f[r].op = y.op /\ f[r].secs = y.secs
        /\ f[r].submitting = y.submitting
    BY <2>1, <2>2 DEF Vreq, Errors
  <2> QED BY <2>3 DEF y
<1>4. f \in [Reqs -> Vreq]
  <2>1. f = [r \in Reqs |-> f[r]]
    OBVIOUS
  <2> HIDE DEF f
  <2> QED BY <1>3, <2>1
<1> HIDE DEF f
<1>5. m \in Seq(Reqs) /\ Elems(m) = Elems(v.completed) \cup Elems(v.new) /\ Distinct(m)
  BY <1>1, ConcatFacts DEF Queues
<1> HIDE DEF m
<1>6. d \in Seq(Reqs) /\ Elems(d) = Elems(m) \cup Elems(v.failed) /\ Distinct(d)
  BY <1>1, <1>5, ConcatFacts DEF Queues
<1>7. none \in Seq(Reqs) /\ Elems(none) = {} /\ Distinct(none)
  BY DEF Elems, Distinct
<1> HIDE DEF d, none
<1>8. /\ w \in VbdState /\ SameButLists(v, w) /\ w.new = none /\ w.failed = none /\ w.completed = d
      /\ w.req = f
  <2>1. Agrees(v, f)
    BY <1>1, <1>3, <1>4 DEF Agrees
  <2>2. Listed(v, none, none, d, f, w)
    BY <1>1, <1>6, <1>7, <2>1, ListsReplaced
  <2> QED BY <2>2 DEF Listed
<1> HIDE DEF w
<1>9. Queues(w)
  <2>1. w.pending = v.pending
    BY <1>8 DEF SameButLists
  <2> QED BY <1>1, <1>3, <1>5, <1>6, <1>7, <1>8, <2>1 DEF Queues
<1> QED BY <1>2, <1>8, <1>9, Relisted

\* tapdisk_vbd_check_complete_requests.
LEMMA Checked ==
  ASSUME NEW v, Sound(v, NoImage, 0)
  PROVE  LET w == check_complete_requests(v)
         IN  Sound(w, NoImage, 0) /\ w.state = v.state
<1> DEFINE late == {r \in Elems(v.failed) : v.req[r].expired}
           again == {r \in late : request_should_retry(v, r)}
           b1 == Only(v.failed, Elems(v.failed) \ late)
           b2 == Only(v.failed, again)
           d2 == Only(v.failed, late \ again)
           b == b1 \o b2
           d == v.completed \o d2
           w == WithLists(v, v.new, b, d, v.req)
<1>1. /\ v \in VbdState /\ v.new \in Seq(Reqs) /\ v.failed \in Seq(Reqs) /\ v.completed \in Seq(Reqs)
      /\ v.req \in [Reqs -> Vreq] /\ Queues(v)
  <2>1. v \in VbdState /\ Queues(v)
    BY DEF Sound
  <2> QED BY <2>1, Fields
<1>2. check_complete_requests(v) = w
  BY <1>1 DEF check_complete_requests, WithLists, VbdState
<1>3. late \subseteq Elems(v.failed) /\ again \subseteq late
  OBVIOUS
<1> HIDE DEF late, again
<1>4. /\ b1 \in Seq(Reqs) /\ Elems(b1) = Elems(v.failed) \ late /\ Distinct(b1)
      /\ b2 \in Seq(Reqs) /\ Elems(b2) = again /\ Distinct(b2)
      /\ d2 \in Seq(Reqs) /\ Elems(d2) = late \ again /\ Distinct(d2)
  <2> DEFINE A1 == Elems(v.failed) \ late
             A3 == late \ again
  <2>1. Distinct(v.failed)
    BY <1>1 DEF Queues
  <2>2. Elems(v.failed) \cap A1 = A1 /\ Elems(v.failed) \cap again = again
        /\ Elems(v.failed) \cap A3 = A3
    BY <1>3
  <2>3. \A T : /\ Only(v.failed, T) \in Seq(Reqs) /\ Elems(Only(v.failed, T)) = Elems(v.failed) \cap T
               /\ Distinct(Only(v.failed, T))
    BY <1>1, <2>1, OnlyFacts
  <2> QED BY <2>2, <2>3
<1> HIDE DEF b1, b2, d2
<1>5. b \in Seq(Reqs) /\ Elems(b) = Elems(b1) \cup Elems(b2) /\ Distinct(b)
  BY <1>3, <1>4, ConcatFacts
<1>6. d \in Seq(Reqs) /\ Elems(d) = Elems(v.completed) \cup Elems(d2) /\ Distinct(d)
  BY <1>1, <1>3, <1>4, ConcatFacts DEF Queues
<1> HIDE DEF b, d
<1>7. /\ w \in VbdState /\ SameButLists(v, w) /\ w.new = v.new /\ w.failed = b /\ w.completed = d
      /\ w.req = v.req
  <2>1. Agrees(v, v.req)
    BY <1>1 DEF Agrees
  <2>2. Listed(v, v.new, b, d, v.req, w)
    BY <1>1, <1>5, <1>6, <2>1, ListsReplaced
  <2> QED BY <2>2 DEF Listed
<1> HIDE DEF w
<1>8. w.pending = v.pending /\ w.state = v.state
  BY <1>7 DEF SameButLists
<1>9. Elems(b) \cup Elems(d) = Elems(v.failed) \cup Elems(v.completed)
  BY <1>3, <1>4, <1>5, <1>6
<1>10. Elems(b) \subseteq Elems(v.failed) /\ Elems(b) \cap Elems(d) = {}
  BY <1>1, <1>3, <1>4, <1>5, <1>6 DEF Queues
<1>11. Queues(w)
  BY <1>1, <1>5, <1>6, <1>7, <1>8, <1>9, <1>10 DEF Queues
<1> QED BY <1>2, <1>7, <1>8, <1>11, Relisted

\* A step that leaves the loops alone.
LEMMA Rested ==
  ASSUME srv \in SrvState, NEW pc \in {"events", "check", "tail", "kick", "recheck", "end", "exited"},
         srv' = goto(pc), Sound(vbd', NoImage, 0)
  PROVE  InOrder(vbd', srv')
BY Rests DEF InOrder

\* tapdisk_vbd_issue_requests.
LEMMA IssueRequestsOK ==
  ASSUME NEW v, NEW ret \in {"tail", "recheck"}, srv \in SrvState, Sound(v, NoImage, 0),
         IssueRequests(v, ret)
  PROVE  InOrder(vbd', srv')
<1>1. CASE "DEAD" \in v.state
  <2> DEFINE pc == IF ret = "tail" THEN "tail" ELSE "kick"
  <2>1. vbd' = kill_requests(v) /\ srv' = goto(pc) /\ pc \in {"tail", "kick"}
    BY <1>1 DEF IssueRequests
  <2> HIDE DEF pc
  <2>2. Sound(vbd', NoImage, 0)
    BY <2>1, Killed
  <2> QED BY <2>1, <2>2, Rested
<1>2. CASE "DEAD" \notin v.state
  <2> DEFINE g == goto("reissue")
             b == v.failed
  <2>1. vbd' = v /\ srv' = [g EXCEPT !.todo = b, !.loop = "reissue", !.ret = ret]
    BY <1>2 DEF IssueRequests
  <2>2. b \in Seq(Reqs) /\ Distinct(b)
    BY Fields DEF Sound, Queues
  <2>3. g \in SrvState /\ g.pc = "reissue" /\ g.cur = NoImage
    BY <2>2, Goto
  <2> HIDE DEF g, b
  <2>4. /\ srv' \in SrvState /\ srv'.pc = "reissue" /\ srv'.loop = "reissue" /\ srv'.cur = NoImage
        /\ srv'.todo = b
    BY <2>1, <2>2, <2>3 DEF SrvState
  <2>5. LoopOK(srv', vbd')
    BY <2>1, <2>2, <2>4 DEF LoopOK, LoopOn, b
  <2>6. SubmitOK(srv', vbd')
    BY <2>4 DEF SubmitOK
  <2> QED BY <2>1, <2>4, <2>5, <2>6 DEF InOrder
<1> QED BY <1>1, <1>2

\* Outside of a submission.
LEMMA Idles ==
  ASSUME IInv, srv.pc # "submit"
  PROVE  srv \in SrvState /\ srv.cur = NoImage /\ Sound(vbd, NoImage, 0)
BY DEF IInv, LoopOK

\* The steps that leave the control messages and the signals alone.
LEMMA Onwards ==
  ASSUME IInv, InOrder(vbd', srv'), UNCHANGED <<ctl, signals>>
  PROVE  IInv'
BY DEF IInv, InOrder, Control

\* tapdisk_vbd_check_state, its first part.
LEMMA CheckStateOK ==
  ASSUME IInv, CheckState
  PROVE  IInv'
<1> DEFINE v == check_complete_requests(vbd)
<1>1. srv.pc = "check" /\ UNCHANGED <<ctl, signals>>
  BY DEF CheckState
<1>2. srv \in SrvState /\ srv.cur = NoImage /\ Sound(vbd, NoImage, 0)
  BY <1>1, Idles
<1>3. srv.after \in {"events", "kick"}
  BY <1>2 DEF SrvState
<1>4. Sound(v, NoImage, 0)
  BY <1>2, Checked
<1>5. \/ srv' = goto(srv.after) /\ vbd' = vbd
      \/ IssueRequests(v, "tail")
      \/ srv' = goto("tail") /\ vbd' = v
  BY DEF CheckState
<1> HIDE DEF v
<1>6. InOrder(vbd', srv')
  <2>1. CASE srv' = goto(srv.after) /\ vbd' = vbd
    BY <1>2, <1>3, <2>1, Rested
  <2>2. CASE IssueRequests(v, "tail")
    BY <1>2, <1>4, <2>2, IssueRequestsOK
  <2>3. CASE srv' = goto("tail") /\ vbd' = v
    BY <1>2, <1>4, <2>3, Rested
  <2> QED BY <1>5, <2>1, <2>2, <2>3
<1> QED BY <1>1, <1>6, Onwards

\* tapdisk_vbd_recheck_state.
LEMMA RecheckStateOK ==
  ASSUME IInv, RecheckState
  PROVE  IInv'
<1>1. srv.pc = "recheck" /\ UNCHANGED <<ctl, signals>>
  BY DEF RecheckState
<1>2. srv \in SrvState /\ srv.cur = NoImage /\ Sound(vbd, NoImage, 0)
  BY <1>1, Idles
<1>3. \/ srv' = goto("end") /\ vbd' = vbd
      \/ IssueRequests(vbd, "recheck")
  BY DEF RecheckState
<1>4. InOrder(vbd', srv')
  BY <1>2, <1>3, Rested, IssueRequestsOK
<1> QED BY <1>1, <1>4, Onwards

\* tapdisk_vbd_kick.
LEMMA KickOK ==
  ASSUME IInv, Kick
  PROVE  IInv'
<1> DEFINE R == Elems(vbd.completed)
           f == [r \in Reqs |-> IF r \in R THEN [vbd.req[r] EXCEPT !.st = "answered"] ELSE vbd.req[r]]
           none == <<>>
           w == WithLists(vbd, vbd.new, vbd.failed, none, f)
           g == IF vbd.ring = "dead" /\ \A r \in Reqs : f[r].st # "queued" THEN "gone" ELSE vbd.ring
           u == [w EXCEPT !.ring = g]
<1>1. srv.pc = "kick" /\ srv' = goto("recheck") /\ UNCHANGED <<ctl, signals>>
  BY DEF Kick
<1>2. srv \in SrvState /\ srv.cur = NoImage /\ Sound(vbd, NoImage, 0)
  BY <1>1, Idles
<1>3. /\ vbd \in VbdState /\ vbd.new \in Seq(Reqs) /\ vbd.failed \in Seq(Reqs)
      /\ vbd.completed \in Seq(Reqs) /\ vbd.ring \in {"up", "dead", "gone"}
      /\ vbd.req \in [Reqs -> Vreq] /\ Queues(vbd) /\ \A t \in vbd.treqs : t.req \in Reqs
  <2>1. vbd \in VbdState /\ Queues(vbd)
    BY <1>2 DEF Sound
  <2> QED BY <2>1, Fields DEF Treq
<1>4. \A r \in Reqs : /\ f[r] \in Vreq /\ f[r].op = vbd.req[r].op
                      /\ f[r].secs = vbd.req[r].secs /\ f[r].submitting = vbd.req[r].submitting
                      /\ f[r].st = IF r \in R THEN "answered" ELSE vbd.req[r].st
  <2> TAKE r \in Reqs
  <2> DEFINE y == vbd.req[r]
  <2>1. y \in Vreq
    BY <1>3
  <2> HIDE DEF y, R
  <2>2. f[r] = IF r \in R THEN [y EXCEPT !.st = "answered"] ELSE y
    BY DEF y
  <2> HIDE DEF f
  <2>3. /\ f[r] \in Vreq /\ f[r].op = y.op /\ f[r].secs = y.secs
        /\ f[r].submitting = y.submitting /\ f[r].st = IF r \in R THEN "answered" ELSE y.st
    BY <2>1, <2>2 DEF Vreq
  <2> QED BY <2>3 DEF y
<1>5. f \in [Reqs -> Vreq]
  <2>1. f = [r \in Reqs |-> f[r]]
    OBVIOUS
  <2> HIDE DEF f
  <2> QED BY <1>4, <2>1
<1>6. vbd' = u
  <2>1. vbd' = [vbd EXCEPT !.completed = <<>>, !.req = f,
                   !.ring = IF @ = "dead" /\ \A r \in Reqs : f[r].st # "queued" THEN "gone" ELSE @]
    BY DEF Kick
  <2> HIDE DEF f
  <2> QED BY <1>3, <2>1 DEF WithLists, VbdState
<1> HIDE DEF f
<1>7. none \in Seq(Reqs) /\ Elems(none) = {} /\ Distinct(none)
  BY DEF Elems, Distinct
<1> HIDE DEF none
<1>8. Listed(vbd, vbd.new, vbd.failed, none, f, w)
  <2>1. Agrees(vbd, f)
    BY <1>3, <1>4, <1>5 DEF Agrees
  <2> QED BY <1>3, <1>7, <2>1, ListsReplaced
<1>9. g \in {"up", "dead", "gone"}
  BY <1>3
<1> HIDE DEF w, g
<1>10. /\ u \in VbdState /\ SameButLists(w, u)
       /\ u.new = w.new /\ u.failed = w.failed /\ u.completed = w.completed /\ u.req = w.req
  <2>1. w \in VbdState
    BY <1>8 DEF Listed
  <2>2. u \in VbdState
    BY <1>9, <2>1 DEF VbdState
  <2>3. /\ u.new = w.new /\ u.failed = w.failed /\ u.completed = w.completed /\ u.req = w.req
        /\ u.state = w.state /\ u.kind = w.kind /\ u.flags = w.flags
        /\ u.images = w.images /\ u.ignore_enospc = w.ignore_enospc /\ u.secondary = w.secondary
        /\ u.retired = w.retired /\ u.secondary_mode = w.secondary_mode
        /\ u.pending = w.pending /\ u.treqs = w.treqs
    BY <2>1 DEF VbdState
  <2> HIDE DEF u
  <2> QED BY <2>2, <2>3 DEF SameButLists
<1> HIDE DEF u
<1>11. SameButLists(vbd, u)
  BY <1>8, <1>10 DEF Listed, SameButLists
<1>12. Queues(u)
  <2>1. u.pending = vbd.pending /\ u.new = vbd.new /\ u.failed = vbd.failed /\ u.completed = none /\ u.req = f
    BY <1>8, <1>10, <1>11 DEF SameButLists, Listed
  <2>2. \A r \in Reqs : f[r].st = "queued" <=> vbd.req[r].st = "queued" /\ r \notin R
    BY <1>4
  <2> QED BY <1>3, <1>7, <2>1, <2>2 DEF Queues
<1>13. Sound(vbd', NoImage, 0)
  BY <1>2, <1>6, <1>10, <1>11, <1>12, Relisted
<1> QED BY <1>1, <1>2, <1>13, Rested, Onwards

\* The ends of an iteration.
LEMMA IterateOK ==
  ASSUME IInv, Iterate
  PROVE  IInv'
<1>1. srv.pc = "end" /\ srv' = goto("events") /\ vbd' = vbd /\ UNCHANGED <<ctl, signals>>
  BY DEF Iterate
<1>2. srv \in SrvState /\ Sound(vbd', NoImage, 0)
  BY <1>1, Idles
<1> QED BY <1>1, <1>2, Rested, Onwards

\* tapdisk_control_close_image calls the loop.
LEMMA CloseWaitsOK ==
  ASSUME IInv, CloseWaits
  PROVE  IInv'
<1>1. srv.pc = "end" /\ srv' = goto("events") /\ vbd' = vbd /\ UNCHANGED <<ctl, signals>>
  BY DEF CloseWaits
<1>2. srv \in SrvState /\ Sound(vbd', NoImage, 0)
  BY <1>1, Idles
<1> QED BY <1>1, <1>2, Rested, Onwards

\* goto("check") with another place to return to.
LEMMA Checks ==
  ASSUME srv \in SrvState, NEW a \in {"events", "kick"}, srv' = [goto("check") EXCEPT !.after = a],
         Sound(vbd', NoImage, 0)
  PROVE  InOrder(vbd', srv')
<1> DEFINE g == goto("check")
<1>1. g \in SrvState /\ g.pc = "check" /\ g.cur = NoImage
  BY Rests
<1> HIDE DEF g
<1>2. srv' = [g EXCEPT !.after = a]
  BY DEF g
<1>3. srv' \in SrvState /\ srv'.pc = "check" /\ srv'.cur = NoImage
  BY <1>1, <1>2 DEF SrvState
<1>4. LoopOK(srv', vbd') /\ SubmitOK(srv', vbd')
  BY <1>3, AtRest
<1> QED BY <1>3, <1>4 DEF InOrder

\* The beginning of an iteration.
LEMMA WakeOK ==
  ASSUME IInv, Wake
  PROVE  IInv'
<1>1. srv.pc = "events" /\ srv' = [goto("check") EXCEPT !.after = "kick"] /\ vbd' = vbd
      /\ UNCHANGED <<ctl, signals>>
  BY DEF Wake
<1>2. srv \in SrvState /\ Sound(vbd', NoImage, 0)
  BY <1>1, Idles
<1> QED BY <1>1, <1>2, Checks, Onwards

-----------------------------------------------------------------------------
(* Events *)

\* A handler that leaves the loop where it is.
LEMMA Handled ==
  ASSUME IInv, srv.pc = "events", srv' = srv, Sound(vbd', NoImage, 0)
  PROVE  InOrder(vbd', srv')
<1>1. srv \in SrvState /\ srv.cur = NoImage
  BY Idles
<1> QED BY <1>1, AtRest DEF InOrder

\* tapdisk_vbd_queue_request.
LEMMA QueueRequestOK ==
  ASSUME IInv, NEW r \in Reqs, NEW op \in ReqOps, QueueRequest(r, op)
  PROVE  IInv'
<1> DEFINE x == [vbd.req[r] EXCEPT !.st = "queued", !.op = op]
           f == [vbd.req EXCEPT ![r] = x]
           a == Append(vbd.new, r)
           w == WithLists(vbd, a, vbd.failed, vbd.completed, f)
<1>1. srv.pc = "events" /\ srv' = srv /\ UNCHANGED <<ctl, signals>> /\ vbd.req[r].st = "idle"
  BY DEF QueueRequest
<1>2. Sound(vbd, NoImage, 0)
  BY <1>1, Idles
<1>3. /\ vbd \in VbdState /\ vbd.new \in Seq(Reqs) /\ vbd.failed \in Seq(Reqs)
      /\ vbd.completed \in Seq(Reqs) /\ vbd.req[r] \in Vreq
      /\ vbd.req \in [Reqs -> Vreq] /\ Queues(vbd) /\ \A t \in vbd.treqs : t.req \in Reqs
  <2>1. vbd \in VbdState /\ Queues(vbd)
    BY <1>2 DEF Sound
  <2> QED BY <2>1, Fields DEF Treq
<1>4. /\ x \in Vreq /\ x.st = "queued" /\ x.secs = vbd.req[r].secs
      /\ x.submitting = vbd.req[r].submitting
  <2>1. op \in {"read", "write"}
    BY ConstantsAssumption
  <2> QED BY <1>3, <2>1 DEF Vreq
<1>5. vbd' = w
  <2>1. vbd' = [vbd EXCEPT !.new = Append(@, r), !.req[r].st = "queued", !.req[r].op = op]
    BY DEF QueueRequest
  <2> QED BY <1>3, <2>1 DEF WithLists, VbdState
<1> HIDE DEF x
<1>6. /\ f \in [Reqs -> Vreq] /\ f[r] = x /\ \A q \in Reqs : q # r => f[q] = vbd.req[q]
  BY <1>3, <1>4
<1> HIDE DEF f
<1>7. r \notin vbd.pending \cup Elems(vbd.new) \cup Elems(vbd.failed) \cup Elems(vbd.completed)
  BY <1>1, <1>3 DEF Queues
<1>8. \A t \in vbd.treqs : t.req # r
  BY <1>2, <1>7 DEF Sound, Waiting, Held
<1>9. a \in Seq(Reqs) /\ Elems(a) = Elems(vbd.new) \cup {r} /\ Distinct(a)
  BY <1>3, <1>7, AppendFacts DEF Queues
<1> HIDE DEF a
<1>10. Listed(vbd, a, vbd.failed, vbd.completed, f, w)
  <2>1. Agrees(vbd, f)
    BY <1>3, <1>4, <1>6, <1>8 DEF Agrees
  <2> QED BY <1>3, <1>9, <2>1, ListsReplaced
<1> HIDE DEF w
<1>11. Queues(w)
  <2>1. w.pending = vbd.pending /\ w.new = a /\ w.failed = vbd.failed /\ w.completed = vbd.completed /\ w.req = f
    BY <1>10 DEF SameButLists, Listed
  <2>2. \A q \in Reqs : f[q].st = "queued" <=> vbd.req[q].st = "queued" \/ q = r
    BY <1>4, <1>6
  <2>3. \A q \in Reqs : w.req[q].st = "queued" <=>
          q \in w.pending \cup Elems(w.new) \cup Elems(w.failed) \cup Elems(w.completed)
    BY <1>3, <1>9, <2>1, <2>2 DEF Queues
  <2> QED BY <1>3, <1>7, <1>9, <2>1, <2>3 DEF Queues
<1>12. Sound(vbd', NoImage, 0)
  BY <1>2, <1>5, <1>10, <1>11, Relisted DEF Listed
<1> QED BY <1>1, <1>12, Handled, Onwards

\* Completions.
LEMMA CompleteTreqOK ==
  ASSUME IInv, NEW t \in vbd.treqs, CompleteTreq(t)
  PROVE  IInv'
<1>1. srv.pc = "events" /\ srv' = srv /\ UNCHANGED <<ctl, signals>>
  BY DEF CompleteTreq
<1>2. PICK res \in Results(vbd, t) : vbd' = complete_td_request(vbd, t, res)
  BY DEF CompleteTreq
<1>3. res \in Errors
  BY ConstantsAssumption DEF Results, Errors
<1>4. Sound(vbd, NoImage, 0)
  BY <1>1, Idles
<1>5. Sound(vbd', NoImage, 0)
  BY <1>2, <1>3, <1>4, TreqCompletes
<1> QED BY <1>1, <1>5, Handled, Onwards

\* A driver passes a read on.
LEMMA ForwardTreqOK ==
  ASSUME IInv, NEW t \in vbd.treqs, ForwardTreq(t)
  PROVE  IInv'
<1>1. /\ srv.pc = "events" /\ srv' = srv /\ UNCHANGED <<ctl, signals>>
      /\ vbd' = forward_request(vbd, t) /\ vbd.req[t.req].op = "read"
  BY DEF ForwardTreq
<1>2. Sound(vbd, NoImage, 0)
  BY <1>1, Idles
<1>3. Sound(vbd', NoImage, 0)
  BY <1>1, <1>2, TreqForwarded
<1> QED BY <1>1, <1>3, Handled, Onwards

\* Time.
LEMMA ExpireOK ==
  ASSUME IInv, NEW r \in Reqs, Expire(r)
  PROVE  IInv'
<1> DEFINE x == [vbd.req[r] EXCEPT !.expired = TRUE]
<1>1. srv.pc = "events" /\ srv' = srv /\ UNCHANGED <<ctl, signals>>
  BY DEF Expire
<1>2. Sound(vbd, NoImage, 0)
  BY <1>1, Idles
<1>3. vbd \in VbdState /\ vbd.req \in [Reqs -> Vreq] /\ vbd.req[r] \in Vreq
  BY <1>2, Fields DEF Sound
<1>4. vbd' = Touched(vbd, r, x)
  BY <1>3 DEF Expire, Touched, VbdState
<1>5. /\ x \in Vreq /\ x.st = vbd.req[r].st /\ x.op = vbd.req[r].op
      /\ x.submitting = vbd.req[r].submitting /\ x.secs = vbd.req[r].secs
  BY <1>3 DEF Vreq
<1> HIDE DEF x
<1>6. Sound(vbd', NoImage, 0)
  BY <1>2, <1>4, <1>5, TouchedSound
<1> QED BY <1>1, <1>6, Handled, Onwards

\* The retry interval of a request is over.
LEMMA BackedOffOK ==
  ASSUME IInv, NEW r \in Reqs, BackedOff(r)
  PROVE  IInv'
<1> DEFINE x == [vbd.req[r] EXCEPT !.recent = FALSE]
<1>1. srv.pc = "events" /\ srv' = srv /\ UNCHANGED <<ctl, signals>>
  BY DEF BackedOff
<1>2. Sound(vbd, NoImage, 0)
  BY <1>1, Idles
<1>3. vbd \in VbdState /\ vbd.req \in [Reqs -> Vreq] /\ vbd.req[r] \in Vreq
  BY <1>2, Fields DEF Sound
<1>4. vbd' = Touched(vbd, r, x)
  BY <1>3 DEF BackedOff, Touched, VbdState
<1>5. /\ x \in Vreq /\ x.st = vbd.req[r].st /\ x.op = vbd.req[r].op
      /\ x.submitting = vbd.req[r].submitting /\ x.secs = vbd.req[r].secs
  BY <1>3 DEF Vreq
<1> HIDE DEF x
<1>6. Sound(vbd', NoImage, 0)
  BY <1>2, <1>4, <1>5, TouchedSound
<1> QED BY <1>1, <1>6, Handled, Onwards

-----------------------------------------------------------------------------
(* Quiescing, pausing, opening and closing *)

\* The requests and their queues are the same.
SameRequests(v, w) ==
  /\ w.new = v.new /\ w.pending = v.pending /\ w.failed = v.failed /\ w.completed = v.completed
  /\ w.req = v.req /\ w.treqs = v.treqs

\* w is v in the state S.
StateIs(v, S, w) ==
  /\ w \in VbdState /\ SameRequests(v, w) /\ w.state = S
  /\ w.kind = v.kind /\ w.ring = v.ring /\ w.flags = v.flags
  /\ w.images = v.images /\ w.ignore_enospc = v.ignore_enospc /\ w.secondary = v.secondary
  /\ w.retired = v.retired /\ w.secondary_mode = v.secondary_mode

\* td_flag_set and td_flag_clear.
LEMMA SetClear ==
  ASSUME NEW v \in VbdState, NEW f \in Flags
  PROVE  StateIs(v, v.state \cup {f}, set(v, f)) /\ StateIs(v, v.state \ {f}, clear(v, f))
<1>1. ASSUME NEW S \in SUBSET Flags
      PROVE  StateIs(v, S, [v EXCEPT !.state = S])
  BY DEF StateIs, SameRequests, VbdState
<1>2. v.state \cup {f} \in SUBSET Flags /\ v.state \ {f} \in SUBSET Flags
  BY Fields
<1>3. set(v, f) = [v EXCEPT !.state = v.state \cup {f}] /\ clear(v, f) = [v EXCEPT !.state = v.state \ {f}]
  BY DEF set, clear
<1> QED BY <1>1, <1>2, <1>3

\* Two changes of the state are one.
LEMMA StateTwice ==
  ASSUME NEW v, NEW S, NEW w, NEW T, NEW u, StateIs(v, S, w), StateIs(w, T, u)
  PROVE  StateIs(v, T, u)
BY DEF StateIs, SameRequests

\* The states a VBD may be put in.
LEMMA StateSound ==
  ASSUME NEW v, NEW c, NEW n, NEW S, NEW w, Sound(v, c, n), StateIs(v, S, w),
         "PAUSED" \in S => "QUIESCED" \in S /\ v.images = <<>>,
         "QUIESCED" \in S => v.pending = {},
         "CLOSED" \in v.state => "CLOSED" \in S
  PROVE  Sound(w, c, n)
<1>1. \A q : Held(w, q) = Held(v, q)
  BY DEF StateIs, SameRequests, Held
<1>2. Queues(w) /\ Counted(w, c, n) /\ Submitting(w, c) /\ Waiting(w, c)
  BY <1>1 DEF Sound, StateIs, SameRequests, Queues, Counted, Submitting, Waiting
<1>3. ReadsOnce(w) /\ ChainOK(w) /\ MirrorOpen(w) /\ HeldOpen(w)
  BY DEF Sound, StateIs, SameRequests, ReadsOnce, ChainOK, MirrorOpen, HeldOpen, Open
<1>4. Quiet(w)
  BY DEF Sound, StateIs, SameRequests, Quiet
<1> QED BY <1>2, <1>3, <1>4 DEF Sound, StateIs

\* tapdisk_vbd_quiesce_queue.
QuiescedState(v) ==
  IF v.pending # {} THEN v.state \cup {"QUIESCE_REQUESTED"}
  ELSE (v.state \ {"QUIESCE_REQUESTED"}) \cup {"QUIESCED"}

\* The state that quiescing leaves.
LEMMA QuiesceFacts ==
  ASSUME NEW v \in VbdState
  PROVE  StateIs(v, QuiescedState(v), quiesce_queue(v))
<1>1. "QUIESCE_REQUESTED" \in Flags /\ "QUIESCED" \in Flags
  BY DEF Flags
<1>2. CASE v.pending # {}
  BY <1>1, <1>2, SetClear DEF QuiescedState, quiesce_queue
<1>3. CASE v.pending = {}
  <2> DEFINE u == clear(v, "QUIESCE_REQUESTED")
  <2>1. StateIs(v, v.state \ {"QUIESCE_REQUESTED"}, u)
    BY <1>1, SetClear
  <2> HIDE DEF u
  <2>2. u \in VbdState /\ u.state = v.state \ {"QUIESCE_REQUESTED"}
    BY <2>1 DEF StateIs
  <2>3. StateIs(u, u.state \cup {"QUIESCED"}, set(u, "QUIESCED"))
    BY <1>1, <2>2, SetClear
  <2>4. StateIs(v, u.state \cup {"QUIESCED"}, set(u, "QUIESCED"))
    BY <2>1, <2>3, StateTwice
  <2> QED BY <1>3, <2>2, <2>4 DEF QuiescedState, quiesce_queue, u
<1> QED BY <1>2, <1>3

\* Quiescing keeps the invariant.
LEMMA Quiesced ==
  ASSUME NEW v, NEW c, NEW n, Sound(v, c, n)
  PROVE  Sound(quiesce_queue(v), c, n) /\ StateIs(v, QuiescedState(v), quiesce_queue(v))
<1>1. v \in VbdState /\ Quiet(v)
  BY DEF Sound
<1>2. StateIs(v, QuiescedState(v), quiesce_queue(v))
  BY <1>1, QuiesceFacts
<1> DEFINE S == QuiescedState(v)
<1>3. "PAUSED" \in S => "QUIESCED" \in S /\ v.images = <<>>
  BY <1>1 DEF Quiet, QuiescedState
<1>4. "QUIESCED" \in S => v.pending = {}
  BY <1>1 DEF Quiet, QuiescedState
<1>5. "CLOSED" \in v.state => "CLOSED" \in S
  BY DEF QuiescedState
<1> HIDE DEF S
<1> QED BY <1>2, <1>3, <1>4, <1>5, StateSound DEF S

\* So do the other flags.
LEMMA Flagged ==
  ASSUME NEW v, NEW c, NEW n, Sound(v, c, n), NEW f \in Flags \ {"QUIESCED", "PAUSED", "CLOSED"}
  PROVE  /\ Sound(set(v, f), c, n) /\ StateIs(v, v.state \cup {f}, set(v, f))
         /\ Sound(clear(v, f), c, n) /\ StateIs(v, v.state \ {f}, clear(v, f))
<1>1. v \in VbdState /\ Quiet(v)
  BY DEF Sound
<1>2. StateIs(v, v.state \cup {f}, set(v, f)) /\ StateIs(v, v.state \ {f}, clear(v, f))
  BY <1>1, SetClear
<1> DEFINE S == v.state \cup {f}
           T == v.state \ {f}
<1>3. /\ "PAUSED" \in S => "QUIESCED" \in S /\ v.images = <<>>
      /\ "QUIESCED" \in S => v.pending = {}
      /\ "PAUSED" \in T => "QUIESCED" \in T /\ v.images = <<>>
      /\ "QUIESCED" \in T => v.pending = {}
      /\ "CLOSED" \in v.state => "CLOSED" \in S /\ "CLOSED" \in T
  BY <1>1 DEF Quiet
<1> HIDE DEF S, T
<1>4. StateIs(v, S, set(v, f)) /\ StateIs(v, T, clear(v, f))
  BY <1>2 DEF S, T
<1> QED BY <1>2, <1>3, <1>4, StateSound

\* A VBD with no request pending.
Idle(v) ==
  /\ v \in VbdState /\ v.pending = {} /\ v.treqs = {}
  /\ Queues(v) /\ Counted(v, NoImage, 0) /\ Submitting(v, NoImage)
  /\ ChainOK(v) /\ MirrorOpen(v)

\* With no request pending no driver holds an I/O.
LEMMA SoundIdle ==
  ASSUME NEW v, Sound(v, NoImage, 0), v.pending = {}
  PROVE  Idle(v)
<1>1. \A t \in v.treqs : t.req \in Reqs
  BY Fields DEF Sound, Treq
<1>2. v.treqs = {}
  BY <1>1 DEF Sound, Waiting, Held
<1> QED BY <1>2 DEF Sound, Idle

\* The invariant of a VBD with no request pending.
LEMMA IdleSound ==
  ASSUME NEW v, Idle(v), "PAUSED" \in v.state => "QUIESCED" \in v.state /\ v.images = <<>>
  PROVE  Sound(v, NoImage, 0)
<1>1. Waiting(v, NoImage)
  BY ConstantsAssumption DEF Idle, Waiting, Held
<1> QED BY <1>1 DEF Idle, Sound, ReadsOnce, HeldOpen, Quiet

\* Its images may be exchanged.
LEMMA IdleFrame ==
  ASSUME NEW v, NEW w \in VbdState, Idle(v), SameRequests(v, w), ChainOK(w), MirrorOpen(w)
  PROVE  Idle(w)
BY DEF Idle, SameRequests, Queues, Counted, Submitting, Held

\* Its state may be changed.
LEMMA IdleState ==
  ASSUME NEW v, NEW S, NEW w, Idle(v), StateIs(v, S, w),
         v.images # <<>> \/ "CLOSED" \notin v.state \/ "CLOSED" \in S
  PROVE  Idle(w)
<1>1. w \in VbdState /\ SameRequests(v, w)
  BY DEF StateIs
<1>2. ChainOK(w) /\ MirrorOpen(w)
  BY DEF Idle, StateIs, ChainOK, MirrorOpen
<1> QED BY <1>1, <1>2, IdleFrame

\* v with other images.
Rebuilt(v, i, g, x, y, m, h) ==
  [v EXCEPT !.images = i, !.ignore_enospc = g, !.secondary = x, !.retired = y,
            !.secondary_mode = m, !.flags = h]

Built(v, i, g, x, y, m, h, w) ==
  /\ w \in VbdState /\ SameRequests(v, w) /\ w.state = v.state /\ w.kind = v.kind
  /\ w.images = i /\ w.ignore_enospc = g /\ w.secondary = x /\ w.retired = y
  /\ w.secondary_mode = m /\ w.flags = h

\* What an exchange of the images leaves alone.
LEMMA RebuiltFacts ==
  ASSUME NEW v \in VbdState, NEW i \in Seq(Images), NEW g \in SUBSET Images,
         NEW x \in Images \cup {NoImage}, NEW y \in Images \cup {NoImage},
         NEW m \in {"DISABLED", "MIRROR", "STANDBY"}, NEW h \in SUBSET {"SECONDARY", "STANDBY"}
  PROVE  Built(v, i, g, x, y, m, h, Rebuilt(v, i, g, x, y, m, h))
<1> DEFINE w == Rebuilt(v, i, g, x, y, m, h)
<1>1. w \in VbdState
  BY DEF Rebuilt, VbdState
<1>2. /\ w.images = i /\ w.ignore_enospc = g /\ w.secondary = x /\ w.retired = y
      /\ w.secondary_mode = m /\ w.flags = h /\ w.state = v.state /\ w.kind = v.kind
      /\ w.new = v.new /\ w.pending = v.pending /\ w.failed = v.failed /\ w.completed = v.completed
      /\ w.req = v.req /\ w.treqs = v.treqs
  BY DEF Rebuilt, VbdState
<1> HIDE DEF w
<1>3. Built(v, i, g, x, y, m, h, w)
  BY <1>1, <1>2 DEF Built, SameRequests
<1> QED BY <1>3 DEF w

\* tapdisk_vbd_close_vdi.
LEMMA Closed ==
  ASSUME NEW v, Idle(v)
  PROVE  LET w == close_vdi(v)
         IN  Idle(w) /\ w.images = <<>> /\ w.state = v.state \cup {"CLOSED"} /\ SameRequests(v, w)
<1> DEFINE k == set(v, "CLOSED")
           x == IF v.secondary_mode # "MIRROR" THEN NoImage ELSE v.secondary
           none == <<>>
           w == Rebuilt(k, none, {}, x, NoImage, k.secondary_mode, k.flags)
<1>1. v \in VbdState
  BY DEF Idle
<1>2. StateIs(v, v.state \cup {"CLOSED"}, k)
  BY <1>1, SetClear DEF Flags
<1>3. close_vdi(v) = w
  BY <1>1 DEF Rebuilt, VbdState, set, close_vdi
<1> HIDE DEF k
<1>4. /\ Idle(k) /\ k \in VbdState /\ k.state = v.state \cup {"CLOSED"} /\ SameRequests(v, k)
      /\ k.secondary_mode = v.secondary_mode /\ k.secondary = v.secondary
  BY <1>2, IdleState DEF StateIs
<1>5. ChainOK(k) /\ MirrorOpen(k)
  BY <1>4 DEF Idle
<1>6. /\ v.secondary \in Images \cup {NoImage} /\ x \in Images \cup {NoImage}
      /\ k.secondary_mode \in {"DISABLED", "MIRROR", "STANDBY"}
      /\ k.flags \in SUBSET {"SECONDARY", "STANDBY"} /\ none \in Seq(Images)
  BY <1>1, <1>4, Fields
<1>7. x = IF k.secondary_mode # "MIRROR" THEN NoImage ELSE k.secondary
  BY <1>4
<1>8. none = <<>>
  OBVIOUS
<1> HIDE DEF x, none
<1>9. Built(k, none, {}, x, NoImage, k.secondary_mode, k.flags, w)
  <2> DEFINE g == {}
             y == NoImage
             m == k.secondary_mode
             h == k.flags
  <2>1. /\ k \in VbdState /\ none \in Seq(Images) /\ g \in SUBSET Images /\ x \in Images \cup {NoImage}
        /\ y \in Images \cup {NoImage} /\ m \in {"DISABLED", "MIRROR", "STANDBY"}
        /\ h \in SUBSET {"SECONDARY", "STANDBY"} /\ w = Rebuilt(k, none, g, x, y, m, h)
    BY <1>4, <1>6
  <2> HIDE DEF w, g, y, m, h
  <2>2. Built(k, none, g, x, y, m, h, Rebuilt(k, none, g, x, y, m, h))
    BY <2>1, RebuiltFacts
  <2>3. Built(k, none, g, x, y, m, h, w)
    BY <2>1, <2>2
  <2> QED BY <2>3 DEF g, y, m, h
<1> HIDE DEF w
<1>10. ChainOK(w)
  BY <1>4, <1>5, <1>7, <1>8, <1>9, ConstantsAssumption DEF Built, ChainOK, Chains, Images
<1>11. MirrorOpen(w)
  BY <1>5, <1>8, <1>9 DEF Built, MirrorOpen
<1>12. Idle(w)
  BY <1>4, <1>9, <1>10, <1>11, IdleFrame DEF Built
<1>13. w.images = <<>> /\ w.state = v.state \cup {"CLOSED"} /\ SameRequests(v, w)
  BY <1>4, <1>8, <1>9 DEF Built, SameRequests
<1> QED BY <1>3, <1>12, <1>13

\* tapdisk_vbd_open_vdi.
LEMMA Opened ==
  ASSUME NEW v, Idle(v), v.images = <<>>, NEW a \in BOOLEAN
  PROVE  LET w == open_vdi(v, a)
         IN  Idle(w) /\ w.state = v.state \ {"CLOSED"}
<1> DEFINE lb == <<"leaf", "base">>
           lsb == <<"leaf", "second", "base">>
           u == clear([v EXCEPT !.images = <<"leaf", "base">>], "CLOSED")
           w == open_vdi(v, a)
<1> SUFFICES Idle(w) /\ w.state = v.state \ {"CLOSED"}
  OBVIOUS
<1>1. v \in VbdState /\ ChainOK(v) /\ MirrorOpen(v)
  BY DEF Idle
<1>2. v.retired = NoImage /\ v.ignore_enospc = {}
  BY <1>1 DEF ChainOK
<1>3. /\ v.secondary \in Images \cup {NoImage} /\ v.secondary_mode \in {"DISABLED", "MIRROR", "STANDBY"}
      /\ v.flags \in SUBSET {"SECONDARY", "STANDBY"}
  BY <1>1, Fields
<1>4. lb \in Seq(Images) /\ lsb \in Seq(Images) /\ lb \in Chains /\ lsb \in Chains /\ lb # <<>> /\ lsb # <<>>
  BY ChainElems DEF Chains
<1>5. ASSUME NEW i \in {lb, lsb}, NEW g \in SUBSET Images, NEW x \in Images \cup {NoImage},
             NEW m \in {"DISABLED", "MIRROR", "STANDBY"},
             m = "DISABLED" => x = NoImage,
             m = "MIRROR" => x = "second" /\ (i = lsb => v.flags = {"SECONDARY"})
                             /\ (i # lsb => "image" \in OpenFails),
             m = "STANDBY" => v.kind = "standby" /\ i = lb /\ (g # {} => x = "second"),
             w = clear(Rebuilt(v, i, g, x, v.retired, m, v.flags), "CLOSED")
      PROVE  Idle(w) /\ w.state = v.state \ {"CLOSED"}
  <2> DEFINE y == v.retired
             h == v.flags
             z == Rebuilt(v, i, g, x, y, m, h)
  <2>1. /\ v \in VbdState /\ i \in Seq(Images) /\ g \in SUBSET Images /\ x \in Images \cup {NoImage}
        /\ y \in Images \cup {NoImage} /\ m \in {"DISABLED", "MIRROR", "STANDBY"}
        /\ h \in SUBSET {"SECONDARY", "STANDBY"} /\ w = clear(z, "CLOSED")
    BY <1>1, <1>2, <1>3, <1>4, <1>5
  <2> HIDE DEF w, y, h
  <2>2. Built(v, i, g, x, y, m, h, z)
    BY <2>1, RebuiltFacts
  <2>3. Built(v, i, g, x, NoImage, m, v.flags, z)
    BY <1>2, <2>2 DEF y, h
  <2> HIDE DEF z
  <2>4. ChainOK(z)
    BY <1>1, <1>2, <1>4, <1>5, <2>3, ConstantsAssumption DEF Built, ChainOK, Images
  <2>5. MirrorOpen(z)
    BY <1>5, <2>3 DEF Built, MirrorOpen
  <2>6. Idle(z) /\ z.state = v.state /\ z.images = i /\ z \in VbdState
    BY <2>3, <2>4, <2>5, IdleFrame DEF Built
  <2>7. StateIs(z, z.state \ {"CLOSED"}, w)
    BY <2>1, <2>6, SetClear DEF Flags
  <2>8. z.images # <<>>
    BY <1>4, <1>5, <2>6
  <2> QED BY <2>6, <2>7, <2>8, IdleState DEF StateIs
<1>6. CASE "SECONDARY" \notin v.flags
  <2>1. w = u
    BY <1>6 DEF open_vdi
  <2>2. u = clear(Rebuilt(v, lb, v.ignore_enospc, v.secondary, v.retired, v.secondary_mode, v.flags),
                  "CLOSED")
    BY <1>1 DEF Rebuilt, VbdState, clear
  <2>3. v.secondary_mode = "DISABLED" => v.secondary = NoImage
    BY <1>1 DEF ChainOK
  <2>4. v.secondary_mode = "MIRROR" => v.secondary = "second" /\ "image" \in OpenFails
    BY <1>1, <1>6 DEF ChainOK, MirrorOpen
  <2>5. v.secondary_mode = "STANDBY" => v.kind = "standby"
    BY <1>1 DEF ChainOK
  <2>6. lb # lsb
    OBVIOUS
  <2> HIDE DEF w, lb, lsb, u
  <2> QED BY <1>2, <1>3, <1>5, <2>1, <2>2, <2>3, <2>4, <2>5, <2>6
<1>7. CASE "SECONDARY" \in v.flags /\ ~a
  <2>1. w = disable_secondary(u)
    BY <1>7 DEF open_vdi, add_secondary
  <2>2. w = clear(Rebuilt(v, lb, v.ignore_enospc, NoImage, v.retired, "DISABLED", v.flags), "CLOSED")
    BY <1>1, <2>1 DEF Rebuilt, disable_secondary, VbdState, clear
  <2> HIDE DEF w, lb, lsb
  <2> QED BY <1>2, <1>3, <1>5, <2>2
<1>8. CASE "SECONDARY" \in v.flags /\ a /\ "STANDBY" \in v.flags
  <2>1. u.flags = v.flags
    BY <1>1 DEF VbdState, clear
  <2>2. w = [u EXCEPT !.secondary = "second", !.ignore_enospc = {"leaf"}, !.secondary_mode = "STANDBY"]
    BY <1>8, <2>1 DEF open_vdi, add_secondary
  <2>3. w = clear(Rebuilt(v, lb, {"leaf"}, "second", v.retired, "STANDBY", v.flags), "CLOSED")
    BY <1>1, <2>2 DEF Rebuilt, VbdState, clear
  <2>4. v.kind = "standby"
    BY <1>1, <1>8 DEF ChainOK
  <2>5. {"leaf"} \in SUBSET Images /\ "second" \in Images
    BY DEF Images
  <2> HIDE DEF w, lb, lsb
  <2> QED BY <1>5, <2>3, <2>4, <2>5
<1>9. CASE "SECONDARY" \in v.flags /\ a /\ "STANDBY" \notin v.flags
  <2>1. u.flags = v.flags
    BY <1>1 DEF VbdState, clear
  <2>2. w = [u EXCEPT !.secondary = "second", !.ignore_enospc = {"leaf"}, !.secondary_mode = "MIRROR",
                      !.images = <<"leaf", "second", "base">>]
    BY <1>9, <2>1 DEF open_vdi, add_secondary
  <2>3. w = clear(Rebuilt(v, lsb, {"leaf"}, "second", v.retired, "MIRROR", v.flags), "CLOSED")
    BY <1>1, <2>2, ZenonT(40) DEF Rebuilt, VbdState, clear
  <2>4. v.flags = {"SECONDARY"}
    BY <1>3, <1>9
  <2>5. {"leaf"} \in SUBSET Images /\ "second" \in Images
    BY DEF Images
  <2> HIDE DEF w, lb, lsb
  <2> QED BY <1>5, <2>3, <2>4, <2>5
<1> QED BY <1>6, <1>7, <1>8, <1>9

\* tapdisk_vbd_open_vdi that fails.
LEMMA OpenFailed ==
  ASSUME NEW v, Idle(v), v.images = <<>>, NEW f \in OpenFails \ {"info"}
  PROVE  LET w == open_vdi_failed(v, f)
         IN  Idle(w) /\ w.state = v.state /\ w.images = <<>>
<1> DEFINE w == open_vdi_failed(v, f)
           x == IF f = "secondary" THEN NoImage ELSE v.secondary
           m == IF f = "secondary" THEN "DISABLED" ELSE v.secondary_mode
<1>1. v \in VbdState /\ ChainOK(v) /\ MirrorOpen(v)
  BY DEF Idle
<1>2. /\ v.secondary \in Images \cup {NoImage} /\ v.secondary_mode \in {"DISABLED", "MIRROR", "STANDBY"}
      /\ v.images \in Seq(Images) /\ v.ignore_enospc \in SUBSET Images /\ v.retired \in Images \cup {NoImage}
      /\ v.flags \in SUBSET {"SECONDARY", "STANDBY"}
  BY <1>1, Fields
<1>3. w = Rebuilt(v, v.images, v.ignore_enospc, x, v.retired, m, {})
  <2>1. CASE f = "secondary"
    BY <1>1, <2>1 DEF open_vdi_failed, disable_secondary, Rebuilt, VbdState
  <2>2. CASE f # "secondary"
    BY <1>1, <2>2 DEF open_vdi_failed, Rebuilt, VbdState
  <2> QED BY <2>1, <2>2
<1>4. /\ x \in Images \cup {NoImage} /\ m \in {"DISABLED", "MIRROR", "STANDBY"}
      /\ f # "secondary" => f = "image" /\ x = v.secondary /\ m = v.secondary_mode
      /\ f = "secondary" => x = NoImage /\ m = "DISABLED"
  BY <1>2, ConstantsAssumption
<1> HIDE DEF w, x, m
<1>5. Built(v, v.images, v.ignore_enospc, x, v.retired, m, {}, w)
  <2>1. {} \in SUBSET {"SECONDARY", "STANDBY"}
    OBVIOUS
  <2> DEFINE i == v.images
             g == v.ignore_enospc
             y == v.retired
             h == {}
  <2>2. /\ v \in VbdState /\ i \in Seq(Images) /\ g \in SUBSET Images /\ x \in Images \cup {NoImage}
        /\ y \in Images \cup {NoImage} /\ m \in {"DISABLED", "MIRROR", "STANDBY"}
        /\ h \in SUBSET {"SECONDARY", "STANDBY"} /\ w = Rebuilt(v, i, g, x, y, m, h)
    BY <1>1, <1>2, <1>3, <1>4, <2>1
  <2> HIDE DEF i, g, y, h
  <2>3. Built(v, i, g, x, y, m, h, Rebuilt(v, i, g, x, y, m, h))
    BY <2>2, RebuiltFacts
  <2>4. Built(v, i, g, x, y, m, h, w)
    BY <2>2, <2>3
  <2> QED BY <2>4 DEF i, g, y, h
<1>6. ChainOK(w)
  BY <1>1, <1>4, <1>5 DEF Built, ChainOK
<1>7. MirrorOpen(w)
  BY <1>1, <1>4, <1>5 DEF Built, MirrorOpen
<1>8. Idle(w)
  BY <1>5, <1>6, <1>7, IdleFrame DEF Built
<1> QED BY <1>5, <1>8 DEF Built, w

\* tapdisk_vbd_close_vdi of a VBD that nothing waits for.
LEMMA ClosedSound ==
  ASSUME NEW v, Sound(v, NoImage, 0), v.pending = {}
  PROVE  Sound(close_vdi(v), NoImage, 0)
<1> DEFINE w == close_vdi(v)
<1>1. Idle(v)
  BY SoundIdle
<1>2. Idle(w) /\ w.images = <<>> /\ w.state = v.state \cup {"CLOSED"}
  BY <1>1, Closed
<1>3. "PAUSED" \in v.state => "QUIESCED" \in v.state
  BY DEF Sound, Quiet
<1> HIDE DEF w
<1>4. Sound(w, NoImage, 0)
  BY <1>2, <1>3, IdleSound
<1> QED BY <1>4 DEF w

\* tapdisk_vbd_pause.
LEMMA Paused ==
  ASSUME NEW v, Sound(v, NoImage, 0)
  PROVE  Sound(pause(v), NoImage, 0) /\ SameRequests(v, pause(v))
<1> DEFINE u == set(v, "PAUSE_REQUESTED")
           q == quiesce_queue(u)
<1>1. Sound(u, NoImage, 0) /\ StateIs(v, v.state \cup {"PAUSE_REQUESTED"}, u)
  BY Flagged DEF Flags
<1> HIDE DEF u
<1>2. Sound(q, NoImage, 0) /\ StateIs(u, QuiescedState(u), q)
  BY <1>1, Quiesced
<1>3. u.pending = v.pending /\ q.pending = v.pending /\ q.state = QuiescedState(u) /\ SameRequests(v, q)
  BY <1>1, <1>2 DEF StateIs, SameRequests
<1> HIDE DEF q
<1>4. CASE v.pending # {}
  <2>1. pause(v) = q
    BY <1>4 DEF pause, q, u
  <2> QED BY <1>2, <1>3, <2>1
<1>5. CASE v.pending = {}
  <2> DEFINE d == close_vdi(q)
             e == clear(d, "PAUSE_REQUESTED")
             w == set(e, "PAUSED")
  <2>1. pause(v) = w
    BY <1>5 DEF pause, q, u
  <2>2. Idle(q)
    BY <1>2, <1>3, <1>5, SoundIdle
  <2>3. Idle(d) /\ d.images = <<>> /\ d.state = q.state \cup {"CLOSED"} /\ SameRequests(q, d)
    BY <2>2, Closed
  <2> HIDE DEF d
  <2>4. StateIs(d, d.state \ {"PAUSE_REQUESTED"}, e)
    BY <2>3, SetClear DEF Idle, Flags
  <2> HIDE DEF e
  <2>5. StateIs(e, e.state \cup {"PAUSED"}, w)
    BY <2>4, SetClear DEF StateIs, Flags
  <2> HIDE DEF w
  <2>6. Idle(w)
    BY <2>3, <2>4, <2>5, IdleState
  <2>7. "QUIESCED" \in q.state
    BY <1>3, <1>5 DEF QuiescedState
  <2>8. "QUIESCED" \in w.state /\ w.images = <<>> /\ SameRequests(v, w)
    BY <1>3, <2>3, <2>4, <2>5, <2>7 DEF StateIs, SameRequests
  <2> QED BY <2>1, <2>6, <2>8, IdleSound
<1> QED BY <1>4, <1>5

\* tapdisk_vbd_check_state, its last part.
LEMMA CheckTailOK ==
  ASSUME IInv, CheckTail
  PROVE  IInv'
<1> DEFINE u == after_quiesce(vbd)
           v == after_pause(u)
<1>1. srv.pc = "tail" /\ UNCHANGED <<ctl, signals>>
  BY DEF CheckTail
<1>2. srv \in SrvState /\ Sound(vbd, NoImage, 0)
  BY <1>1, Idles
<1>3. \/ vbd' = close_vdi(v) /\ v.pending = {} /\ srv' = goto("exited")
      \/ vbd' = v /\ srv' = goto(srv.after)
  BY DEF CheckTail, may_shutdown
<1>4. Sound(u, NoImage, 0)
  BY <1>2, Quiesced DEF after_quiesce
<1> HIDE DEF u
<1>5. Sound(v, NoImage, 0)
  BY <1>4, Paused DEF after_pause
<1> HIDE DEF v
<1>6. srv.after \in {"events", "kick"}
  BY <1>2 DEF SrvState
<1>7. InOrder(vbd', srv')
  <2>1. CASE vbd' = close_vdi(v) /\ v.pending = {} /\ srv' = goto("exited")
    <3>1. Sound(vbd', NoImage, 0)
      BY <1>5, <2>1, ClosedSound
    <3> QED BY <1>2, <2>1, <3>1, Rested
  <2>2. CASE vbd' = v /\ srv' = goto(srv.after)
    BY <1>2, <1>5, <1>6, <2>2, Rested
  <2> QED BY <1>3, <2>1, <2>2
<1> QED BY <1>1, <1>7, Onwards

\* Signals.
LEMMA SigintOK ==
  ASSUME IInv, Sigint
  PROVE  IInv'
<1>1. srv.pc = "events" /\ ctl' = ctl /\ signals' \subseteq signals
  BY DEF Sigint
<1>2. srv \in SrvState /\ Sound(vbd, NoImage, 0)
  BY <1>1, Idles
<1>3. Control'
  BY <1>1 DEF IInv, Control
<1>4. \/ vbd' = close_vdi(vbd) /\ vbd.pending = {} /\ srv' = goto("exited")
      \/ vbd' = set(vbd, "SHUTDOWN_REQUESTED") /\ srv' = srv
  BY DEF Sigint, may_shutdown
<1>5. InOrder(vbd', srv')
  <2>1. CASE vbd' = close_vdi(vbd) /\ vbd.pending = {} /\ srv' = goto("exited")
    <3>1. Sound(vbd', NoImage, 0)
      BY <1>2, <2>1, ClosedSound
    <3> QED BY <1>2, <2>1, <3>1, Rested
  <2>2. CASE vbd' = set(vbd, "SHUTDOWN_REQUESTED") /\ srv' = srv
    <3>1. Sound(vbd', NoImage, 0)
      BY <1>2, <2>2, Flagged DEF Flags
    <3> QED BY <1>1, <2>2, <3>1, Handled
  <2> QED BY <1>4, <2>1, <2>2
<1> QED BY <1>3, <1>5 DEF IInv, InOrder

\* SIGXFSZ.
LEMMA SigxfszOK ==
  ASSUME IInv, Sigxfsz
  PROVE  IInv'
<1> DEFINE q == quiesce_queue(vbd)
           w == set(q, "DEAD")
<1>1. srv.pc # "submit" /\ ctl' = ctl /\ signals' \subseteq signals /\ srv' = srv /\ vbd' = w
  BY DEF Sigxfsz, kill_queue
<1>2. srv \in SrvState /\ srv.cur = NoImage /\ Sound(vbd, NoImage, 0)
  BY <1>1, Idles
<1>3. Sound(q, NoImage, 0) /\ StateIs(vbd, QuiescedState(vbd), q)
  BY <1>2, Quiesced
<1> HIDE DEF q
<1>4. Sound(w, NoImage, 0) /\ StateIs(q, q.state \cup {"DEAD"}, w)
  BY <1>3, Flagged DEF Flags
<1> HIDE DEF w
<1>5. vbd'.new = vbd.new /\ vbd'.failed = vbd.failed
  BY <1>1, <1>3, <1>4 DEF StateIs, SameRequests
<1>6. LoopOK(srv', vbd') /\ SubmitOK(srv', vbd')
  BY <1>1, <1>5 DEF IInv, LoopOK, LoopOn, SubmitOK
<1>7. Control'
  BY <1>1 DEF IInv, Control
<1> QED BY <1>1, <1>2, <1>4, <1>6, <1>7 DEF IInv

\* The pause message.
LEMMA PauseMsgOK ==
  ASSUME IInv, PauseMsg
  PROVE  IInv'
<1>1. /\ srv.pc = "events" /\ srv' = srv /\ signals' = signals /\ vbd' = pause(vbd)
      /\ ctl' \in {"idle", "pausing"}
  BY DEF PauseMsg
<1>2. Sound(vbd, NoImage, 0)
  BY <1>1, Idles
<1>3. Sound(vbd', NoImage, 0)
  BY <1>1, <1>2, Paused
<1>4. InOrder(vbd', srv')
  BY <1>1, <1>3, Handled
<1>5. Control'
  BY <1>1 DEF IInv, Control
<1> QED BY <1>4, <1>5 DEF IInv, InOrder

\* The pause handler tries again.
LEMMA PauseAgainOK ==
  ASSUME IInv, PauseAgain
  PROVE  IInv'
<1>1. /\ srv.pc = "end" /\ srv' = goto("events") /\ signals' = signals /\ vbd' = pause(vbd)
      /\ ctl' \in {"idle", "pausing"}
  BY DEF PauseAgain
<1>2. srv \in SrvState /\ Sound(vbd, NoImage, 0)
  BY <1>1, Idles
<1>3. Sound(vbd', NoImage, 0)
  BY <1>1, <1>2, Paused
<1>4. InOrder(vbd', srv')
  BY <1>1, <1>2, <1>3, Rested
<1>5. Control'
  BY <1>1 DEF IInv, Control
<1> QED BY <1>4, <1>5 DEF IInv, InOrder

\* The pause handler goes on waiting.
LEMMA PauseLaterOK ==
  ASSUME IInv, PauseLater
  PROVE  IInv'
<1>1. /\ srv.pc = "end" /\ srv' = goto("events") /\ signals' = signals /\ vbd' = vbd
      /\ ctl' \in {"idle", "pausing"}
  BY DEF PauseLater
<1>2. srv \in SrvState /\ Sound(vbd', NoImage, 0)
  BY <1>1, Idles
<1>3. InOrder(vbd', srv')
  BY <1>1, <1>2, Rested
<1>4. Control'
  BY <1>1 DEF IInv, Control
<1> QED BY <1>3, <1>4 DEF IInv, InOrder

\* The resume message.
LEMMA StateIdle ==
  ASSUME NEW v, Idle(v), NEW f \in Flags \ {"CLOSED"}
  PROVE  /\ Idle(clear(v, f)) /\ clear(v, f).state = v.state \ {f}
         /\ Idle(set(v, f)) /\ set(v, f).state = v.state \cup {f}
<1>1. StateIs(v, v.state \cup {f}, set(v, f)) /\ StateIs(v, v.state \ {f}, clear(v, f))
  BY SetClear DEF Idle
<1>2. Idle(clear(v, f)) /\ Idle(set(v, f))
  BY <1>1, IdleState
<1> QED BY <1>1, <1>2 DEF StateIs

\* A paused VBD, and one that an attempt to open it has left.
LEMMA PausedIdle ==
  ASSUME NEW v, Sound(v, NoImage, 0), "PAUSED" \in v.state
  PROVE  /\ Idle(v) /\ v.images = <<>> /\ "QUIESCED" \in v.state
         /\ \A u \in Tried(v) : Idle(u) /\ u.images = <<>> /\ u.state = v.state
<1>1. v.images = <<>> /\ v.pending = {} /\ "QUIESCED" \in v.state
  BY DEF Sound, Quiet
<1>2. Idle(v)
  BY <1>1, SoundIdle
<1>3. ASSUME NEW u \in Tried(v)
      PROVE  Idle(u) /\ u.images = <<>> /\ u.state = v.state
  <2>1. u = v \/ \E f \in OpenFails \ {"info"} : u = open_vdi_failed(v, f)
    BY DEF Tried
  <2>2. CASE u = v
    BY <1>1, <1>2, <2>2
  <2>3. CASE \E f \in OpenFails \ {"info"} : u = open_vdi_failed(v, f)
    BY <1>1, <1>2, <2>3, OpenFailed
  <2> QED BY <2>1, <2>2, <2>3
<1> QED BY <1>1, <1>2, <1>3

\* tapdisk_vbd_resume.
LEMMA ResumeOK ==
  ASSUME IInv, Resume
  PROVE  IInv'
<1>1. /\ srv.pc = "events" /\ srv' = [goto("check") EXCEPT !.after = "events"]
      /\ UNCHANGED <<ctl, signals>> /\ "PAUSED" \in vbd.state
  BY DEF Resume
<1>2. srv \in SrvState /\ Sound(vbd, NoImage, 0)
  BY <1>1, Idles
<1>3. PICK v \in Tried(vbd), a \in Attachments(vbd) : vbd' = resumed(v, a)
  BY DEF Resume
<1>4. a \in BOOLEAN
  BY DEF Attachments
<1>5. Idle(v) /\ v.images = <<>>
  BY <1>1, <1>2, PausedIdle
<1> DEFINE o == open_vdi(v, a)
           s1 == clear(o, "QUIESCED")
           s2 == clear(s1, "QUIESCE_REQUESTED")
           s3 == clear(s2, "RESUME_FAILED")
           s4 == clear(s3, "PAUSED")
           s5 == clear(s4, "PAUSE_REQUESTED")
<1>6. vbd' = s5
  BY <1>3 DEF resumed, start_queue
<1>7. {"QUIESCED", "QUIESCE_REQUESTED", "RESUME_FAILED", "PAUSED", "PAUSE_REQUESTED"}
        \subseteq Flags \ {"CLOSED"}
  BY DEF Flags
<1>8. Idle(o)
  BY <1>4, <1>5, Opened
<1> HIDE DEF o
<1>9. Idle(s1)
  BY <1>7, <1>8, StateIdle
<1> HIDE DEF s1
<1>10. Idle(s2)
  BY <1>7, <1>9, StateIdle
<1> HIDE DEF s2
<1>11. Idle(s3)
  BY <1>7, <1>10, StateIdle
<1> HIDE DEF s3
<1>12. Idle(s4) /\ s4.state = s3.state \ {"PAUSED"}
  BY <1>7, <1>11, StateIdle
<1> HIDE DEF s4
<1>13. Idle(s5) /\ s5.state = s4.state \ {"PAUSE_REQUESTED"}
  BY <1>7, <1>12, StateIdle
<1> HIDE DEF s5
<1>14. Sound(vbd', NoImage, 0)
  BY <1>6, <1>12, <1>13, IdleSound
<1> QED BY <1>1, <1>2, <1>14, Checks, Onwards

\* tapdisk_vbd_resume that fails.
LEMMA ResumeFailsOK ==
  ASSUME IInv, ResumeFails
  PROVE  IInv'
<1>1. srv.pc = "events" /\ srv' = srv /\ UNCHANGED <<ctl, signals>> /\ "PAUSED" \in vbd.state
  BY DEF ResumeFails
<1>2. Sound(vbd, NoImage, 0)
  BY <1>1, Idles
<1>3. PICK v : /\ v \in Tried(vbd) \/ v = open_vdi(vbd, TRUE)
               /\ vbd' = close_vdi(set(v, "RESUME_FAILED"))
  BY DEF ResumeFails
<1>4. Idle(vbd) /\ vbd.images = <<>> /\ "QUIESCED" \in vbd.state
  BY <1>1, <1>2, PausedIdle
<1>5. Idle(v) /\ "QUIESCED" \in v.state
  <2>1. CASE v \in Tried(vbd)
    BY <1>1, <1>2, <1>4, <2>1, PausedIdle
  <2>2. CASE v = open_vdi(vbd, TRUE)
    <3>1. Idle(open_vdi(vbd, TRUE)) /\ open_vdi(vbd, TRUE).state = vbd.state \ {"CLOSED"}
      BY <1>4, Opened
    <3> QED BY <1>4, <2>2, <3>1
  <2> QED BY <1>3, <2>1, <2>2
<1> DEFINE u == set(v, "RESUME_FAILED")
<1>6. Idle(u) /\ u.state = v.state \cup {"RESUME_FAILED"}
  BY <1>5, StateIdle DEF Flags
<1> HIDE DEF u
<1>7. Idle(close_vdi(u)) /\ close_vdi(u).images = <<>> /\ close_vdi(u).state = u.state \cup {"CLOSED"}
  BY <1>6, Closed
<1>8. Sound(close_vdi(u), NoImage, 0)
  BY <1>5, <1>6, <1>7, IdleSound
<1>9. Sound(vbd', NoImage, 0)
  BY <1>3, <1>8 DEF u
<1> QED BY <1>1, <1>9, Handled, Onwards

\* The close message.
LEMMA CloseMsgOK ==
  ASSUME IInv, NEW type \in {"close", "force"}, CloseMsg(type)
  PROVE  IInv'
<1> DEFINE g == IF \E r \in Reqs : vbd.req[r].st = "queued" THEN "dead" ELSE "gone"
           w == [vbd EXCEPT !.ring = g]
<1>1. /\ srv.pc = "events" /\ srv' = goto("end") /\ signals' = signals
      /\ ctl' \in {"closing", "closing_forced"} /\ vbd' = w
  BY DEF CloseMsg
<1>2. srv \in SrvState /\ Sound(vbd, NoImage, 0)
  BY <1>1, Idles
<1>3. vbd \in VbdState /\ Queues(vbd)
  BY <1>2 DEF Sound
<1>4. g \in {"up", "dead", "gone"}
  OBVIOUS
<1> HIDE DEF g
<1>5. w \in VbdState
  BY <1>3, <1>4 DEF VbdState
<1>6. /\ w.new = vbd.new /\ w.failed = vbd.failed /\ w.completed = vbd.completed /\ w.req = vbd.req
      /\ w.state = vbd.state /\ w.kind = vbd.kind /\ w.flags = vbd.flags
      /\ w.images = vbd.images /\ w.ignore_enospc = vbd.ignore_enospc /\ w.secondary = vbd.secondary
      /\ w.retired = vbd.retired /\ w.secondary_mode = vbd.secondary_mode
      /\ w.pending = vbd.pending /\ w.treqs = vbd.treqs
  BY <1>3 DEF VbdState
<1> HIDE DEF w
<1>7. SameButLists(vbd, w) /\ Queues(w)
  BY <1>3, <1>6 DEF SameButLists, Queues
<1>8. Sound(vbd', NoImage, 0)
  BY <1>1, <1>2, <1>5, <1>7, Relisted
<1>9. InOrder(vbd', srv')
  BY <1>1, <1>2, <1>8, Rested
<1>10. Control'
  BY <1>1 DEF IInv, Control
<1> QED BY <1>9, <1>10 DEF IInv, InOrder

\* The end of the close handler.
LEMMA CloseImageOK ==
  ASSUME IInv, CloseImage
  PROVE  IInv'
<1>1. /\ srv.pc = "end" /\ srv' = goto("events") /\ signals' = signals
      /\ ctl' = "idle" /\ vbd' = close_vdi(vbd) /\ vbd.pending = {}
  BY DEF CloseImage
<1>2. srv \in SrvState /\ Sound(vbd, NoImage, 0)
  BY <1>1, Idles
<1>3. Sound(vbd', NoImage, 0)
  BY <1>1, <1>2, ClosedSound
<1>4. InOrder(vbd', srv')
  BY <1>1, <1>2, <1>3, Rested
<1>5. Control'
  BY <1>1 DEF IInv, Control
<1> QED BY <1>4, <1>5 DEF IInv, InOrder

-----------------------------------------------------------------------------
(* The theorems *)

\* A VBD before its images are opened.
Unopened(k) ==
  [state |-> {"CLOSED"}, kind |-> k, ring |-> "up",
   flags |-> IF k = "none" THEN {} ELSE IF k = "standby" THEN {"SECONDARY", "STANDBY"}
             ELSE {"SECONDARY"},
   images |-> <<>>, ignore_enospc |-> {}, secondary |-> NoImage, retired |-> NoImage,
   secondary_mode |-> "DISABLED",
   new |-> <<>>, pending |-> {}, failed |-> <<>>, completed |-> <<>>,
   req |-> [r \in Reqs |-> [st |-> "idle", op |-> "read", error |-> "ok", secs |-> 0,
                            submitting |-> 0, expired |-> FALSE, recent |-> FALSE]],
   treqs |-> {}, served |-> {}]

\* Nothing is pending in it.
LEMMA UnopenedIdle ==
  ASSUME NEW k \in Kinds
  PROVE  LET v == Unopened(k)
         IN  /\ Idle(v) /\ v.state = {"CLOSED"} /\ v.kind = k /\ v.images = <<>> /\ v.treqs = {}
             /\ v.ignore_enospc = {} /\ v.retired = NoImage
             /\ \A r \in Reqs : v.req[r].st = "idle"
<1> DEFINE h == IF k = "none" THEN {} ELSE IF k = "standby" THEN {"SECONDARY", "STANDBY"}
                ELSE {"SECONDARY"}
           x == [st |-> "idle", op |-> "read", error |-> "ok", secs |-> 0,
                 submitting |-> 0, expired |-> FALSE, recent |-> FALSE]
           f == [r \in Reqs |-> x]
           v == [state |-> {"CLOSED"}, kind |-> k, ring |-> "up", flags |-> h,
                 images |-> <<>>, ignore_enospc |-> {}, secondary |-> NoImage, retired |-> NoImage,
                 secondary_mode |-> "DISABLED",
                 new |-> <<>>, pending |-> {}, failed |-> <<>>, completed |-> <<>>,
                 req |-> f, treqs |-> {}, served |-> {}]
<1>1. Unopened(k) = v
  BY DEF Unopened
<1>2. /\ h \in SUBSET {"SECONDARY", "STANDBY"} /\ ("STANDBY" \in h => k = "standby")
  OBVIOUS
<1>3. /\ x \in Vreq /\ x.st = "idle" /\ x.secs = 0 /\ x.submitting = 0
  BY DEF Vreq, Errors
<1> HIDE DEF h, x
<1>4. f \in [Reqs -> Vreq] /\ \A r \in Reqs : f[r] = x
  BY <1>3
<1> HIDE DEF f
<1>5. v \in VbdState
  BY <1>2, <1>4 DEF VbdState, Flags
<1>6. /\ v.state = {"CLOSED"} /\ v.kind = k /\ v.flags = h /\ v.images = <<>> /\ v.ignore_enospc = {}
      /\ v.secondary = NoImage /\ v.retired = NoImage /\ v.secondary_mode = "DISABLED"
      /\ v.new = <<>> /\ v.pending = {} /\ v.failed = <<>> /\ v.completed = <<>>
      /\ v.req = f /\ v.treqs = {}
  OBVIOUS
<1> HIDE DEF v
<1>7. Elems(<<>>) = {} /\ Distinct(<<>>)
  BY DEF Elems, Distinct
<1>8. Queues(v)
  BY <1>3, <1>4, <1>6, <1>7 DEF Queues
<1>9. Counted(v, NoImage, 0)
  <2>1. \A r : Held(v, r) = {}
    BY <1>6 DEF Held
  <2>2. IsFiniteSet({}) /\ Cardinality({}) = 0
    BY FS_EmptySet
  <2>3. \A r \in Reqs : v.req[r].secs = 0 /\ Cardinality(Held(v, r)) = 0
    BY <1>3, <1>4, <1>6, <2>1, <2>2
  <2>4. IsFiniteSet(v.treqs)
    BY <1>6, <2>2
  <2> QED BY <2>3, <2>4 DEF Counted
<1>10. Submitting(v, NoImage)
  BY <1>3, <1>4, <1>6, ConstantsAssumption DEF Submitting
<1>11. ChainOK(v) /\ MirrorOpen(v)
  BY <1>2, <1>6, ConstantsAssumption DEF ChainOK, MirrorOpen, Chains, Images
<1>12. Idle(v)
  BY <1>5, <1>6, <1>8, <1>9, <1>10, <1>11 DEF Idle
<1>13. \A r \in Reqs : v.req[r].st = "idle"
  BY <1>3, <1>4, <1>6
<1> QED BY <1>1, <1>6, <1>12, <1>13

\* A VBD that has just been opened.
LEMMA InitOK ==
  ASSUME Init
  PROVE  IInv
<1>1. PICK k \in Kinds : vbd = open_vdi(Unopened(k), TRUE)
  BY DEF Init, Unopened
<1>2. /\ srv = [pc |-> "events", after |-> "kick", ret |-> "tail", todo |-> <<>>,
                loop |-> "reissue", cur |-> NoImage, image |-> NoImage, iov |-> 0]
      /\ ctl = "idle" /\ signals = Signals
  BY DEF Init
<1> DEFINE v == Unopened(k)
<1>3. Idle(v) /\ v.state = {"CLOSED"} /\ v.images = <<>>
  BY UnopenedIdle
<1> HIDE DEF v
<1>4. Idle(open_vdi(v, TRUE)) /\ open_vdi(v, TRUE).state = v.state \ {"CLOSED"}
  BY <1>3, Opened
<1>5. Sound(vbd, NoImage, 0)
  BY <1>1, <1>3, <1>4, IdleSound DEF v
<1>6. srv \in SrvState /\ srv.pc = "events" /\ srv.cur = NoImage
  BY <1>2 DEF SrvState
<1>7. LoopOK(srv, vbd) /\ SubmitOK(srv, vbd)
  BY <1>6, AtRest
<1> QED BY <1>2, <1>5, <1>6, <1>7 DEF IInv, Control

\* Every step keeps the invariant.
LEMMA NextOK ==
  ASSUME IInv, [Next]_vars
  PROVE  IInv'
<1>1. CASE ServerStep
  BY <1>1, SubmitIovOK, EndIssueOK, ReissueOK, IssueNewOK, CheckStateOK, CheckTailOK, KickOK,
     RecheckStateOK, IterateOK, CloseWaitsOK, CloseImageOK, PauseAgainOK, PauseLaterOK
     DEF ServerStep
<1>2. CASE Wake
  BY <1>2, WakeOK
<1>3. ASSUME NEW r \in Reqs, (\E op \in ReqOps : QueueRequest(r, op)) \/ Expire(r) \/ BackedOff(r)
      PROVE  IInv'
  BY <1>3, QueueRequestOK, ExpireOK, BackedOffOK
<1>4. ASSUME NEW t \in vbd.treqs, CompleteTreq(t) \/ ForwardTreq(t)
      PROVE  IInv'
  BY <1>4, CompleteTreqOK, ForwardTreqOK
<1>5. CASE Sigint \/ Sigxfsz
  BY <1>5, SigintOK, SigxfszOK
<1>6. CASE PauseMsg \/ Resume \/ ResumeFails
  BY <1>6, PauseMsgOK, ResumeOK, ResumeFailsOK
<1>7. ASSUME NEW type \in {"close", "force"}, CloseMsg(type)
      PROVE  IInv'
  BY <1>7, CloseMsgOK
<1>8. CASE UNCHANGED vars
  BY <1>8 DEF vars, IInv, Control
<1> QED BY <1>1, <1>2, <1>3, <1>4, <1>5, <1>6, <1>7, <1>8 DEF Next

\* The invariant that the queues, the counters and the images of a VBD satisfy at every
\* step of the loop, holds for every number of requests and segments.
THEOREM VbdInvariant == Spec => []IInv
<1>1. Init => IInv
  BY InitOK
<1>2. IInv /\ [Next]_vars => IInv'
  BY NextOK
<1> QED BY <1>1, <1>2, PTL DEF Spec

\* How often r is on a list.
LEMMA CountOnce ==
  ASSUME NEW s \in Seq(Reqs), Distinct(s), NEW r
  PROVE  Cardinality({i \in 1 .. Len(s) : s[i] = r}) = IF r \in Elems(s) THEN 1 ELSE 0
<1> DEFINE S == {i \in 1 .. Len(s) : s[i] = r}
<1>1. CASE r \in Elems(s)
  <2>1. PICK i \in 1 .. Len(s) : s[i] = r
    BY <1>1 DEF Elems
  <2>2. S = {i}
    BY <2>1 DEF Distinct
  <2>3. Cardinality({i}) = 1
    BY FS_Singleton
  <2> QED BY <1>1, <2>2, <2>3
<1>2. CASE r \notin Elems(s)
  <2>1. S = {}
    BY <1>2 DEF Elems
  <2> QED BY <1>2, <2>1, FS_EmptySet
<1> QED BY <1>1, <1>2

\* The queues hold each request once.
LEMMA OneQueueHolds ==
  ASSUME Sound(vbd, srv.cur, 0)
  PROVE  OneQueue
<1> SUFFICES ASSUME NEW r \in Reqs
             PROVE  LET at(s) == Cardinality({i \in 1 .. Len(s) : s[i] = r})
                    IN  at(vbd.new) + at(vbd.failed) + at(vbd.completed)
                          + Cardinality(vbd.pending \cap {r})
                        = IF vbd.req[r].st = "queued" THEN 1 ELSE 0
  BY DEF OneQueue
<1> DEFINE at(s) == Cardinality({i \in 1 .. Len(s) : s[i] = r})
           b(S) == IF r \in S THEN 1 ELSE 0
           p == Cardinality(vbd.pending \cap {r})
<1>1. /\ vbd \in VbdState /\ Queues(vbd)
  BY DEF Sound
<1>2. vbd.new \in Seq(Reqs) /\ vbd.failed \in Seq(Reqs) /\ vbd.completed \in Seq(Reqs)
  BY <1>1, Fields
<1>3. /\ at(vbd.new) = b(Elems(vbd.new)) /\ at(vbd.failed) = b(Elems(vbd.failed))
      /\ at(vbd.completed) = b(Elems(vbd.completed))
  BY <1>1, <1>2, CountOnce DEF Queues
<1>4. p = b(vbd.pending)
  <2>1. CASE r \in vbd.pending
    <3>1. vbd.pending \cap {r} = {r}
      BY <2>1
    <3> QED BY <2>1, <3>1, FS_Singleton
  <2>2. CASE r \notin vbd.pending
    <3>1. vbd.pending \cap {r} = {}
      BY <2>2
    <3> QED BY <2>2, <3>1, FS_EmptySet
  <2> QED BY <2>1, <2>2
<1> HIDE DEF at, p
<1>5. at(vbd.new) + at(vbd.failed) + at(vbd.completed) + p = IF vbd.req[r].st = "queued" THEN 1 ELSE 0
  BY <1>1, <1>3, <1>4 DEF Queues
<1> QED BY <1>5 DEF at, p

\* The counters of the requests are exact.
LEMMA SecsPendingHolds ==
  ASSUME Sound(vbd, srv.cur, 0)
  PROVE  SecsPendingExact
<1> SUFFICES ASSUME NEW r \in Reqs
             PROVE  LET n == Cardinality({t \in vbd.treqs : t.req = r})
                    IN  vbd.req[r].secs = n /\ (r \in vbd.pending <=> n > 0 \/ srv.cur = r)
  BY DEF SecsPendingExact
<1> DEFINE n == Cardinality({t \in vbd.treqs : t.req = r})
<1>1. n = Cardinality(Held(vbd, r))
  BY DEF Held
<1> HIDE DEF n
<1>2. IsFiniteSet(Held(vbd, r))
  <2>1. Held(vbd, r) \subseteq vbd.treqs /\ IsFiniteSet(vbd.treqs)
    BY DEF Held, Sound, Counted
  <2> QED BY <2>1, FS_Subset
<1>3. n \in Nat /\ (n = 0 <=> Held(vbd, r) = {})
  BY <1>1, <1>2, FS_CardinalityType, FS_EmptySet
<1>4. vbd.req[r].secs = n + 0 \/ vbd.req[r].secs = n
  BY <1>1 DEF Sound, Counted
<1>5. vbd.req[r].secs = n
  BY <1>3, <1>4
<1>6. r \in vbd.pending <=> Held(vbd, r) # {} \/ r = srv.cur
  BY DEF Sound, Waiting
<1>7. r \in vbd.pending <=> n > 0 \/ srv.cur = r
  BY <1>3, <1>6
<1> QED BY <1>5, <1>7 DEF n

\* A quiesced or closed VBD is idle.
LEMMA QuietHolds ==
  ASSUME Sound(vbd, srv.cur, 0)
  PROVE  "QUIESCED" \in vbd.state \/ vbd.images = <<>> => vbd.pending = {} /\ vbd.treqs = {}
<1>1. \A t \in vbd.treqs : t.req \in Reqs
  BY Fields DEF Sound, Treq
<1>2. vbd.pending = {} => vbd.treqs = {}
  BY <1>1 DEF Sound, Waiting, Held
<1> QED BY <1>2 DEF Sound, Quiet

\* A read that a driver holds is with an image that is open.
ReadsOnOpenImages ==
  \A t \in vbd.treqs :
     vbd.req[t.req].op = "read" => t.image \in Elems(vbd.images) \cup {vbd.retired}

\* However requests, completions, timeouts, signals and control messages follow each other,
\* and whichever attempts to open fail: a queued request is in one of the four queues, once
\* (tapdisk_vbd_move_request); secs_pending counts the I/Os the drivers hold, and a pending
\* request has one or is being submitted; no I/O is out once the queue is quiesced or the
\* images are closed (tapdisk_vbd_pause), and a read is with an open image.
THEOREM QueuesConsistent ==
  Spec => [](/\ TypeOK /\ OneQueue /\ SecsPendingExact /\ ReadsOnOpenImages
             /\ "QUIESCED" \in vbd.state \/ vbd.images = <<>> => vbd.pending = {} /\ vbd.treqs = {})
<1> DEFINE P == /\ TypeOK /\ OneQueue /\ SecsPendingExact /\ ReadsOnOpenImages
                /\ "QUIESCED" \in vbd.state \/ vbd.images = <<>> => vbd.pending = {} /\ vbd.treqs = {}
<1>1. IInv => P
  <2> SUFFICES ASSUME IInv PROVE P
    OBVIOUS
  <2>1. Sound(vbd, srv.cur, 0)
    BY DEF IInv
  <2>2. TypeOK
    BY DEF IInv, Sound, TypeOK, Control
  <2>3. ReadsOnOpenImages
    BY <2>1 DEF Sound, HeldOpen, Open, ReadsOnOpenImages
  <2> QED BY <2>1, <2>2, <2>3, OneQueueHolds, SecsPendingHolds, QuietHolds
<1> HIDE DEF P
<1>2. Spec => []P
  BY <1>1, VbdInvariant, PTL
<1> QED BY <1>2 DEF P

\* If no attempt to open the images is retried after the secondary image was forgotten
\* (tapdisk_vbd_open_vdi clears the flags of a VBD whose images do not open, see the README),
\* the queues agree with each other, with the I/O the drivers hold and with the images that
\* are open.
THEOREM QueuesAlwaysSound ==
  ASSUME "image" \notin OpenFails
  PROVE  Spec => []QueuesSound
<1>1. IInv => QueuesSound
  <2> SUFFICES ASSUME IInv PROVE QueuesSound
    OBVIOUS
  <2>1. Sound(vbd, srv.cur, 0)
    BY DEF IInv
  <2>2. TypeOK
    BY DEF IInv, Sound, TypeOK, Control
  <2>3. \A t \in vbd.treqs : t.image \in Elems(vbd.images) \cup {vbd.retired}
    BY <2>1 DEF Sound, HeldOpen, Open
  <2>4. ClosedImagesIdle
    BY <2>1, <2>3, QuietHolds DEF ClosedImagesIdle
  <2> QED BY <2>1, <2>2, <2>4, OneQueueHolds, SecsPendingHolds DEF QueuesSound
<1> QED BY <1>1, VbdInvariant, PTL

\* Under the same condition a mirror that writes go to is an open image of the chain,
\* whatever ENOSPC, NBD errors and failed attempts to resume have done to it.
THEOREM MirrorAlwaysInChain ==
  ASSUME "image" \notin OpenFails
  PROVE  Spec => []SecondaryInChain
<1>1. IInv => SecondaryInChain
  <2> SUFFICES ASSUME IInv, queue_ready(vbd), vbd.secondary_mode = "MIRROR"
               PROVE  vbd.secondary \in Elems(vbd.images)
    BY DEF SecondaryInChain
  <2>1. ChainOK(vbd) /\ MirrorOpen(vbd)
    BY DEF IInv, Sound
  <2>2. vbd.images # <<>>
    BY <2>1 DEF ChainOK, queue_ready
  <2>3. vbd.images = <<"leaf", "second", "base">> /\ vbd.secondary = "second"
    BY <2>1, <2>2 DEF MirrorOpen, ChainOK
  <2> QED BY <2>3, ChainElems
<1> QED BY <1>1, VbdInvariant, PTL

-----------------------------------------------------------------------------
(* What an answer without error means *)

\* The image that keeps every write: the leaf, or its mirror if the leaf may run out of
\* space.
Carrier(v) == IF v.kind = "mirror" /\ "mirror" \in EnospcKinds THEN "second" ELSE "leaf"

\* Segment i of r is with a driver, or was carried out, where it counts.
Counts(v, t) == v.req[t.req].op = "write" => t.image = Carrier(v)
Carried(v, r, i) == \E t \in v.served \cup v.treqs : t.req = r /\ t.iov = i /\ Counts(v, t)

Attempted(v, r) == v.req[r].st # "idle" /\ r \notin Elems(v.new)

\* Of a request without error all segments are carried; of c, which is being submitted,
\* those before m.
Acks(v, c, m) ==
  \A r \in Reqs : v.req[r].error = "ok" /\ Attempted(v, r) =>
    \A i \in 1 .. Iovs : (r = c => i < m) => Carried(v, r, i)

\* The image that keeps the writes is in the chain, and reads pass by an NBD mirror.
Anchored(v) ==
  /\ Carrier(v) = "second" =>
       /\ v.flags = {"SECONDARY"}
       /\ v.images \in {<<>>, <<"leaf", "second", "base">>, <<"second", "base">>}
       /\ v.images = <<"leaf", "second", "base">> => v.secondary_mode = "MIRROR"
  /\ Carrier(v) = "leaf" =>
       v.images \in {<<>>, <<"leaf", "base">>, <<"leaf", "second", "base">>} /\ v.retired # "leaf"
  /\ v.kind = "none" => v.ignore_enospc = {} /\ v.flags = {}
  /\ v.kind = "nbd" => \A t \in v.treqs : v.req[t.req].op = "read" => t.image # "second"

\* The image that segments go to, which tapdisk_vbd_issue_request looks up once.
Aimed(s, v) ==
  s.pc = "submit" =>
    /\ s.image = "leaf" \/ (Carrier(v) = "second" /\ s.image = "second")
    /\ Carrier(v) = "second" /\ s.iov = 1 /\ s.image = "leaf" => v.secondary_mode = "MIRROR"

AInv == Acks(vbd, srv.cur, srv.iov) /\ Anchored(vbd) /\ Aimed(srv, vbd)

\* What the proof leaves out: ENOSPC on the leaf of an NBD mirror or with a standby image,
\* and, on the leaf of a mirror, in the middle of a request or before a retried resume has
\* forgotten the mirror (tapdisk-vbd.c:1522 and 997).
WritesKept ==
  /\ EnospcKinds \subseteq {"none", "mirror"}
  /\ "mirror" \in EnospcKinds => Iovs = 1 /\ OpenFails \subseteq {"info"}

-----------------------------------------------------------------------------
(* Steps that lose nothing *)

\* What is carried stays so, unless its request has failed.
NoLoss(v, w) ==
  /\ w.kind = v.kind
  /\ \A r \in Reqs : w.req[r].error = "ok" /\ Attempted(w, r) =>
       /\ v.req[r].error = "ok" /\ Attempted(v, r)
       /\ \A i \in 1 .. Iovs : Carried(v, r, i) => Carried(w, r, i)

\* Two such steps are one.
LEMMA NoLossTwice ==
  ASSUME NEW v, NEW u, NEW w, NoLoss(v, u), NoLoss(u, w)
  PROVE  NoLoss(v, w)
BY DEF NoLoss

\* Such a step keeps the promise.
LEMMA NoLossAcks ==
  ASSUME NEW v, NEW w, NEW c, NEW m, Acks(v, c, m), NoLoss(v, w)
  PROVE  Acks(w, c, m)
BY DEF NoLoss, Acks

\* A request of which all segments have been submitted is like any other.
LEMMA AcksAll ==
  ASSUME NEW v, NEW c, NEW m \in Nat, Acks(v, c, m), c \notin Reqs \/ m > Iovs, NEW d, NEW k
  PROVE  Acks(v, d, k)
<1>1. \A i \in 1 .. Iovs : m > Iovs => i < m
  BY ConstantsAssumption
<1> QED BY <1>1 DEF Acks

\* More may be carried than before.
LEMMA Unlost ==
  ASSUME NEW v, NEW w, w.kind = v.kind, v.served \subseteq w.served, v.treqs \subseteq w.treqs,
         \A r \in Reqs : w.req[r].error = "ok" /\ Attempted(w, r) =>
            v.req[r].error = "ok" /\ Attempted(v, r) /\ w.req[r].op = v.req[r].op
  PROVE  NoLoss(v, w)
<1> SUFFICES ASSUME NEW r \in Reqs, w.req[r].error = "ok", Attempted(w, r),
                    NEW i \in 1 .. Iovs, Carried(v, r, i)
             PROVE  Carried(w, r, i)
  BY DEF NoLoss
<1>1. w.req[r].op = v.req[r].op
  OBVIOUS
<1>2. PICK t \in v.served \cup v.treqs : t.req = r /\ t.iov = i /\ Counts(v, t)
  BY DEF Carried
<1>3. Counts(w, t)
  BY <1>1, <1>2 DEF Counts, Carrier
<1>4. t \in w.served \cup w.treqs
  BY <1>2
<1> QED BY <1>2, <1>3, <1>4 DEF Carried

\* Nothing differs of the images, of the I/Os and of what was carried out.
SameHangings(v, w) ==
  /\ w.kind = v.kind /\ w.flags = v.flags /\ w.images = v.images /\ w.retired = v.retired
  /\ w.ignore_enospc = v.ignore_enospc /\ w.secondary_mode = v.secondary_mode

Calm(v, w) == SameHangings(v, w) /\ w.treqs = v.treqs /\ w.served = v.served

\* Neither does what is said of them.
LEMMA CalmAnchored ==
  ASSUME NEW v, NEW w, Anchored(v), SameHangings(v, w), w.treqs \subseteq v.treqs,
         \A t \in w.treqs : w.req[t.req].op = v.req[t.req].op
  PROVE  Anchored(w)
<1>1. Carrier(w) = Carrier(v)
  BY DEF SameHangings, Carrier
<1> QED BY <1>1 DEF Anchored, SameHangings

\* Such a step loses nothing.
LEMMA CalmStep ==
  ASSUME NEW v, NEW w, Anchored(v), Calm(v, w),
         \A t \in v.treqs : w.req[t.req].op = v.req[t.req].op,
         \A r \in Reqs : w.req[r].error = "ok" /\ Attempted(w, r) =>
            v.req[r].error = "ok" /\ Attempted(v, r) /\ w.req[r].op = v.req[r].op
  PROVE  NoLoss(v, w) /\ Anchored(w)
<1>1. Anchored(w)
  BY CalmAnchored DEF Calm
<1>2. w.kind = v.kind /\ v.served \subseteq w.served /\ v.treqs \subseteq w.treqs
  BY DEF Calm, SameHangings
<1>3. NoLoss(v, w)
  BY <1>2, Unlost
<1> QED BY <1>1, <1>3

-----------------------------------------------------------------------------
(* The end of an I/O *)

\* tapdisk_vbd_complete_vbd_request moves the request, if anything.
LEMMA Requeued ==
  ASSUME NEW v \in VbdState, NEW r \in Reqs
  PROVE  LET w == complete_vbd_request(v, r)
         IN  /\ w \in VbdState /\ SameButQueues(v, w)
             /\ Elems(w.new) \subseteq Elems(v.new) /\ Elems(v.new) \ {r} \subseteq Elems(w.new)
<1> DEFINE u == list_del(v, r)
           w == complete_vbd_request(v, r)
<1>1. /\ u \in VbdState /\ SameButQueues(v, u) /\ u.new = Without(v.new, r)
  BY ListDel
<1>2. Elems(u.new) = Elems(v.new) \ {r}
  BY <1>1, Fields, WithoutFacts
<1>3. /\ u.failed \in Seq(Reqs) /\ u.completed \in Seq(Reqs)
  BY <1>1, Fields
<1>4. /\ to_failed(v, r) = [u EXCEPT !.failed = Append(@, r)]
      /\ to_completed(v, r) = [u EXCEPT !.completed = Append(@, r)]
  BY DEF to_failed, to_completed
<1> DEFINE f == Append(u.failed, r)
           d == Append(u.completed, r)
<1>5. f \in Seq(Reqs) /\ d \in Seq(Reqs)
  BY <1>3
<1> HIDE DEF f, d
<1>6. LET x == [u EXCEPT !.failed = f]
      IN  x \in VbdState /\ SameButQueues(v, x) /\ x.new = u.new
  <2> DEFINE x == [u EXCEPT !.failed = f]
  <2> HIDE DEF u
  <2>1. x \in VbdState
    BY <1>1, <1>5 DEF VbdState
  <2>2. SameButQueues(u, x) /\ x.new = u.new
    BY <1>1 DEF VbdState, SameButQueues
  <2> HIDE DEF x
  <2>3. SameButQueues(v, x)
    BY <1>1, <2>2 DEF SameButQueues
  <2> QED BY <2>1, <2>2, <2>3 DEF x
<1>7. LET x == [u EXCEPT !.completed = d]
      IN  x \in VbdState /\ SameButQueues(v, x) /\ x.new = u.new
  <2> DEFINE x == [u EXCEPT !.completed = d]
  <2> HIDE DEF u
  <2>1. x \in VbdState
    BY <1>1, <1>5 DEF VbdState
  <2>2. SameButQueues(u, x) /\ x.new = u.new
    BY <1>1 DEF VbdState, SameButQueues
  <2> HIDE DEF x
  <2>3. SameButQueues(v, x)
    BY <1>1, <2>2 DEF SameButQueues
  <2> QED BY <2>1, <2>2, <2>3 DEF x
<1>8. w = v \/ w = [u EXCEPT !.failed = f] \/ w = [u EXCEPT !.completed = d]
  BY <1>4 DEF complete_vbd_request, f, d
<1> HIDE DEF w, u
<1>9. /\ w \in VbdState /\ SameButQueues(v, w) /\ (w.new = v.new \/ w.new = u.new)
  <2>1. CASE w = v
    BY <2>1 DEF SameButQueues
  <2>2. CASE w # v
    BY <1>6, <1>7, <1>8, <2>2
  <2> QED BY <2>1, <2>2
<1> QED BY <1>2, <1>9 DEF w

\* What becomes of the errors when t is no more with a driver.
LEMMA EasedErrors ==
  ASSUME NEW v \in VbdState, NEW t \in v.treqs, NEW e \in Errors, v.req[t.req].secs >= 1
  PROVE  LET u == Eased(v, t, e)
         IN  /\ u.served = v.served
             /\ u.req[t.req].error = (IF v.req[t.req].error # "ok" THEN v.req[t.req].error ELSE e)
             /\ \A q \in Reqs : q # t.req => u.req[q].error = v.req[q].error
<1> DEFINE r == t.req
           x == [v.req[r] EXCEPT !.secs = @ - 1, !.error = IF @ # "ok" THEN @ ELSE e]
           f == [v.req EXCEPT ![r] = x]
           u == Eased(v, t, e)
<1>1. r \in Reqs /\ v.req \in [Reqs -> Vreq] /\ v.req[r] \in Vreq
  BY DEF VbdState, Treq
<1>2. x.error = IF v.req[r].error # "ok" THEN v.req[r].error ELSE e
  BY <1>1 DEF Vreq
<1>3. u = [v EXCEPT !.treqs = v.treqs \ {t}, !.req = f]
  BY <1>1, ZenonT(40) DEF Eased, VbdState, Vreq
<1> HIDE DEF x
<1>4. f[r] = x /\ \A q \in Reqs : q # r => f[q] = v.req[q]
  BY <1>1
<1> HIDE DEF f, u
<1>5. u.req = f /\ u.served = v.served
  BY <1>3 DEF VbdState
<1> QED BY <1>2, <1>4, <1>5 DEF u

\* A request with an I/O out is counted and pending.
LEMMA OutIsCounted ==
  ASSUME NEW v, NEW c, NEW n \in Nat, NEW t \in v.treqs, Sound(v, c, n)
  PROVE  /\ v \in VbdState /\ t.req \in Reqs /\ v.req[t.req].secs >= 1
         /\ t.req \in v.pending /\ t.req \notin Elems(v.new) /\ v.req[t.req].st = "queued"
<1> DEFINE r == t.req
           h == Held(v, r)
           k == IF r = c THEN n ELSE 0
<1>1. v \in VbdState /\ r \in Reqs
  BY DEF Sound, VbdState, Treq
<1>2. IsFiniteSet(v.treqs) /\ h \subseteq v.treqs /\ t \in h
  BY DEF Sound, Counted, Held
<1>3. IsFiniteSet(h) /\ Cardinality(h) \in Nat /\ Cardinality(h) # 0
  BY <1>2, FS_Subset, FS_CardinalityType, FS_EmptySet
<1>4. v.req[r].secs = Cardinality(h) + k /\ k \in Nat
  BY <1>1 DEF Sound, Counted
<1>5. r \in v.pending
  BY <1>1, <1>2 DEF Sound, Waiting
<1>6. r \notin Elems(v.new) /\ v.req[r].st = "queued"
  BY <1>1, <1>5 DEF Sound, Queues
<1> HIDE DEF h, k
<1>7. v.req[r].secs >= 1
  BY <1>3, <1>4
<1> QED BY <1>1, <1>5, <1>6, <1>7

\* __tapdisk_vbd_complete_td_request of an I/O that was carried out, that does not count or
\* whose request fails with it.
LEMMA EndLosesNothing ==
  ASSUME NEW v, NEW c, NEW n \in Nat, NEW t \in v.treqs, NEW e \in Errors, Sound(v, c, n),
         Anchored(v), e = "ok" => t \in v.served \/ ~Counts(v, t)
  PROVE  NoLoss(v, __complete_td_request(v, t, e)) /\ Anchored(__complete_td_request(v, t, e))
<1> DEFINE r == t.req
           u == Eased(v, t, e)
           w == complete_vbd_request(u, r)
<1>1. __complete_td_request(v, t, e) = w
  BY DEF __complete_td_request, Eased
<1>2. /\ v \in VbdState /\ r \in Reqs /\ v.req[r].secs >= 1 /\ r \notin Elems(v.new)
  BY OutIsCounted
<1>3. /\ u \in VbdState /\ SameButTreqs(v, u) /\ u.treqs = v.treqs \ {t}
  BY <1>2, EasedFacts
<1>4. /\ u.served = v.served
      /\ u.req[r].error = (IF v.req[r].error # "ok" THEN v.req[r].error ELSE e)
      /\ \A q \in Reqs : q # r => u.req[q].error = v.req[q].error
  BY <1>2, EasedErrors
<1> HIDE DEF u
<1>5. /\ SameButQueues(u, w) /\ Elems(u.new) \ {r} \subseteq Elems(w.new)
  BY <1>2, <1>3, Requeued
<1> HIDE DEF w
<1>6. /\ SameHangings(v, w) /\ w.treqs = v.treqs \ {t} /\ w.served = v.served
      /\ w.req = u.req
  BY <1>3, <1>4, <1>5 DEF SameButTreqs, SameButQueues, SameHangings
<1>7. \A q \in Reqs : w.req[q].op = v.req[q].op /\ w.req[q].st = v.req[q].st
  BY <1>3, <1>6 DEF SameButTreqs
<1>8. \A q \in Reqs : Attempted(w, q) => Attempted(v, q)
  <2>1. u.new = v.new
    BY <1>3 DEF SameButTreqs
  <2> QED BY <1>2, <1>5, <1>7, <2>1 DEF Attempted
<1>9. Anchored(w)
  <2>1. \A x \in w.treqs : x \in v.treqs /\ x.req \in Reqs
    BY <1>2, <1>6 DEF VbdState, Treq
  <2> QED BY <1>6, <1>7, <2>1, CalmAnchored
<1>10. NoLoss(v, w)
  <2> SUFFICES ASSUME NEW q \in Reqs, w.req[q].error = "ok", Attempted(w, q)
               PROVE  /\ v.req[q].error = "ok"
                      /\ \A i \in 1 .. Iovs : Carried(v, q, i) => Carried(w, q, i)
    BY <1>6, <1>8 DEF NoLoss, SameHangings
  <2>1. v.req[q].error = "ok" /\ (q = r => e = "ok")
    BY <1>4, <1>6
  <2>2. \A x : x.req = q => (Counts(v, x) <=> Counts(w, x))
    BY <1>6, <1>7 DEF Counts, Carrier, SameHangings
  <2> SUFFICES ASSUME NEW i \in 1 .. Iovs, Carried(v, q, i) PROVE Carried(w, q, i)
    BY <2>1
  <2>3. PICK x \in v.served \cup v.treqs : x.req = q /\ x.iov = i /\ Counts(v, x)
    BY DEF Carried
  <2>4. x \in w.served \cup w.treqs
    BY <1>6, <2>1, <2>3
  <2> QED BY <2>2, <2>3, <2>4 DEF Carried
<1> QED BY <1>1, <1>9, <1>10

\* What a driver may answer: only writes to the leaf run out of space.
Answers(v, t, res) ==
  res = "ENOSPC" => v.kind \in EnospcKinds /\ t.image = "leaf" /\ v.req[t.req].op = "write"

\* An exchange of images that leaves requests and I/Os alone.
LEMMA SameIOLosesNothing ==
  ASSUME NEW v, NEW w, SameIO(v, w)
  PROVE  NoLoss(v, w)
<1>1. \A r \in Reqs : Attempted(w, r) <=> Attempted(v, r)
  BY DEF SameIO, Attempted
<1>2. w.kind = v.kind /\ v.served \subseteq w.served /\ v.treqs \subseteq w.treqs /\ w.req = v.req
  BY DEF SameIO
<1> QED BY <1>1, <1>2, Unlost

\* ENOSPC on the leaf of a mirror: the mirror has every write.
LEMMA EnospcLosesNothing ==
  ASSUME WritesKept, NEW v, NEW c, NEW n \in Nat, NEW t \in v.treqs, Sound(v, c, n), Anchored(v),
         Answers(v, t, "ENOSPC"), t.image \in v.ignore_enospc
  PROVE  /\ NoLoss(v, on_enospc(v)) /\ Anchored(on_enospc(v)) /\ ~Counts(v, t)
         /\ SameIO(v, on_enospc(v)) /\ Sound(on_enospc(v), c, n)
<1> DEFINE w == on_enospc(v)
<1>1. v.kind = "mirror" /\ "mirror" \in EnospcKinds
  BY DEF WritesKept, Answers, Anchored
<1>2. Carrier(v) = "second"
  BY <1>1 DEF Carrier
<1>3. ~Counts(v, t)
  BY <1>2 DEF Counts, Answers
<1>4. v.images # <<>> /\ v.images \in Seq(Images)
  BY Busy, Fields DEF Sound
<1>5. Sound(w, c, n) /\ SameIO(v, w)
  BY <1>4, Enospc
<1>6. v.secondary_mode # "STANDBY"
  BY <1>1 DEF Sound, ChainOK
<1>7. CASE v.secondary_mode = "MIRROR"
  <2> DEFINE i == Tail(v.images)
             h == Head(v.images)
  <2>1. v.images = <<"leaf", "second", "base">>
    <3>1. v.images \in {<<"leaf", "second", "base">>, <<"second", "base">>}
      BY <1>2, <1>4 DEF Anchored
    <3>2. v.images \in {<<"leaf", "base">>, <<"leaf", "second", "base">>}
      BY <1>4, <1>7 DEF Sound, ChainOK
    <3>3. <<"second", "base">>[1] = "second" /\ <<"leaf", "base">>[1] = "leaf"
          /\ <<"leaf", "second", "base">>[1] = "leaf"
      OBVIOUS
    <3> QED BY <3>1, <3>2, <3>3
  <2>2. i = <<"second", "base">>
    BY <2>1
  <2> HIDE DEF i, h
  <2>3. w = disable_secondary([v EXCEPT !.images = i, !.retired = h])
    BY <1>7 DEF on_enospc, i, h
  <2>4. w.images = i /\ w.secondary_mode = "DISABLED" /\ w.flags = v.flags /\ w.kind = v.kind
    BY <2>3 DEF disable_secondary, Sound, VbdState
  <2>5. i # <<"leaf", "second", "base">> /\ "second" # "leaf"
    <3>1. Len(i) = 2 /\ Len(<<"leaf", "second", "base">>) = 3
      BY <2>2
    <3> QED BY <3>1
  <2>6. Carrier(w) = "second" /\ w.kind = "mirror"
    BY <1>1, <2>4 DEF Carrier
  <2> HIDE DEF w
  <2>7. Anchored(w)
    BY <1>2, <2>2, <2>4, <2>5, <2>6 DEF Anchored
  <2> QED BY <1>3, <1>5, <2>7, SameIOLosesNothing DEF w
<1>8. CASE v.secondary_mode # "MIRROR"
  <2>1. w = v
    BY <1>6, <1>8 DEF on_enospc
  <2> QED BY <1>3, <1>5, <2>1, SameIOLosesNothing
<1> QED BY <1>7, <1>8

\* An NBD mirror that fails: the leaf has every write, and no read is lost with the mirror.
LEMMA NbdErrorLosesNothing ==
  ASSUME WritesKept, NEW v, NEW c, NEW n \in Nat, NEW t \in v.treqs, Sound(v, c, n), Anchored(v),
         v.kind = "nbd", t.image = "second", "second" \in {v.secondary, v.retired}
  PROVE  LET w == on_nbd_error(v, "second")
         IN  NoLoss(v, w) /\ Anchored(w) /\ ~Counts(v, t) /\ SameIO(v, w) /\ Sound(w, c, n)
<1> DEFINE w == on_nbd_error(v, "second")
           i == Without(v.images, "second")
<1>1. Carrier(v) = "leaf"
  BY DEF Carrier
<1>2. v.req[t.req].op = "write"
  BY DEF Anchored, Sound, VbdState, Vreq, Treq
<1>3. ~Counts(v, t)
  BY <1>1, <1>2 DEF Counts
<1>4. v.images # <<>> /\ v.images \in Chains
  BY Busy
<1>5. Sound(w, c, n) /\ SameIO(v, w)
  BY <1>4, NbdError
<1>6. /\ i \in {<<"base">>, <<"leaf", "base">>} /\ Elems(i) = Elems(v.images) \ {"second"}
  BY <1>4, WithoutSecond
<1>7. "leaf" \in Elems(v.images)
  <2>1. v.images \in {<<"leaf", "base">>, <<"leaf", "second", "base">>}
    BY <1>1, <1>4 DEF Anchored
  <2> QED BY <2>1, ChainElems
<1>8. i = <<"leaf", "base">>
  BY <1>6, <1>7, ChainElems
<1> HIDE DEF i
<1>9. w.images = i /\ w.retired = "second" /\ w.kind = "nbd" /\ w.treqs = v.treqs /\ w.req = v.req
  BY DEF on_nbd_error, disable_secondary, Sound, VbdState, i
<1>10. Carrier(w) = "leaf"
  BY <1>9 DEF Carrier
<1> HIDE DEF w
<1>11. Anchored(w)
  BY <1>8, <1>9, <1>10 DEF Anchored
<1> QED BY <1>3, <1>5, <1>11, SameIOLosesNothing DEF w

\* tapdisk_vbd_complete_td_request.
LEMMA CompletionLosesNothing ==
  ASSUME WritesKept, NEW v, NEW c, NEW n \in Nat, NEW t \in v.treqs, NEW res \in Errors,
         Sound(v, c, n), Anchored(v), Answers(v, t, res)
  PROVE  NoLoss(v, complete_td_request(v, t, res)) /\ Anchored(complete_td_request(v, t, res))
<1> DEFINE ignored == res = "ENOSPC" /\ t.image \in v.ignore_enospc
           a == IF ignored THEN on_enospc(v) ELSE v
           nbd == /\ res # "ok" /\ ~ignored /\ v.kind = "nbd" /\ t.image = "second"
                  /\ t.image \in {a.secondary, a.retired}
           b == IF nbd THEN on_nbd_error(a, t.image) ELSE a
           h == IF res = "ok" THEN [b EXCEPT !.served = @ \cup {t}] ELSE b
           e == IF ignored \/ nbd THEN "ok" ELSE res
           w == __complete_td_request(h, t, e)
<1>1. complete_td_request(v, t, res) = w
  BY DEF complete_td_request
<1>2. CASE ignored
  <2>1. /\ NoLoss(v, on_enospc(v)) /\ Anchored(on_enospc(v)) /\ ~Counts(v, t)
        /\ SameIO(v, on_enospc(v)) /\ Sound(on_enospc(v), c, n)
    BY <1>2, EnospcLosesNothing
  <2> DEFINE x == on_enospc(v)
  <2>2. h = x /\ e = "ok"
    BY <1>2
  <2> HIDE DEF x, h, e
  <2>3. t \in x.treqs /\ ~Counts(x, t) /\ "ok" \in Errors
    BY <2>1 DEF SameIO, Counts, Carrier, x, Errors
  <2>4. NoLoss(x, __complete_td_request(x, t, "ok")) /\ Anchored(__complete_td_request(x, t, "ok"))
    BY <2>1, <2>3, EndLosesNothing DEF x
  <2>5. NoLoss(v, __complete_td_request(x, t, "ok"))
    BY <2>1, <2>4, NoLossTwice DEF x
  <2> QED BY <1>1, <2>2, <2>4, <2>5
<1>3. CASE nbd
  <2>1. a = v /\ t.image = "second" /\ v.kind = "nbd" /\ "second" \in {v.secondary, v.retired}
    BY <1>3
  <2> DEFINE x == on_nbd_error(v, "second")
  <2>2. NoLoss(v, x) /\ Anchored(x) /\ ~Counts(v, t) /\ SameIO(v, x) /\ Sound(x, c, n)
    BY <2>1, NbdErrorLosesNothing
  <2>3. h = x /\ e = "ok"
    BY <1>3, <2>1
  <2> HIDE DEF x, h, e, nbd, a
  <2>4. t \in x.treqs /\ ~Counts(x, t) /\ "ok" \in Errors
    BY <2>2 DEF SameIO, Counts, Carrier, Errors
  <2>5. NoLoss(x, __complete_td_request(x, t, "ok")) /\ Anchored(__complete_td_request(x, t, "ok"))
    BY <2>2, <2>4, EndLosesNothing
  <2>6. NoLoss(v, __complete_td_request(x, t, "ok"))
    BY <2>2, <2>5, NoLossTwice
  <2> QED BY <1>1, <2>3, <2>5, <2>6
<1>4. CASE ~ignored /\ ~nbd /\ res # "ok"
  <2>1. h = v /\ e = res
    BY <1>4
  <2> HIDE DEF h, e
  <2>2. NoLoss(v, __complete_td_request(v, t, res)) /\ Anchored(__complete_td_request(v, t, res))
    BY <1>4, EndLosesNothing
  <2> QED BY <1>1, <2>1, <2>2
<1>5. CASE ~ignored /\ ~nbd /\ res = "ok"
  <2> DEFINE x == [v EXCEPT !.served = @ \cup {t}]
  <2>1. h = x /\ e = "ok"
    BY <1>5
  <2>2. Sound(x, c, n)
    BY ServedFrame
  <2>3. v \in VbdState
    BY DEF Sound
  <2>4. /\ SameHangings(v, x) /\ x.treqs = v.treqs /\ x.req = v.req /\ x.new = v.new
        /\ x.served = v.served \cup {t}
    BY <2>3 DEF SameHangings, VbdState
  <2> HIDE DEF x, h, e
  <2>5. Anchored(x)
    BY <2>4, CalmAnchored
  <2>6. x.kind = v.kind /\ v.served \subseteq x.served /\ v.treqs \subseteq x.treqs
    BY <2>4 DEF SameHangings
  <2>7. \A r \in Reqs : Attempted(x, r) <=> Attempted(v, r)
    BY <2>4 DEF Attempted
  <2>8. NoLoss(v, x)
    BY <2>4, <2>6, <2>7, Unlost
  <2>9. t \in x.treqs /\ t \in x.served /\ "ok" \in Errors
    BY <2>4 DEF Errors
  <2>10. NoLoss(x, __complete_td_request(x, t, "ok")) /\ Anchored(__complete_td_request(x, t, "ok"))
    BY <2>2, <2>5, <2>9, EndLosesNothing
  <2>11. NoLoss(v, __complete_td_request(x, t, "ok"))
    BY <2>8, <2>10, NoLossTwice
  <2> QED BY <1>1, <2>1, <2>10, <2>11
<1> QED BY <1>2, <1>3, <1>4, <1>5

\* Of an NBD mirror, reads are not passed on to the mirror.
LEMMA ParentReads ==
  ASSUME NEW v, NEW c, NEW n \in Nat, NEW t \in v.treqs, Sound(v, c, n), Anchored(v),
         v.req[t.req].op = "read", v.kind = "nbd", ~is_last_image(v, t.image)
  PROVE  parent_image(v, t.image) # "second"
<1> DEFINE s == v.images
           p == IF v.retired = t.image THEN Head(s) ELSE next_image(v, t.image)
<1>1. s \in {<<"leaf", "base">>, <<"leaf", "second", "base">>}
  <2>1. s # <<>> /\ Carrier(v) = "leaf"
    BY Busy DEF Carrier
  <2> QED BY <2>1 DEF Anchored
<1>2. parent_image(v, t.image) = IF reads_through(v, p) THEN next_image(v, p) ELSE p
  BY DEF parent_image
<1>3. Head(s) = "leaf" /\ s[Len(s)] = "base"
  <2>1. CASE s = <<"leaf", "base">>
    BY <2>1
  <2>2. CASE s = <<"leaf", "second", "base">>
    BY <2>2
  <2> QED BY <1>1, <2>1, <2>2
<1>4. CASE s = <<"leaf", "base">>
  <2>1. t.image = "leaf" \/ t.image = v.retired
    <3>1. t.image \in Open(v)
      BY DEF Sound, HeldOpen
    <3>2. t.image # "base"
      BY <1>1, <1>3 DEF is_last_image
    <3> QED BY <1>4, <3>1, <3>2, ChainElems DEF Open
  <2>2. t.image = "leaf" => next_image(v, t.image) = "base"
    <3> DEFINE k == CHOOSE k \in 1 .. Len(s) : s[k] = "leaf"
    <3>1. Len(s) = 2 /\ s[1] = "leaf" /\ s[2] = "base"
      BY <1>4
    <3> HIDE DEF s
    <3>2. k \in 1 .. 2 /\ s[k] = "leaf"
      BY <3>1
    <3>3. k = 1
      BY <3>1, <3>2
    <3> QED BY <3>1, <3>3 DEF next_image, s
  <2>3. p # "second"
    BY <1>3, <2>1, <2>2
  <2> QED BY <1>2, <2>3 DEF reads_through
<1>5. CASE s = <<"leaf", "second", "base">>
  <2>1. next_image(v, "second") = "base"
    <3> DEFINE k == CHOOSE k \in 1 .. Len(s) : s[k] = "second"
    <3>1. Len(s) = 3 /\ s[1] = "leaf" /\ s[2] = "second" /\ s[3] = "base"
      BY <1>5
    <3> HIDE DEF s
    <3>2. k \in 1 .. 3 /\ s[k] = "second"
      BY <3>1
    <3>3. k = 2
      BY <3>1, <3>2
    <3> QED BY <3>1, <3>3 DEF next_image, s
  <2> QED BY <1>2, <2>1 DEF reads_through
<1> QED BY <1>1, <1>4, <1>5

\* td_forward_request of a read.
LEMMA ForwardLosesNothing ==
  ASSUME WritesKept, NEW v, NEW c, NEW n \in Nat, NEW t \in v.treqs, Sound(v, c, n), Anchored(v),
         v.req[t.req].op = "read"
  PROVE  NoLoss(v, forward_request(v, t)) /\ Anchored(forward_request(v, t))
<1> DEFINE r == t.req
           x == [v.req[r] EXCEPT !.recent = TRUE]
           u == Touched(v, r, x)
           t2 == [t EXCEPT !.image = parent_image(v, t.image)]
           g == [u EXCEPT !.treqs = (@ \ {t}) \cup {t2}]
           w == forward_request(v, t)
<1>1. "ok" \in Errors /\ "EBUSY" \in Errors
  BY DEF Errors
<1>2. t \in Treq /\ r \in Reqs /\ v \in VbdState /\ v.req \in [Reqs -> Vreq] /\ v.req[r] \in Vreq
  BY Busy, Fields DEF Sound
<1>3. /\ x \in Vreq /\ x.st = v.req[r].st /\ x.op = v.req[r].op /\ x.error = v.req[r].error
      /\ x.submitting = v.req[r].submitting /\ x.secs = v.req[r].secs
  BY <1>2 DEF Vreq
<1>4. [v EXCEPT !.req[t.req].recent = TRUE] = u
  BY <1>2 DEF Touched, VbdState
<1>5. w = IF ~queue_ready(v) THEN complete_td_request(v, t, "EBUSY")
          ELSE IF is_last_image(v, t.image) THEN complete_td_request(u, t, "ok") ELSE g
  BY <1>4 DEF forward_request, reissue_td_request
<1> HIDE DEF x
<1>6. Sound(u, c, n) /\ Alike(v, r, x, u)
  BY <1>2, <1>3, TouchedSound
<1>7. u.served = v.served
  BY <1>2 DEF Touched, VbdState
<1> HIDE DEF u, w
<1>8. /\ u \in VbdState /\ Calm(v, u) /\ u.new = v.new
      /\ \A q \in Reqs : /\ u.req[q].op = v.req[q].op /\ u.req[q].error = v.req[q].error
                         /\ u.req[q].st = v.req[q].st
  BY <1>3, <1>6, <1>7 DEF Alike, SameButTreqs, Calm, SameHangings, Sound
<1>9. NoLoss(v, u) /\ Anchored(u) /\ t \in u.treqs
  <2>1. \A q \in Reqs : Attempted(u, q) <=> Attempted(v, q)
    BY <1>8 DEF Attempted
  <2>2. \A y \in v.treqs : y.req \in Reqs
    BY <1>2 DEF VbdState, Treq
  <2>3. NoLoss(v, u) /\ Anchored(u)
    BY <1>8, <2>1, <2>2, CalmStep
  <2> QED BY <1>8, <2>3 DEF Calm
<1>10. CASE ~queue_ready(v)
  <2>1. Answers(v, t, "EBUSY")
    BY DEF Answers
  <2> QED BY <1>1, <1>5, <1>10, <2>1, CompletionLosesNothing DEF w
<1>11. CASE queue_ready(v) /\ is_last_image(v, t.image)
  <2>1. Answers(u, t, "ok")
    BY DEF Answers
  <2> DEFINE d == complete_td_request(u, t, "ok")
  <2>2. NoLoss(u, d) /\ Anchored(d)
    BY <1>1, <1>6, <1>9, <2>1, CompletionLosesNothing
  <2>3. w = d
    BY <1>5, <1>11
  <2> HIDE DEF d
  <2>4. NoLoss(v, d)
    BY <1>9, <2>2, NoLossTwice
  <2> QED BY <2>2, <2>3, <2>4 DEF w
<1>12. CASE queue_ready(v) /\ ~is_last_image(v, t.image)
  <2> DEFINE T == (u.treqs \ {t}) \cup {t2}
  <2>1. v.kind = "nbd" => parent_image(v, t.image) # "second"
    BY <1>12, ParentReads
  <2>2. t2.req = r /\ t2.iov = t.iov /\ t2.image = parent_image(v, t.image)
    BY <1>2 DEF Treq
  <2>3. w = [u EXCEPT !.treqs = T]
    BY <1>5, <1>12
  <2> HIDE DEF T, t2
  <2>4. SameHangings(u, w) /\ w.treqs = T /\ w.req = u.req /\ w.new = u.new /\ w.served = u.served
    BY <1>8, <2>3 DEF SameHangings, VbdState
  <2>5. u.req[r].op = "read" /\ u.kind = v.kind
    BY <1>2, <1>8 DEF Calm, SameHangings
  <2>6. Carrier(w) = Carrier(u)
    BY <2>4 DEF Carrier, SameHangings
  <2>7. Anchored(w)
    <3>1. w.kind = "nbd" => \A y \in w.treqs : w.req[y.req].op = "read" => y.image # "second"
      BY <1>9, <2>1, <2>2, <2>4, <2>5 DEF Anchored, SameHangings, T
    <3> QED BY <1>9, <2>4, <2>6, <3>1 DEF Anchored, SameHangings
  <2>8. NoLoss(u, w)
    <3> SUFFICES ASSUME NEW q \in Reqs, NEW i \in 1 .. Iovs, Carried(u, q, i)
                 PROVE  Carried(w, q, i)
      BY <2>4 DEF NoLoss, SameHangings, Attempted
    <3>1. PICK y \in u.served \cup u.treqs : y.req = q /\ y.iov = i /\ Counts(u, y)
      BY DEF Carried
    <3>2. Counts(w, y)
      BY <2>4, <2>6, <3>1 DEF Counts
    <3>3. CASE y \in w.served \cup w.treqs
      BY <3>1, <3>2, <3>3 DEF Carried
    <3>4. CASE y \notin w.served \cup w.treqs
      <4>1. y = t
        BY <2>4, <3>1, <3>4 DEF T
      <4>2. t2 \in w.treqs /\ t2.req = q /\ t2.iov = i
        BY <2>2, <2>4, <3>1, <4>1 DEF T
      <4>3. Counts(w, t2)
        BY <2>2, <2>4, <2>5 DEF Counts
      <4> QED BY <4>2, <4>3 DEF Carried
    <3> QED BY <3>3, <3>4
  <2>9. NoLoss(v, w)
    BY <1>9, <2>8, NoLossTwice
  <2> QED BY <2>7, <2>9 DEF w
<1> QED BY <1>10, <1>11, <1>12

-----------------------------------------------------------------------------
(* The submission of a segment *)

\* A request that is being submitted is not new.
LEMMA SubmittedIsAttempted ==
  ASSUME NEW v, NEW c \in Reqs, NEW n, Sound(v, c, n)
  PROVE  Attempted(v, c)
<1>1. c \in v.pending
  BY DEF Sound, Waiting
<1> QED BY <1>1 DEF Sound, Queues, Attempted

\* td_queue_read and td_queue_write.
LEMMA QueueLosesNothing ==
  ASSUME WritesKept, NEW v, NEW c \in Reqs, NEW n \in Nat, NEW t \in Treq, t.req = c,
         Sound(v, c, n + 1), Ready(v, t), Anchored(v),
         NEW how \in {"async", "forward"} \cup Errors,
         how = "forward" => v.req[c].op = "read", Answers(v, t, how),
         v.kind = "nbd" /\ v.req[c].op = "read" => t.image # "second"
  PROVE  LET w == td_queue(v, t, how)
         IN  /\ NoLoss(v, w) /\ Anchored(w)
             /\ Counts(v, t) /\ w.req[c].error = "ok" => Carried(w, c, t.iov)
<1> DEFINE u == [v EXCEPT !.treqs = @ \cup {t}]
           w == td_queue(v, t, how)
<1>1. /\ Sound(u, c, n) /\ u.treqs = v.treqs \cup {t} /\ u.req = v.req
  BY TreqGiven
<1>2. /\ SameHangings(v, u) /\ u.new = v.new /\ u.served = v.served
  BY DEF Sound, VbdState, SameHangings
<1>3. w = CASE how = "async"   -> u
            [] how = "forward" -> forward_request(u, t)
            [] OTHER           -> complete_td_request(u, t, how)
  BY DEF td_queue
<1>4. Sound(w, c, n)
  BY TdQueue
<1> HIDE DEF u, w
<1>5. NoLoss(v, u)
  <2>1. \A q \in Reqs : Attempted(u, q) <=> Attempted(v, q)
    BY <1>1, <1>2 DEF Attempted
  <2>2. u.kind = v.kind /\ v.served \subseteq u.served /\ v.treqs \subseteq u.treqs
    BY <1>1, <1>2 DEF SameHangings
  <2> QED BY <1>1, <2>1, <2>2, Unlost
<1>6. Anchored(u)
  <2>1. Carrier(u) = Carrier(v)
    BY <1>2 DEF Carrier, SameHangings
  <2> QED BY <1>1, <1>2, <2>1 DEF Anchored, SameHangings
<1>7. Counts(v, t) => Carried(u, c, t.iov)
  BY <1>1, <1>2 DEF Carried, Counts, Carrier, SameHangings
<1>8. Answers(u, t, how)
  BY <1>1, <1>2 DEF Answers, SameHangings
<1>9. NoLoss(u, w) /\ Anchored(w)
  <2>1. CASE how = "async"
    BY <1>3, <1>6, <2>1 DEF NoLoss
  <2>2. CASE how = "forward"
    <3>1. w = forward_request(u, t)
      BY <1>3, <2>2
    <3> QED BY <1>1, <1>6, <2>2, <3>1, ForwardLosesNothing
  <2>3. CASE how \notin {"async", "forward"}
    <3>1. w = complete_td_request(u, t, how)
      BY <1>3, <2>3
    <3> QED BY <1>1, <1>6, <1>8, <2>3, <3>1, CompletionLosesNothing
  <2> QED BY <2>1, <2>2, <2>3
<1>10. NoLoss(v, w)
  BY <1>5, <1>9, NoLossTwice
<1>11. Counts(v, t) /\ w.req[c].error = "ok" => Carried(w, c, t.iov)
  <2>1. Attempted(w, c)
    BY <1>4, SubmittedIsAttempted
  <2>2. t.iov \in 1 .. Iovs
    BY DEF Treq
  <2> QED BY <1>7, <1>9, <2>1, <2>2 DEF NoLoss
<1> QED BY <1>9, <1>10, <1>11 DEF w

\* Nothing is lost when segments are counted.
LEMMA RaisedLosesNothing ==
  ASSUME NEW v, NEW c \in Reqs, NEW k \in Nat, Sound(v, c, 0), Anchored(v)
  PROVE  LET w == [v EXCEPT !.req[c].secs = @ + k]
         IN  NoLoss(v, w) /\ Anchored(w) /\ w.kind = v.kind
<1> DEFINE w == [v EXCEPT !.req[c].secs = @ + k]
           f == [v.req EXCEPT ![c].secs = @ + k]
<1>1. v \in VbdState /\ v.req \in [Reqs -> Vreq]
  BY Fields DEF Sound
<1>2. \A q \in Reqs : f[q].op = v.req[q].op /\ f[q].error = v.req[q].error /\ f[q].st = v.req[q].st
  BY <1>1 DEF Vreq
<1>3. w = [v EXCEPT !.req = f]
  BY <1>1 DEF VbdState
<1> HIDE DEF w, f
<1>4. Calm(v, w) /\ w.req = f /\ w.new = v.new
  BY <1>1, <1>3 DEF VbdState, Calm, SameHangings
<1>5. \A q \in Reqs : Attempted(w, q) <=> Attempted(v, q)
  BY <1>2, <1>4 DEF Attempted
<1>6. \A y \in v.treqs : y.req \in Reqs
  BY <1>1 DEF VbdState, Treq
<1>7. NoLoss(v, w) /\ Anchored(w)
  BY <1>2, <1>4, <1>5, <1>6, CalmStep
<1> QED BY <1>4, <1>7 DEF w, Calm, SameHangings

\* Drivers answer what they may.
LEMMA HowsAnswer ==
  ASSUME NEW v, NEW t, NEW how \in Hows(v, t)
  PROVE  Answers(v, t, how)
BY ConstantsAssumption DEF Hows, Results, Answers

\* One segment, and its copy for the mirror: it is now carried where it counts.
LEMMA IovCarried ==
  ASSUME WritesKept,
         NEW v, NEW c \in Reqs, NEW t \in Treq, t.req = c, Sound(v, c, 0),
         \A u \in v.treqs : u.req = c => u.iov < t.iov,
         t.image \in Open(v), v.secondary_mode = "MIRROR" => t.image = "leaf",
         NEW how \in Hows(v, t),
         NEW hm \in (IF mirrored(v, c) THEN Hows(v, [t EXCEPT !.image = v.secondary]) ELSE {"async"}),
         Anchored(v), t.image = "leaf" \/ (Carrier(v) = "second" /\ t.image = "second"),
         Carrier(v) = "second" /\ t.iov = 1 /\ t.image = "leaf" => v.secondary_mode = "MIRROR"
  PROVE  LET w == submit_iov(v, t, hm, how)
         IN  /\ NoLoss(v, w) /\ Anchored(w)
             /\ w.req[c].error = "ok" => Carried(w, c, t.iov)
<1> DEFINE x == MirrorQueued(v, t, hm)
           w == td_queue(x, t, how)
<1>1. submit_iov(v, t, hm, how) = w
  BY DEF submit_iov, MirrorQueued
<1>2. v.req[c].op \in {"read", "write"}
  BY DEF Sound, VbdState, Vreq
<1>3. how \in {"async", "forward"} \cup Errors /\ (how = "forward" => v.req[c].op = "read")
  BY <1>2, HowsFacts
<1>4. /\ Sound(x, c, 1) /\ Progress(v, c, t, x) /\ Ready(x, t) /\ x.req[c].op = v.req[c].op
      /\ Copied(v, c, t, hm, x)
  BY MirrorSubmitted
<1> HIDE DEF x
<1>5. /\ NoLoss(v, x) /\ Anchored(x)
      /\ mirrored(v, c) /\ Carrier(v) = "second" /\ x.req[c].error = "ok" => Carried(x, c, t.iov)
  <2>1. CASE mirrored(v, c)
    <3> DEFINE u == [v EXCEPT !.req[c].secs = @ + 2]
               m == [t EXCEPT !.image = v.secondary]
    <3>1. /\ x = td_queue(u, m, hm) /\ Sound(u, c, 2) /\ Ready(u, m)
          /\ m \in Treq /\ m.req = c /\ m.iov = t.iov /\ m.image = "second"
      BY <1>4, <2>1 DEF Copied
    <3>2. NoLoss(v, u) /\ Anchored(u) /\ u.kind = v.kind
      BY RaisedLosesNothing
    <3>3. SameButTreqs(v, u)
      BY Raised
    <3>4. hm \in Hows(v, m) /\ v.req[c].op = "write"
      BY <2>1 DEF mirrored
    <3> HIDE DEF u, m
    <3>5. u.req[c].op = "write"
      BY <3>3, <3>4 DEF SameButTreqs
    <3>6. hm \in {"async", "forward"} \cup Errors /\ hm # "forward" /\ Answers(v, m, hm)
      BY <3>1, <3>4, HowsFacts, HowsAnswer
    <3>7. Answers(u, m, hm)
      BY <3>1, <3>2, <3>4, <3>5, <3>6 DEF Answers
    <3>8. Sound(u, c, 1 + 1)
      BY <3>1
    <3>9. /\ NoLoss(u, x) /\ Anchored(x)
          /\ Counts(u, m) /\ x.req[c].error = "ok" => Carried(x, c, t.iov)
      BY <3>1, <3>2, <3>5, <3>6, <3>7, <3>8, QueueLosesNothing
    <3>10. NoLoss(v, x)
      BY <3>2, <3>9, NoLossTwice
    <3>11. Carrier(v) = "second" => Counts(u, m)
      BY <3>1, <3>2 DEF Counts, Carrier
    <3> QED BY <3>9, <3>10, <3>11
  <2>2. CASE ~mirrored(v, c)
    <3>1. x = [v EXCEPT !.req[c].secs = @ + 1]
      BY <1>4, <2>2 DEF Copied
    <3> QED BY <2>2, <3>1, RaisedLosesNothing
  <2> QED BY <2>1, <2>2
<1>6. x.kind = v.kind
  BY <1>5 DEF NoLoss
<1>7. Answers(x, t, how)
  BY <1>4, <1>6, HowsAnswer DEF Answers
<1>8. x.kind = "nbd" => t.image # "second"
  BY <1>6 DEF Carrier
<1>9. /\ NoLoss(x, w) /\ Anchored(w) /\ Sound(w, c, 0)
      /\ Counts(x, t) /\ w.req[c].error = "ok" => Carried(w, c, t.iov)
  <2>1. Sound(x, c, 0 + 1)
    BY <1>4
  <2>2. how = "forward" => x.req[c].op = "read"
    BY <1>3, <1>4
  <2>3. Sound(w, c, 0)
    BY <1>3, <1>4, <2>1, <2>2, TdQueue
  <2> QED BY <1>3, <1>4, <1>5, <1>7, <1>8, <2>1, <2>2, <2>3, QueueLosesNothing
<1> HIDE DEF w
<1>10. NoLoss(v, w)
  BY <1>5, <1>9, NoLossTwice
<1>11. ASSUME w.req[c].error = "ok" PROVE Carried(w, c, t.iov)
  <2>1. t.iov \in 1 .. Iovs
    BY DEF Treq
  <2>2. Attempted(w, c)
    BY <1>9, SubmittedIsAttempted
  <2>3. x.req[c].error = "ok" /\ (Carried(x, c, t.iov) => Carried(w, c, t.iov))
    BY <1>9, <1>11, <2>1, <2>2 DEF NoLoss
  <2>4. CASE Counts(x, t)
    BY <1>9, <1>11, <2>4
  <2>5. CASE ~Counts(x, t)
    <3>1. v.req[c].op = "write" /\ t.image # Carrier(v)
      BY <1>4, <1>6, <2>5 DEF Counts, Carrier
    <3>2. Carrier(v) = "second" /\ t.image = "leaf"
      BY <3>1 DEF Carrier
    <3>3. t.iov = 1
      BY <2>1, <3>2 DEF Carrier, WritesKept
    <3>4. mirrored(v, c)
      BY <3>1, <3>2, <3>3 DEF mirrored
    <3> QED BY <1>5, <2>3, <3>2, <3>4
  <2> QED BY <2>4, <2>5
<1> QED BY <1>1, <1>9, <1>10, <1>11

\* The step of the loop over the segments.
LEMMA SubmitIovCarries ==
  ASSUME WritesKept, IInv, AInv, SubmitIov
  PROVE  AInv'
<1> DEFINE c == srv.cur
           t == [req |-> c, iov |-> srv.iov, image |-> srv.image]
           m == [t EXCEPT !.image = vbd.secondary]
<1>1. /\ srv.pc = "submit" /\ srv.iov <= Iovs /\ srv \in SrvState /\ c \in Reqs /\ srv.iov >= 1
      /\ srv.image \in Images /\ srv.image \in Open(vbd) /\ Sound(vbd, c, 0)
      /\ vbd.secondary_mode = "MIRROR" => srv.image = "leaf"
      /\ \A u \in vbd.treqs : u.req = c => u.iov < srv.iov
  BY DEF SubmitIov, IInv, LoopOK, SubmitOK
<1>2. srv.iov \in Nat
  BY <1>1 DEF SrvState
<1>3. t \in Treq /\ t.req = c /\ t.iov = srv.iov /\ t.image = srv.image
  BY <1>1, <1>2, ConstantsAssumption DEF Treq
<1>4. PICK how \in Hows(vbd, t), hm \in IF mirrored(vbd, c) THEN Hows(vbd, m) ELSE {"async"} :
         vbd' = submit_iov(vbd, t, hm, how)
  BY DEF SubmitIov
<1>5. srv' = [srv EXCEPT !.iov = @ + 1]
  BY DEF SubmitIov
<1>6. srv'.pc = "submit" /\ srv'.cur = c /\ srv'.iov = srv.iov + 1 /\ srv'.image = srv.image
  BY <1>1, <1>2, <1>5 DEF SrvState
<1>7. /\ Acks(vbd, c, srv.iov) /\ Anchored(vbd)
      /\ srv.image = "leaf" \/ (Carrier(vbd) = "second" /\ srv.image = "second")
      /\ Carrier(vbd) = "second" /\ srv.iov = 1 /\ srv.image = "leaf" => vbd.secondary_mode = "MIRROR"
  BY <1>1 DEF AInv, Aimed
<1> HIDE DEF t, c
<1>8. /\ NoLoss(vbd, vbd') /\ Anchored(vbd') /\ (vbd'.req[c].error = "ok" => Carried(vbd', c, srv.iov))
  BY <1>1, <1>3, <1>4, <1>7, IovCarried
<1>9. Acks(vbd', c, srv.iov)
  BY <1>7, <1>8, NoLossAcks
<1>10. Acks(vbd', c, srv.iov + 1)
  <2>1. \A i \in 1 .. Iovs : i < srv.iov + 1 => i < srv.iov \/ i = srv.iov
    BY <1>2, ConstantsAssumption
  <2> QED BY <1>8, <1>9, <2>1 DEF Acks
<1>11. Aimed(srv', vbd')
  <2>1. Carrier(vbd') = Carrier(vbd)
    BY <1>8 DEF NoLoss, Carrier
  <2>2. srv'.iov # 1
    BY <1>1, <1>2, <1>6
  <2> QED BY <1>6, <1>7, <2>1, <2>2 DEF Aimed
<1> QED BY <1>6, <1>8, <1>10, <1>11 DEF AInv

-----------------------------------------------------------------------------
(* The loops over the queues *)

\* Only r, which is about to be submitted, has lost anything.
LEMMA ButOne ==
  ASSUME NEW v, NEW w, NEW r, NEW m, Acks(v, r, m),
         w.kind = v.kind, v.served \subseteq w.served, v.treqs \subseteq w.treqs,
         \A q \in Reqs : q # r /\ w.req[q].error = "ok" /\ Attempted(w, q) =>
            v.req[q].error = "ok" /\ Attempted(v, q) /\ w.req[q].op = v.req[q].op
  PROVE  Acks(w, r, 1)
<1> SUFFICES ASSUME NEW q \in Reqs, w.req[q].error = "ok", Attempted(w, q),
                    NEW i \in 1 .. Iovs, q = r => i < 1
             PROVE  Carried(w, q, i)
  BY DEF Acks
<1>1. q # r
  OBVIOUS
<1>2. Carried(v, q, i) /\ w.req[q].op = v.req[q].op
  BY <1>1 DEF Acks
<1>3. PICK t \in v.served \cup v.treqs : t.req = q /\ t.iov = i /\ Counts(v, t)
  BY <1>2 DEF Carried
<1>4. Counts(w, t)
  BY <1>2, <1>3 DEF Counts, Carrier
<1>5. t \in w.served \cup w.treqs
  BY <1>3
<1> QED BY <1>3, <1>4, <1>5 DEF Carried

\* A change to one request.
LEMMA TouchedCarries ==
  ASSUME NEW v \in VbdState, NEW r \in Reqs, NEW x \in Vreq, Anchored(v),
         x.st = v.req[r].st, x.op = v.req[r].op, x.secs = v.req[r].secs
  PROVE  LET w == Touched(v, r, x)
         IN  /\ Anchored(w)
             /\ \A m : Acks(v, r, m) => Acks(w, r, 1)
             /\ x.error = v.req[r].error => NoLoss(v, w)
<1> DEFINE w == Touched(v, r, x)
<1>1. SameButReq(v, r, w) /\ w.req[r] = x
  BY ReqTouched
<1>2. w.served = v.served
  BY DEF Touched, VbdState
<1> HIDE DEF w
<1>3. Calm(v, w) /\ w.new = v.new /\ \A q \in Reqs : w.req[q].op = v.req[q].op /\ w.req[q].st = v.req[q].st
  BY <1>1, <1>2 DEF SameButReq, Calm, SameHangings
<1>4. \A q \in Reqs : q # r => w.req[q] = v.req[q]
  BY <1>1 DEF SameButReq
<1>5. \A q \in Reqs : Attempted(w, q) <=> Attempted(v, q)
  BY <1>3 DEF Attempted
<1>6. \A y \in v.treqs : y.req \in Reqs
  BY DEF VbdState, Treq
<1>7. Anchored(w)
  BY <1>3, <1>6, CalmAnchored DEF Calm
<1>8. w.kind = v.kind /\ v.served \subseteq w.served /\ v.treqs \subseteq w.treqs
  BY <1>3 DEF Calm, SameHangings
<1>9. ASSUME NEW m, Acks(v, r, m) PROVE Acks(w, r, 1)
  BY <1>4, <1>5, <1>8, <1>9, ButOne
<1>10. ASSUME x.error = v.req[r].error PROVE NoLoss(v, w)
  BY <1>1, <1>3, <1>4, <1>5, <1>8, <1>10, Unlost
<1> QED BY <1>7, <1>9, <1>10 DEF w

\* One request changes its queue.
LEMMA RequeueCarries ==
  ASSUME NEW v \in VbdState, NEW w, NEW r, SameButQueues(v, w), Anchored(v),
         Elems(v.new) \ {r} \subseteq Elems(w.new)
  PROVE  /\ Anchored(w)
         /\ \A m : Acks(v, r, m) => Acks(w, r, 1)
         /\ r \notin Elems(v.new) => NoLoss(v, w)
<1>1. Calm(v, w) /\ w.req = v.req
  BY DEF SameButQueues, Calm, SameHangings
<1>2. Anchored(w)
  BY <1>1, CalmAnchored DEF Calm
<1>3. \A q \in Reqs : q # r \/ r \notin Elems(v.new) => (Attempted(w, q) => Attempted(v, q))
  BY <1>1 DEF Attempted
<1>4. w.kind = v.kind /\ v.served \subseteq w.served /\ v.treqs \subseteq w.treqs
  BY <1>1 DEF Calm, SameHangings
<1>5. ASSUME NEW m, Acks(v, r, m) PROVE Acks(w, r, 1)
  BY <1>1, <1>3, <1>4, <1>5, ButOne
<1>6. ASSUME r \notin Elems(v.new) PROVE NoLoss(v, w)
  BY <1>1, <1>3, <1>4, <1>6, Unlost
<1> QED BY <1>2, <1>5, <1>6

\* The end of tapdisk_vbd_issue_request.
LEMMA IssuedLosesNothing ==
  ASSUME NEW v, NEW c, Submitted(v, c), Anchored(v)
  PROVE  NoLoss(v, issued(v, c)) /\ Anchored(issued(v, c))
<1> DEFINE x == [v.req[c] EXCEPT !.submitting = 0]
           w == Touched(v, c, x)
           d == complete_vbd_request(w, c)
<1>1. v \in VbdState /\ c \in Reqs /\ v.req \in [Reqs -> Vreq] /\ v.req[c] \in Vreq
  BY Fields DEF Submitted
<1>2. /\ x \in Vreq /\ x.st = v.req[c].st /\ x.op = v.req[c].op /\ x.secs = v.req[c].secs
      /\ x.error = v.req[c].error
  BY <1>1 DEF Vreq
<1>3. issued(v, c) = d
  BY <1>1 DEF issued, Touched, VbdState
<1> HIDE DEF x
<1>4. w \in VbdState /\ w.new = v.new
  BY <1>1, <1>2, ReqTouched DEF SameButReq
<1>5. Anchored(w) /\ NoLoss(v, w)
  BY <1>1, <1>2, TouchedCarries
<1>6. c \notin Elems(v.new)
  BY <1>1 DEF Submitted, Queues, Waiting
<1> HIDE DEF w
<1>7. SameButQueues(w, d) /\ Elems(w.new) \ {c} \subseteq Elems(d.new)
  BY <1>1, <1>4, Requeued
<1> HIDE DEF d
<1>8. Anchored(d) /\ NoLoss(w, d)
  BY <1>4, <1>5, <1>6, <1>7, RequeueCarries
<1>9. NoLoss(v, d)
  BY <1>5, <1>8, NoLossTwice
<1> QED BY <1>3, <1>8, <1>9

\* The beginning of tapdisk_vbd_issue_request.
LEMMA BegunCarries ==
  ASSUME NEW v, NEW r \in Reqs, Sound(v, NoImage, 0), r \in Elems(v.new) \cup Elems(v.failed),
         Anchored(v), Acks(v, r, 1)
  PROVE  LET u == to_pending([v EXCEPT !.req[r].submitting = 1, !.req[r].recent = TRUE], r)
         IN  Anchored(u) /\ Acks(u, r, 1) /\ u.kind = v.kind
<1> DEFINE x == [v.req[r] EXCEPT !.submitting = 1, !.recent = TRUE]
           w == Touched(v, r, x)
           u == to_pending(w, r)
<1>1. /\ v \in VbdState /\ v.req \in [Reqs -> Vreq] /\ v.req[r] \in Vreq
  BY Fields DEF Sound
<1>2. /\ x \in Vreq /\ x.st = v.req[r].st /\ x.op = v.req[r].op /\ x.secs = v.req[r].secs
  <2>1. 1 \in 0 .. 1 /\ TRUE \in BOOLEAN
    OBVIOUS
  <2> QED BY <1>1, <2>1 DEF Vreq
<1>3. [v EXCEPT !.req[r].submitting = 1, !.req[r].recent = TRUE] = w
  BY <1>1 DEF Touched, VbdState
<1> HIDE DEF x
<1>4. w \in VbdState /\ SameButReq(v, r, w)
  BY <1>1, <1>2, ReqTouched
<1>5. Anchored(w) /\ Acks(w, r, 1)
  BY <1>1, <1>2, TouchedCarries
<1> HIDE DEF w
<1>6. Queues(w) /\ w.req[r].st = "queued" /\ w.kind = v.kind
  <2>1. Queues(w)
    BY <1>1, <1>4, ReqFrame DEF Sound
  <2>2. w.new = v.new /\ w.failed = v.failed /\ w.kind = v.kind
    BY <1>4 DEF SameButReq
  <2> QED BY <2>1, <2>2 DEF Queues
<1>7. Moved(w, r, u)
  BY <1>4, <1>6, Moves
<1> HIDE DEF u
<1>8. SameButQueues(w, u) /\ Elems(w.new) \ {r} \subseteq Elems(u.new) /\ u.kind = w.kind
  BY <1>7 DEF Moved, SameButQueues
<1>9. Anchored(u) /\ Acks(u, r, 1)
  BY <1>4, <1>5, <1>8, RequeueCarries
<1> QED BY <1>3, <1>6, <1>8, <1>9 DEF u

\* Away from the submission, every request keeps the promise.
LEMMA AcksAway ==
  ASSUME IInv, AInv, srv.pc # "submit"
  PROVE  Anchored(vbd) /\ \A d, k : Acks(vbd, d, k)
<1>1. srv.cur \notin Reqs /\ srv.iov \in Nat
  BY ConstantsAssumption DEF IInv, LoopOK, SrvState
<1> QED BY <1>1, AcksAll DEF AInv

\* And goes on doing so.
LEMMA StaysAway ==
  ASSUME \A d, k : Acks(vbd, d, k), NoLoss(vbd, vbd'), Anchored(vbd'), srv'.pc # "submit"
  PROVE  AInv'
BY NoLossAcks DEF AInv, Aimed

\* The place after a request was issued.
LEMMA LoopsOnAway ==
  ASSUME srv \in SrvState, NEW v, NEW r
  PROVE  loop_on(v, r).pc # "submit"
BY DEF loop_on, goto, SrvState

\* The step after the last segment.
LEMMA EndIssueCarries ==
  ASSUME IInv, AInv, EndIssue
  PROVE  AInv'
<1> DEFINE c == srv.cur
<1>1. /\ srv.pc = "submit" /\ srv.iov > Iovs /\ vbd' = issued(vbd, c) /\ srv' = loop_on(vbd', c)
  BY DEF EndIssue
<1>2. srv \in SrvState /\ srv.iov \in Nat /\ c \in Reqs /\ Sound(vbd, c, 0)
  BY <1>1 DEF IInv, LoopOK, SrvState
<1>3. Acks(vbd, c, srv.iov) /\ Anchored(vbd)
  BY DEF AInv
<1> HIDE DEF c
<1>4. \A d, k : Acks(vbd, d, k)
  BY <1>1, <1>2, <1>3, AcksAll
<1>5. NoLoss(vbd, vbd') /\ Anchored(vbd')
  BY <1>1, <1>2, <1>3, SoundSubmitted, IssuedLosesNothing
<1>6. srv'.pc # "submit"
  BY <1>1, <1>2, LoopsOnAway
<1> QED BY <1>4, <1>5, <1>6, StaysAway

\* The image that tapdisk_vbd_issue_request looks up.
LEMMA HeadAimed ==
  ASSUME NEW v, Anchored(v), v.images # <<>>
  PROVE  /\ Head(v.images) = "leaf" \/ (Carrier(v) = "second" /\ Head(v.images) = "second")
         /\ Carrier(v) = "second" /\ Head(v.images) = "leaf" => v.secondary_mode = "MIRROR"
<1>1. Carrier(v) \in {"leaf", "second"}
  BY DEF Carrier
<1>2. v.images \in {<<"leaf", "base">>, <<"leaf", "second", "base">>, <<"second", "base">>}
  BY <1>1 DEF Anchored
<1>3. CASE v.images = <<"leaf", "base">>
  <2>1. Head(v.images) = "leaf" /\ Len(v.images) = 2 /\ v.images[1] = "leaf"
    BY <1>3
  <2>2. Carrier(v) # "second"
    <3>1. Len(<<"leaf", "second", "base">>) = 3 /\ <<"second", "base">>[1] = "second"
      OBVIOUS
    <3> QED BY <1>3, <2>1, <3>1 DEF Anchored
  <2> QED BY <2>1, <2>2
<1>4. CASE v.images = <<"leaf", "second", "base">>
  <2>1. Head(v.images) = "leaf"
    BY <1>4
  <2> QED BY <1>4, <2>1 DEF Anchored
<1>5. CASE v.images = <<"second", "base">>
  <2>1. Head(v.images) = "second" /\ Len(v.images) = 2 /\ v.images[1] = "second"
    BY <1>5
  <2>2. Carrier(v) # "leaf"
    <3>1. Len(<<"leaf", "second", "base">>) = 3 /\ <<"leaf", "base">>[1] = "leaf"
      OBVIOUS
    <3> QED BY <1>5, <2>1, <3>1 DEF Anchored
  <2> QED BY <1>1, <2>1, <2>2
<1> QED BY <1>2, <1>3, <1>4, <1>5

\* tapdisk_vbd_issue_request up to its loop over the segments.
LEMMA BeginIssueCarries ==
  ASSUME NEW v, NEW r \in Reqs, Sound(v, NoImage, 0), srv \in SrvState,
         r \in Elems(v.new) \cup Elems(v.failed), BeginIssue(v, r), Anchored(v), Acks(v, r, 1)
  PROVE  AInv'
<1> DEFINE u == to_pending([v EXCEPT !.req[r].submitting = 1, !.req[r].recent = TRUE], r)
           e == IF v.images = <<>> THEN "ENOSYS" ELSE "EAGAIN"
           d == [u EXCEPT !.req[r].error = e]
           f == issued(d, r)
<1>1. Submitted(u, r) /\ u.images = v.images /\ u.secondary_mode = v.secondary_mode
  BY Begun
<1>2. Anchored(u) /\ Acks(u, r, 1) /\ u.kind = v.kind
  BY BegunCarries
<1>3. CASE v.images # <<>> /\ queue_ready(v)
  <2> DEFINE h == Head(v.images)
  <2>1. vbd' = u /\ srv' = [srv EXCEPT !.pc = "submit", !.cur = r, !.iov = 1, !.image = h]
    BY <1>3 DEF BeginIssue
  <2> HIDE DEF u
  <2>2. /\ h = "leaf" \/ (Carrier(u) = "second" /\ h = "second")
        /\ Carrier(u) = "second" /\ h = "leaf" => u.secondary_mode = "MIRROR"
    BY <1>1, <1>2, <1>3, HeadAimed
  <2> HIDE DEF h
  <2>3. srv'.pc = "submit" /\ srv'.cur = r /\ srv'.iov = 1 /\ srv'.image = h
    BY <2>1 DEF SrvState
  <2>4. Aimed(srv', u)
    BY <2>2, <2>3 DEF Aimed
  <2> QED BY <1>2, <2>1, <2>3, <2>4 DEF AInv
<1>4. CASE ~(v.images # <<>> /\ queue_ready(v))
  <2>1. vbd' = f /\ srv' = loop_on(f, r)
    BY <1>4 DEF BeginIssue
  <2>2. e \in Errors /\ e # "ok"
    BY DEF Errors
  <2> HIDE DEF u, e
  <2>3. Submitted(d, r)
    BY <1>1, <2>2, Refused
  <2> DEFINE x == [u.req[r] EXCEPT !.error = e]
  <2>4. u \in VbdState /\ u.req \in [Reqs -> Vreq] /\ u.req[r] \in Vreq
    BY <1>1, Fields DEF Submitted
  <2>5. d = Touched(u, r, x)
    BY <2>4 DEF Touched, VbdState
  <2>6. /\ x \in Vreq /\ x.st = u.req[r].st /\ x.op = u.req[r].op /\ x.secs = u.req[r].secs
        /\ x.error = e
    BY <2>2, <2>4 DEF Vreq
  <2> HIDE DEF x, d
  <2>7. Anchored(d) /\ Acks(d, r, 1)
    BY <1>2, <2>4, <2>5, <2>6, TouchedCarries
  <2>8. d.req[r].error = e
    BY <2>4, <2>5, <2>6, ReqTouched
  <2>9. \A b, k : Acks(d, b, k)
    BY <2>2, <2>7, <2>8 DEF Acks
  <2>10. NoLoss(d, f) /\ Anchored(f)
    BY <2>3, <2>7, IssuedLosesNothing
  <2> HIDE DEF f
  <2>11. \A b, k : Acks(f, b, k)
    BY <2>9, <2>10, NoLossAcks
  <2>12. srv'.pc # "submit"
    BY <2>1, LoopsOnAway
  <2> QED BY <2>1, <2>10, <2>11, <2>12 DEF AInv, Aimed
<1> QED BY <1>3, <1>4

\* Nothing happens to the VBD.
LEMMA Undisturbed ==
  ASSUME IInv, AInv, srv.pc # "submit", vbd' = vbd, srv'.pc # "submit"
  PROVE  AInv'
<1>1. NoLoss(vbd, vbd')
  BY DEF NoLoss
<1> QED BY <1>1, AcksAway, StaysAway

\* The loop over the failed requests.
LEMMA ReissueCarries ==
  ASSUME IInv, AInv, Reissue
  PROVE  AInv'
<1> DEFINE r == Head(srv.todo)
           s == [srv EXCEPT !.todo = Tail(@)]
<1>1. /\ srv.pc = "reissue" /\ srv \in SrvState
      /\ Elems(srv.todo) \subseteq Elems(vbd.failed)
      /\ Sound(vbd, NoImage, 0) /\ srv.todo \in Seq(Reqs)
  BY DEF Reissue, IInv, LoopOK, LoopOn, SrvState
<1>2. Anchored(vbd) /\ \A d, k : Acks(vbd, d, k)
  BY <1>1, AcksAway
<1>3. srv.todo # <<>> => r \in Reqs /\ r \in Elems(vbd.failed)
  BY <1>1, TailFacts
<1>4. s.pc = "reissue"
  BY <1>1 DEF SrvState
<1>5. CASE srv.todo = <<>>
  <2>1. srv' = [goto("issue_new") EXCEPT !.todo = vbd.new, !.loop = "issue_new"] /\ vbd' = vbd
    BY <1>5 DEF Reissue
  <2>2. srv'.pc # "submit"
    BY <1>1, <2>1 DEF goto, SrvState
  <2> QED BY <1>1, <2>1, <2>2, Undisturbed
<1>6. CASE srv.todo # <<>> /\ srv' = s /\ vbd' = complete_vbd_request(vbd, r)
  <2>1. vbd \in VbdState /\ r \in Reqs /\ r \notin Elems(vbd.new)
    BY <1>1, <1>3, <1>6 DEF Sound, Queues
  <2> HIDE DEF r, s
  <2>2. SameButQueues(vbd, vbd') /\ Elems(vbd.new) \ {r} \subseteq Elems(vbd'.new)
    BY <1>6, <2>1, Requeued
  <2>3. NoLoss(vbd, vbd') /\ Anchored(vbd')
    BY <1>2, <2>1, <2>2, RequeueCarries
  <2> QED BY <1>2, <1>4, <1>6, <2>3, StaysAway
<1>7. CASE srv.todo # <<>> /\ srv' = s /\ vbd' = vbd
  <2> HIDE DEF s
  <2> QED BY <1>1, <1>4, <1>7, Undisturbed
<1>8. CASE srv.todo # <<>> /\ BeginIssue([vbd EXCEPT !.req[r].error = "ok"], r)
  <2> DEFINE x == [vbd.req[r] EXCEPT !.error = "ok"]
             v == Touched(vbd, r, x)
  <2>1. r \in Reqs /\ r \in Elems(vbd.failed)
    BY <1>3, <1>8
  <2> HIDE DEF r
  <2>2. vbd \in VbdState /\ vbd.req \in [Reqs -> Vreq] /\ vbd.req[r] \in Vreq
    BY <1>1, <2>1, Fields DEF Sound
  <2>3. /\ x \in Vreq /\ x.st = vbd.req[r].st /\ x.op = vbd.req[r].op
        /\ x.submitting = vbd.req[r].submitting /\ x.secs = vbd.req[r].secs
    BY <2>2 DEF Vreq, Errors
  <2>4. [vbd EXCEPT !.req[r].error = "ok"] = v
    BY <2>1, <2>2 DEF Touched, VbdState
  <2> HIDE DEF x
  <2>5. Sound(v, NoImage, 0) /\ Alike(vbd, r, x, v)
    BY <1>1, <2>1, <2>3, TouchedSound
  <2>6. Anchored(v) /\ Acks(v, r, 1)
    BY <1>2, <2>1, <2>2, <2>3, TouchedCarries
  <2> HIDE DEF v
  <2>7. r \in Elems(v.failed)
    BY <2>1, <2>5 DEF Alike, SameButTreqs
  <2>8. BeginIssue(v, r)
    BY <1>8, <2>4
  <2> QED BY <1>1, <2>1, <2>5, <2>6, <2>7, <2>8, BeginIssueCarries
<1> QED BY <1>5, <1>6, <1>7, <1>8 DEF Reissue

\* The loop over the new requests.
LEMMA IssueNewCarries ==
  ASSUME IInv, AInv, IssueNew
  PROVE  AInv'
<1>1. /\ srv.pc = "issue_new" /\ srv \in SrvState
      /\ Elems(srv.todo) \subseteq Elems(vbd.new)
      /\ Sound(vbd, NoImage, 0) /\ srv.todo \in Seq(Reqs)
  BY DEF IssueNew, IInv, LoopOK, LoopOn, SrvState
<1>2. CASE srv.todo = <<>>
  <2> DEFINE pc == IF srv.ret = "tail" THEN "tail" ELSE "kick"
  <2>1. srv' = goto(pc) /\ vbd' = vbd /\ pc \in {"tail", "kick"}
    BY <1>2 DEF IssueNew
  <2> HIDE DEF pc
  <2>2. srv'.pc # "submit"
    BY <1>1, <2>1, Rests
  <2> QED BY <1>1, <2>1, <2>2, Undisturbed
<1>3. CASE srv.todo # <<>>
  <2>1. BeginIssue(vbd, Head(srv.todo))
    BY <1>3 DEF IssueNew
  <2>2. Head(srv.todo) \in Reqs /\ Head(srv.todo) \in Elems(vbd.new)
    BY <1>1, <1>3, TailFacts
  <2>3. Anchored(vbd) /\ Acks(vbd, Head(srv.todo), 1)
    BY <1>1, AcksAway
  <2> QED BY <1>1, <2>1, <2>2, <2>3, BeginIssueCarries
<1> QED BY <1>2, <1>3

-----------------------------------------------------------------------------
(* Requests that change their queue without I/O *)

\* tapdisk_vbd_kill_requests fails what it completes.
LEMMA KilledCarries ==
  ASSUME NEW v, Sound(v, NoImage, 0), Anchored(v)
  PROVE  NoLoss(v, kill_requests(v)) /\ Anchored(kill_requests(v))
<1> DEFINE R == Elems(v.new) \cup Elems(v.failed)
           f == [r \in Reqs |-> IF r \in R THEN [v.req[r] EXCEPT !.error = "ESHUTDOWN"] ELSE v.req[r]]
           w == kill_requests(v)
<1>1. v \in VbdState /\ v.req \in [Reqs -> Vreq] /\ \A t \in v.treqs : t.req \in Reqs
  <2>1. v \in VbdState
    BY DEF Sound
  <2> QED BY <2>1, Fields DEF Treq
<1>2. Calm(v, w) /\ w.req = f
  BY <1>1 DEF kill_requests, VbdState, Calm, SameHangings
<1> HIDE DEF w
<1>3. \A r \in Reqs : /\ f[r].st = v.req[r].st /\ f[r].op = v.req[r].op
                      /\ r \in R => f[r].error = "ESHUTDOWN"
                      /\ r \notin R => f[r] = v.req[r]
  <2> TAKE r \in Reqs
  <2> DEFINE y == v.req[r]
  <2>1. y \in Vreq
    BY <1>1
  <2> HIDE DEF y, R
  <2>2. f[r] = IF r \in R THEN [y EXCEPT !.error = "ESHUTDOWN"] ELSE y
    BY DEF y
  <2> HIDE DEF f
  <2>3. /\ f[r].st = y.st /\ f[r].op = y.op /\ (r \in R => f[r].error = "ESHUTDOWN")
        /\ (r \notin R => f[r] = y)
    BY <2>1, <2>2 DEF Vreq
  <2> QED BY <2>3 DEF y
<1> HIDE DEF f
<1>4. \A r \in Reqs : w.req[r].error = "ok" /\ Attempted(w, r) =>
         v.req[r].error = "ok" /\ Attempted(v, r) /\ w.req[r].op = v.req[r].op
  BY <1>2, <1>3 DEF Attempted
<1>5. NoLoss(v, w) /\ Anchored(w)
  BY <1>1, <1>2, <1>3, <1>4, CalmStep
<1> QED BY <1>5 DEF w

\* tapdisk_vbd_check_complete_requests.
LEMMA CheckedCarries ==
  ASSUME NEW v, Sound(v, NoImage, 0), Anchored(v)
  PROVE  NoLoss(v, check_complete_requests(v)) /\ Anchored(check_complete_requests(v))
<1> DEFINE w == check_complete_requests(v)
<1>1. Calm(v, w) /\ w.req = v.req /\ w.new = v.new
  BY DEF Sound, check_complete_requests, VbdState, Calm, SameHangings
<1> HIDE DEF w
<1>2. \A r \in Reqs : Attempted(w, r) <=> Attempted(v, r)
  BY <1>1 DEF Attempted
<1>3. NoLoss(v, w) /\ Anchored(w)
  BY <1>1, <1>2, CalmStep
<1> QED BY <1>3 DEF w

\* tapdisk_vbd_issue_requests.
LEMMA IssueRequestsCarries ==
  ASSUME NEW v, NEW ret \in {"tail", "recheck"}, srv \in SrvState, Sound(v, NoImage, 0),
         Anchored(v), IssueRequests(v, ret)
  PROVE  NoLoss(v, vbd') /\ Anchored(vbd') /\ srv'.pc # "submit"
<1>1. CASE "DEAD" \in v.state
  <2> DEFINE pc == IF ret = "tail" THEN "tail" ELSE "kick"
  <2>1. vbd' = kill_requests(v) /\ srv' = goto(pc) /\ pc \in {"tail", "kick"}
    BY <1>1 DEF IssueRequests
  <2> HIDE DEF pc
  <2> QED BY <2>1, KilledCarries, Rests
<1>2. CASE "DEAD" \notin v.state
  <2>1. vbd' = v /\ srv' = [goto("reissue") EXCEPT !.todo = v.failed, !.loop = "reissue", !.ret = ret]
    BY <1>2 DEF IssueRequests
  <2>2. srv'.pc # "submit"
    BY <2>1 DEF goto, SrvState
  <2> QED BY <2>1, <2>2 DEF NoLoss
<1> QED BY <1>1, <1>2

\* tapdisk_vbd_check_state.
LEMMA CheckStateCarries ==
  ASSUME IInv, AInv, CheckState
  PROVE  AInv'
<1> DEFINE v == check_complete_requests(vbd)
<1>1. srv.pc = "check"
  BY DEF CheckState
<1>2. srv \in SrvState /\ Sound(vbd, NoImage, 0) /\ Anchored(vbd) /\ \A d, k : Acks(vbd, d, k)
  BY <1>1, Idles, AcksAway
<1>3. Sound(v, NoImage, 0) /\ NoLoss(vbd, v) /\ Anchored(v)
  BY <1>2, Checked, CheckedCarries
<1>4. \/ srv' = goto(srv.after) /\ vbd' = vbd
      \/ IssueRequests(v, "tail")
      \/ srv' = goto("tail") /\ vbd' = v
  BY DEF CheckState
<1> HIDE DEF v
<1>5. CASE srv' = goto(srv.after) /\ vbd' = vbd
  <2>1. srv.after \in {"events", "kick"}
    BY <1>2 DEF SrvState
  <2>2. srv'.pc # "submit"
    BY <1>2, <1>5, <2>1, Rests
  <2> QED BY <1>1, <1>5, <2>2, Undisturbed
<1>6. CASE IssueRequests(v, "tail")
  <2>1. NoLoss(v, vbd') /\ Anchored(vbd') /\ srv'.pc # "submit"
    BY <1>2, <1>3, <1>6, IssueRequestsCarries
  <2>2. NoLoss(vbd, vbd')
    BY <1>3, <2>1, NoLossTwice
  <2> QED BY <1>2, <2>1, <2>2, StaysAway
<1>7. CASE srv' = goto("tail") /\ vbd' = v
  <2>1. srv'.pc # "submit"
    BY <1>2, <1>7, Rests
  <2> QED BY <1>2, <1>3, <1>7, <2>1, StaysAway
<1> QED BY <1>4, <1>5, <1>6, <1>7

\* tapdisk_vbd_recheck_state.
LEMMA RecheckStateCarries ==
  ASSUME IInv, AInv, RecheckState
  PROVE  AInv'
<1>1. srv.pc = "recheck"
  BY DEF RecheckState
<1>2. srv \in SrvState /\ Sound(vbd, NoImage, 0) /\ Anchored(vbd) /\ \A d, k : Acks(vbd, d, k)
  BY <1>1, Idles, AcksAway
<1>3. (srv' = goto("end") /\ vbd' = vbd) \/ IssueRequests(vbd, "recheck")
  BY DEF RecheckState
<1>4. CASE srv' = goto("end") /\ vbd' = vbd
  <2>1. srv'.pc # "submit"
    BY <1>2, <1>4, Rests
  <2> QED BY <1>1, <1>4, <2>1, Undisturbed
<1>5. CASE IssueRequests(vbd, "recheck")
  <2>1. NoLoss(vbd, vbd') /\ Anchored(vbd') /\ srv'.pc # "submit"
    BY <1>2, <1>5, IssueRequestsCarries
  <2> QED BY <1>2, <2>1, StaysAway
<1> QED BY <1>3, <1>4, <1>5

\* tapdisk_vbd_kick answers what keeps the promise.
LEMMA KickCarries ==
  ASSUME IInv, AInv, Kick
  PROVE  AInv'
<1> DEFINE R == Elems(vbd.completed)
           f == [r \in Reqs |-> IF r \in R THEN [vbd.req[r] EXCEPT !.st = "answered"] ELSE vbd.req[r]]
<1>1. srv.pc = "kick" /\ srv' = goto("recheck")
  BY DEF Kick
<1>2. srv \in SrvState /\ Sound(vbd, NoImage, 0) /\ Anchored(vbd) /\ \A d, k : Acks(vbd, d, k)
  BY <1>1, Idles, AcksAway
<1>3. vbd \in VbdState /\ vbd.req \in [Reqs -> Vreq] /\ Queues(vbd) /\ \A t \in vbd.treqs : t.req \in Reqs
  <2>1. vbd \in VbdState /\ Queues(vbd)
    BY <1>2 DEF Sound
  <2> QED BY <2>1, Fields DEF Treq
<1>4. vbd' = [vbd EXCEPT !.completed = <<>>, !.req = f,
                 !.ring = IF @ = "dead" /\ \A r \in Reqs : f[r].st # "queued" THEN "gone" ELSE @]
  BY DEF Kick
<1>5. \A r \in Reqs : /\ f[r].error = vbd.req[r].error /\ f[r].op = vbd.req[r].op
                      /\ r \notin R => f[r].st = vbd.req[r].st
  <2> TAKE r \in Reqs
  <2> DEFINE y == vbd.req[r]
  <2>1. y \in Vreq
    BY <1>3
  <2> HIDE DEF y, R
  <2>2. f[r] = IF r \in R THEN [y EXCEPT !.st = "answered"] ELSE y
    BY DEF y
  <2> HIDE DEF f
  <2>3. f[r].error = y.error /\ f[r].op = y.op /\ (r \notin R => f[r].st = y.st)
    BY <2>1, <2>2 DEF Vreq
  <2> QED BY <2>3 DEF y
<1> HIDE DEF f
<1>6. Calm(vbd, vbd') /\ vbd'.req = f /\ vbd'.new = vbd.new
  BY <1>3, <1>4 DEF VbdState, Calm, SameHangings
<1>7. \A r \in Reqs : r \in R => vbd.req[r].st = "queued"
  BY <1>3 DEF Queues
<1>8. \A r \in Reqs : Attempted(vbd', r) => Attempted(vbd, r)
  BY <1>5, <1>6, <1>7 DEF Attempted
<1>9. NoLoss(vbd, vbd') /\ Anchored(vbd')
  BY <1>2, <1>3, <1>5, <1>6, <1>8, CalmStep
<1>10. srv'.pc # "submit"
  BY <1>1, <1>2, Rests
<1> QED BY <1>2, <1>9, <1>10, StaysAway

-----------------------------------------------------------------------------
(* Events *)

\* A new request promises nothing yet.
LEMMA QueueRequestCarries ==
  ASSUME IInv, AInv, NEW r \in Reqs, NEW op \in ReqOps, QueueRequest(r, op)
  PROVE  AInv'
<1> DEFINE x == [vbd.req[r] EXCEPT !.st = "queued", !.op = op]
           f == [vbd.req EXCEPT ![r] = x]
           a == Append(vbd.new, r)
<1>1. srv.pc = "events" /\ srv' = srv /\ vbd.req[r].st = "idle"
  BY DEF QueueRequest
<1>2. Sound(vbd, NoImage, 0) /\ Anchored(vbd) /\ \A d, k : Acks(vbd, d, k)
  BY <1>1, Idles, AcksAway
<1>3. /\ vbd \in VbdState /\ vbd.req \in [Reqs -> Vreq] /\ Queues(vbd) /\ vbd.new \in Seq(Reqs)
      /\ \A t \in vbd.treqs : t.req \in Reqs
  <2>1. vbd \in VbdState /\ Queues(vbd)
    BY <1>2 DEF Sound
  <2> QED BY <2>1, Fields DEF Treq
<1>4. vbd' = [vbd EXCEPT !.new = a, !.req = f]
  BY <1>3 DEF QueueRequest, VbdState, Vreq
<1>5. Elems(a) = Elems(vbd.new) \cup {r}
  BY <1>3, AppendFacts
<1>6. \A q \in Reqs : q # r => f[q] = vbd.req[q]
  BY <1>3
<1> HIDE DEF f, a
<1>7. Calm(vbd, vbd') /\ vbd'.req = f /\ vbd'.new = a
  BY <1>3, <1>4 DEF VbdState, Calm, SameHangings
<1>8. \A t \in vbd.treqs : t.req # r
  <2>1. r \notin vbd.pending
    BY <1>1, <1>3 DEF Queues
  <2> QED BY <1>2, <2>1 DEF Sound, Waiting, Held
<1>9. \A q \in Reqs : Attempted(vbd', q) => q # r /\ Attempted(vbd, q)
  BY <1>5, <1>6, <1>7 DEF Attempted
<1>10. NoLoss(vbd, vbd') /\ Anchored(vbd')
  BY <1>2, <1>3, <1>6, <1>7, <1>8, <1>9, CalmStep
<1> QED BY <1>1, <1>2, <1>10, StaysAway

\* A driver answers.
LEMMA CompleteTreqCarries ==
  ASSUME WritesKept, IInv, AInv, NEW t \in vbd.treqs, CompleteTreq(t)
  PROVE  AInv'
<1>1. srv.pc = "events" /\ srv' = srv
  BY DEF CompleteTreq
<1>2. Sound(vbd, NoImage, 0) /\ Anchored(vbd) /\ \A d, k : Acks(vbd, d, k)
  BY <1>1, Idles, AcksAway
<1>3. PICK res \in Results(vbd, t) : vbd' = complete_td_request(vbd, t, res)
  BY DEF CompleteTreq
<1>4. res \in Errors /\ Answers(vbd, t, res)
  BY ConstantsAssumption DEF Results, Errors, Answers
<1>5. NoLoss(vbd, vbd') /\ Anchored(vbd')
  BY <1>2, <1>3, <1>4, CompletionLosesNothing
<1> QED BY <1>1, <1>2, <1>5, StaysAway

\* A driver passes a read on.
LEMMA ForwardTreqCarries ==
  ASSUME WritesKept, IInv, AInv, NEW t \in vbd.treqs, ForwardTreq(t)
  PROVE  AInv'
<1>1. /\ srv.pc = "events" /\ srv' = srv /\ vbd' = forward_request(vbd, t)
      /\ vbd.req[t.req].op = "read"
  BY DEF ForwardTreq
<1>2. Sound(vbd, NoImage, 0) /\ Anchored(vbd) /\ \A d, k : Acks(vbd, d, k)
  BY <1>1, Idles, AcksAway
<1>3. NoLoss(vbd, vbd') /\ Anchored(vbd')
  BY <1>1, <1>2, ForwardLosesNothing
<1> QED BY <1>1, <1>2, <1>3, StaysAway

\* Time passes.
LEMMA TimeCarries ==
  ASSUME IInv, AInv, NEW r \in Reqs, Expire(r) \/ BackedOff(r)
  PROVE  AInv'
<1>1. srv.pc = "events" /\ srv' = srv
  BY DEF Expire, BackedOff
<1>2. Sound(vbd, NoImage, 0) /\ Anchored(vbd) /\ \A d, k : Acks(vbd, d, k)
  BY <1>1, Idles, AcksAway
<1>3. vbd \in VbdState /\ vbd.req \in [Reqs -> Vreq] /\ vbd.req[r] \in Vreq
  BY <1>2, Fields DEF Sound
<1>4. ASSUME NEW x \in Vreq, vbd' = Touched(vbd, r, x), x.st = vbd.req[r].st, x.op = vbd.req[r].op,
             x.secs = vbd.req[r].secs, x.error = vbd.req[r].error
      PROVE  AInv'
  <2>1. NoLoss(vbd, vbd') /\ Anchored(vbd')
    BY <1>2, <1>3, <1>4, TouchedCarries
  <2> QED BY <1>1, <1>2, <2>1, StaysAway
<1>5. CASE Expire(r)
  <2> DEFINE x == [vbd.req[r] EXCEPT !.expired = TRUE]
  <2>1. vbd' = Touched(vbd, r, x)
    BY <1>3, <1>5 DEF Expire, Touched, VbdState
  <2>2. /\ x \in Vreq /\ x.st = vbd.req[r].st /\ x.op = vbd.req[r].op /\ x.secs = vbd.req[r].secs
        /\ x.error = vbd.req[r].error
    BY <1>3 DEF Vreq
  <2> HIDE DEF x
  <2> QED BY <1>4, <2>1, <2>2
<1>6. CASE BackedOff(r)
  <2> DEFINE x == [vbd.req[r] EXCEPT !.recent = FALSE]
  <2>1. vbd' = Touched(vbd, r, x)
    BY <1>3, <1>6 DEF BackedOff, Touched, VbdState
  <2>2. /\ x \in Vreq /\ x.st = vbd.req[r].st /\ x.op = vbd.req[r].op /\ x.secs = vbd.req[r].secs
        /\ x.error = vbd.req[r].error
    BY <1>3 DEF Vreq
  <2> HIDE DEF x
  <2> QED BY <1>4, <2>1, <2>2
<1> QED BY <1>5, <1>6

-----------------------------------------------------------------------------
(* Quiescing, pausing, opening and closing *)

\* Nothing differs of the requests, their I/Os and what was carried out.
Steady(v, w) ==
  /\ w.kind = v.kind /\ w.served = v.served /\ w.treqs = v.treqs /\ w.req = v.req /\ w.new = v.new

Settled(v, w) == w \in VbdState /\ Anchored(w) /\ Steady(v, w)

\* Two such changes are one.
LEMMA SettledTwice ==
  ASSUME NEW v, NEW u, NEW w, Settled(v, u), Settled(u, w)
  PROVE  Settled(v, w)
BY DEF Settled, Steady

\* Nothing is lost by them.
LEMMA SettledLosesNothing ==
  ASSUME NEW v, NEW w, Settled(v, w)
  PROVE  NoLoss(v, w) /\ Anchored(w)
<1>1. \A r \in Reqs : Attempted(w, r) => Attempted(v, r)
  BY DEF Settled, Steady, Attempted
<1> QED BY <1>1, Unlost DEF Settled, Steady

\* A handler that makes one.
LEMMA SettledStays ==
  ASSUME IInv, AInv, srv.pc # "submit", Settled(vbd, vbd'), srv'.pc # "submit"
  PROVE  AInv'
BY AcksAway, StaysAway, SettledLosesNothing

\* td_flag_set and td_flag_clear.
LEMMA FlagSettles ==
  ASSUME NEW v \in VbdState, Anchored(v), NEW f \in Flags
  PROVE  Settled(v, set(v, f)) /\ Settled(v, clear(v, f))
<1>1. ASSUME NEW S \in SUBSET Flags
      PROVE  Settled(v, [v EXCEPT !.state = S])
  <2> DEFINE w == [v EXCEPT !.state = S]
  <2>1. w \in VbdState /\ Steady(v, w) /\ SameHangings(v, w)
    BY DEF VbdState, Steady, SameHangings
  <2> HIDE DEF w
  <2>2. Anchored(w)
    BY <2>1, CalmAnchored DEF Steady
  <2>3. Settled(v, w)
    BY <2>1, <2>2 DEF Settled
  <2> QED BY <2>3 DEF w
<1>2. v.state \cup {f} \in SUBSET Flags /\ v.state \ {f} \in SUBSET Flags
  BY Fields
<1>3. set(v, f) = [v EXCEPT !.state = v.state \cup {f}] /\ clear(v, f) = [v EXCEPT !.state = v.state \ {f}]
  BY DEF set, clear
<1> QED BY <1>1, <1>2, <1>3

\* tapdisk_vbd_quiesce_queue.
LEMMA QuiesceSettles ==
  ASSUME NEW v \in VbdState, Anchored(v)
  PROVE  Settled(v, quiesce_queue(v))
<1>1. "QUIESCE_REQUESTED" \in Flags /\ "QUIESCED" \in Flags
  BY DEF Flags
<1> DEFINE u == clear(v, "QUIESCE_REQUESTED")
<1>2. Settled(v, u) /\ Settled(v, set(v, "QUIESCE_REQUESTED"))
  BY <1>1, FlagSettles
<1>3. quiesce_queue(v) = set(v, "QUIESCE_REQUESTED") \/ quiesce_queue(v) = set(u, "QUIESCED")
  BY DEF quiesce_queue
<1> HIDE DEF u
<1>4. Settled(u, set(u, "QUIESCED"))
  BY <1>1, <1>2, FlagSettles DEF Settled
<1> QED BY <1>2, <1>3, <1>4, SettledTwice

\* tapdisk_vbd_close_vdi.
LEMMA CloseSettles ==
  ASSUME NEW v \in VbdState, Anchored(v)
  PROVE  Settled(v, close_vdi(v))
<1> DEFINE x == IF v.secondary_mode # "MIRROR" THEN NoImage ELSE v.secondary
           none == <<>>
           w == [v EXCEPT !.images = none, !.retired = NoImage, !.ignore_enospc = {}, !.secondary = x]
<1>1. close_vdi(v) = set(w, "CLOSED")
  BY DEF close_vdi
<1>2. x \in Images \cup {NoImage} /\ none \in Seq(Images) /\ none = <<>>
  BY Fields
<1> HIDE DEF x, none
<1>3. w \in VbdState /\ Steady(v, w)
  BY <1>2 DEF VbdState, Steady
<1>4. /\ w.images = <<>> /\ w.retired = NoImage /\ w.ignore_enospc = {}
      /\ w.flags = v.flags /\ w.secondary_mode = v.secondary_mode
  BY <1>2 DEF VbdState
<1> HIDE DEF w
<1>5. Carrier(w) = Carrier(v)
  BY <1>3 DEF Steady, Carrier
<1>6. NoImage # "leaf"
  BY ConstantsAssumption DEF Images
<1>7. <<"leaf", "second", "base">> # <<>>
  OBVIOUS
<1>8. Anchored(w)
  BY <1>3, <1>4, <1>5, <1>6, <1>7 DEF Anchored, Steady
<1>9. Settled(v, w)
  BY <1>3, <1>8 DEF Settled
<1>10. Settled(w, set(w, "CLOSED"))
  BY <1>3, <1>8, FlagSettles DEF Flags
<1> QED BY <1>1, <1>9, <1>10, SettledTwice

\* tapdisk_vbd_pause.
LEMMA PauseSettles ==
  ASSUME NEW v \in VbdState, Anchored(v)
  PROVE  Settled(v, pause(v))
<1> DEFINE u == set(v, "PAUSE_REQUESTED")
           q == quiesce_queue(u)
           d == close_vdi(q)
           e == clear(d, "PAUSE_REQUESTED")
<1>1. pause(v) = q \/ pause(v) = set(e, "PAUSED")
  BY DEF pause
<1>2. Settled(v, u)
  BY FlagSettles DEF Flags
<1> HIDE DEF u
<1>3. Settled(u, q)
  BY <1>2, QuiesceSettles DEF Settled
<1> HIDE DEF q
<1>4. Settled(v, q)
  BY <1>2, <1>3, SettledTwice
<1>5. Settled(q, d)
  BY <1>3, CloseSettles DEF Settled
<1> HIDE DEF d
<1>6. Settled(d, e)
  BY <1>5, FlagSettles DEF Settled, Flags
<1> HIDE DEF e
<1>7. Settled(e, set(e, "PAUSED"))
  BY <1>6, FlagSettles DEF Settled, Flags
<1>8. Settled(v, e)
  BY <1>4, <1>5, <1>6, SettledTwice
<1> QED BY <1>1, <1>4, <1>7, <1>8, SettledTwice

\* tapdisk_vbd_check_state, its last part.
LEMMA CheckTailCarries ==
  ASSUME IInv, AInv, CheckTail
  PROVE  AInv'
<1> DEFINE u == after_quiesce(vbd)
           v == after_pause(u)
<1>1. srv.pc = "tail"
  BY DEF CheckTail
<1>2. srv \in SrvState /\ vbd \in VbdState /\ Anchored(vbd)
  BY <1>1, Idles DEF Sound, AInv
<1>3. \/ vbd' = close_vdi(v) /\ srv' = goto("exited")
      \/ vbd' = v /\ srv' = goto(srv.after)
  BY DEF CheckTail
<1>4. Settled(vbd, vbd)
  BY <1>2 DEF Settled, Steady
<1>5. Settled(vbd, u)
  BY <1>2, <1>4, QuiesceSettles DEF after_quiesce
<1> HIDE DEF u
<1>6. Settled(u, u)
  BY <1>5 DEF Settled, Steady
<1>7. Settled(u, v)
  BY <1>5, <1>6, PauseSettles DEF Settled, after_pause
<1> HIDE DEF v
<1>8. Settled(vbd, v)
  BY <1>5, <1>7, SettledTwice
<1>9. Settled(v, close_vdi(v))
  BY <1>8, CloseSettles DEF Settled
<1>10. Settled(vbd, vbd')
  BY <1>3, <1>8, <1>9, SettledTwice
<1>11. srv'.pc # "submit"
  BY <1>2, <1>3 DEF goto, SrvState
<1> QED BY <1>1, <1>10, <1>11, SettledStays

\* Signals.
LEMMA SignalsCarry ==
  ASSUME IInv, AInv, Sigint \/ Sigxfsz
  PROVE  AInv'
<1>1. srv.pc # "submit"
  BY DEF Sigint, Sigxfsz
<1>2. srv \in SrvState /\ vbd \in VbdState /\ Anchored(vbd)
  BY <1>1, Idles DEF Sound, AInv
<1>3. \/ vbd' = close_vdi(vbd) /\ srv' = goto("exited")
      \/ vbd' = set(vbd, "SHUTDOWN_REQUESTED") /\ srv' = srv
      \/ vbd' = set(quiesce_queue(vbd), "DEAD") /\ srv' = srv
  BY DEF Sigint, Sigxfsz, kill_queue
<1> DEFINE q == quiesce_queue(vbd)
<1>4. Settled(vbd, q)
  BY <1>2, QuiesceSettles
<1> HIDE DEF q
<1>5. Settled(q, set(q, "DEAD"))
  BY <1>4, FlagSettles DEF Settled, Flags
<1>6. Settled(vbd, set(vbd, "SHUTDOWN_REQUESTED")) /\ Settled(vbd, close_vdi(vbd))
  BY <1>2, FlagSettles, CloseSettles DEF Flags
<1>7. Settled(vbd, vbd')
  BY <1>3, <1>4, <1>5, <1>6, SettledTwice DEF q
<1>8. srv'.pc # "submit"
  BY <1>1, <1>2, <1>3 DEF goto, SrvState
<1> QED BY <1>1, <1>7, <1>8, SettledStays

\* The pause message and the end of the close message.
LEMMA PauseCarries ==
  ASSUME IInv, AInv, PauseMsg \/ PauseAgain \/ CloseImage
  PROVE  AInv'
<1>1. /\ srv.pc # "submit" /\ (srv' = srv \/ srv' = goto("events"))
      /\ vbd' = pause(vbd) \/ vbd' = close_vdi(vbd)
  BY DEF PauseMsg, PauseAgain, CloseImage
<1>2. srv \in SrvState /\ vbd \in VbdState /\ Anchored(vbd)
  BY <1>1, Idles DEF Sound, AInv
<1>3. Settled(vbd, vbd')
  BY <1>1, <1>2, PauseSettles, CloseSettles
<1>4. srv'.pc # "submit"
  BY <1>1, <1>2 DEF goto, SrvState
<1> QED BY <1>1, <1>3, <1>4, SettledStays

\* The close message.
LEMMA CloseMsgCarries ==
  ASSUME IInv, AInv, NEW type \in {"close", "force"}, CloseMsg(type)
  PROVE  AInv'
<1> DEFINE g == IF \E r \in Reqs : vbd.req[r].st = "queued" THEN "dead" ELSE "gone"
<1>1. srv.pc = "events" /\ srv' = goto("end") /\ vbd' = [vbd EXCEPT !.ring = g]
  BY DEF CloseMsg
<1>2. srv \in SrvState /\ vbd \in VbdState /\ Anchored(vbd)
  BY <1>1, Idles DEF Sound, AInv
<1>3. g \in {"up", "dead", "gone"}
  OBVIOUS
<1> HIDE DEF g
<1>4. vbd' \in VbdState /\ Steady(vbd, vbd') /\ SameHangings(vbd, vbd')
  BY <1>1, <1>2, <1>3 DEF VbdState, Steady, SameHangings
<1>5. Anchored(vbd')
  BY <1>2, <1>4, CalmAnchored DEF Steady
<1>6. srv'.pc # "submit"
  BY <1>1, <1>2 DEF goto, SrvState
<1> QED BY <1>1, <1>4, <1>5, <1>6, SettledStays DEF Settled

\* The other places of the loop.
LEMMA LoopCarries ==
  ASSUME IInv, AInv, PauseLater \/ CloseWaits \/ Iterate \/ Wake
  PROVE  AInv'
<1>1. /\ srv.pc # "submit" /\ vbd' = vbd
      /\ srv' = goto("events") \/ srv' = [goto("check") EXCEPT !.after = "kick"]
  BY DEF PauseLater, CloseWaits, Iterate, Wake
<1>2. srv \in SrvState
  BY DEF IInv
<1>3. srv'.pc # "submit"
  BY <1>1, <1>2 DEF goto, SrvState
<1> QED BY <1>1, <1>3, Undisturbed

\* Other images, and other flags, for a VBD.
LEMMA RebuiltSettles ==
  ASSUME NEW v \in VbdState, NEW i \in Seq(Images), NEW g \in SUBSET Images,
         NEW x \in Images \cup {NoImage}, NEW m \in {"DISABLED", "MIRROR", "STANDBY"},
         NEW h \in SUBSET {"SECONDARY", "STANDBY"},
         i \in {<<>>, <<"leaf", "base">>, <<"leaf", "second", "base">>}, v.retired # "leaf",
         Carrier(v) = "second" => h = {"SECONDARY"} /\ i = <<"leaf", "second", "base">> /\ m = "MIRROR",
         v.kind = "none" => g = {} /\ h = {}, v.treqs = {}
  PROVE  Settled(v, Rebuilt(v, i, g, x, v.retired, m, h))
<1> DEFINE y == v.retired
           w == Rebuilt(v, i, g, x, y, m, h)
<1>1. y \in Images \cup {NoImage}
  BY Fields
<1> HIDE DEF y
<1>2. w \in VbdState /\ Steady(v, w)
  BY <1>1 DEF Rebuilt, VbdState, Steady
<1>3. /\ w.images = i /\ w.ignore_enospc = g /\ w.retired = y /\ w.secondary_mode = m /\ w.flags = h
  BY DEF Rebuilt, VbdState
<1> HIDE DEF w
<1>4. Carrier(w) = Carrier(v) /\ w.treqs = {} /\ w.kind = v.kind
  BY <1>2 DEF Steady, Carrier
<1>5. Anchored(w)
  BY <1>3, <1>4 DEF Anchored, y
<1>6. Settled(v, w)
  BY <1>2, <1>5 DEF Settled
<1> QED BY <1>6 DEF w, y

\* tapdisk_vbd_open_vdi.
LEMMA OpenSettles ==
  ASSUME NEW v, Idle(v), v.images = <<>>, Anchored(v), NEW a \in BOOLEAN, Carrier(v) = "second" => a
  PROVE  Settled(v, open_vdi(v, a))
<1> DEFINE lb == <<"leaf", "base">>
           lsb == <<"leaf", "second", "base">>
           u == clear([v EXCEPT !.images = <<"leaf", "base">>], "CLOSED")
           w == open_vdi(v, a)
<1> SUFFICES Settled(v, w)
  OBVIOUS
<1>1. v \in VbdState /\ ChainOK(v) /\ v.treqs = {}
  BY DEF Idle
<1>2. v.retired = NoImage /\ v.ignore_enospc = {}
  BY <1>1 DEF ChainOK
<1>3. /\ v.secondary \in Images \cup {NoImage} /\ v.secondary_mode \in {"DISABLED", "MIRROR", "STANDBY"}
      /\ v.flags \in SUBSET {"SECONDARY", "STANDBY"}
  BY <1>1, Fields
<1>4. lb \in Seq(Images) /\ lsb \in Seq(Images)
  BY ChainElems
<1>5. /\ Carrier(v) = "second" => v.flags = {"SECONDARY"}
      /\ v.kind = "none" => v.flags = {}
  BY DEF Anchored
<1>6. v.retired # "leaf"
  BY <1>2, ConstantsAssumption DEF Images
<1>7. ASSUME NEW i \in {lb, lsb}, NEW g \in SUBSET Images, NEW x \in Images \cup {NoImage},
             NEW m \in {"DISABLED", "MIRROR", "STANDBY"},
             Carrier(v) = "second" => i = lsb /\ m = "MIRROR", v.kind = "none" => g = {},
             w = clear(Rebuilt(v, i, g, x, v.retired, m, v.flags), "CLOSED")
      PROVE  Settled(v, w)
  <2> DEFINE h == v.flags
             z == Rebuilt(v, i, g, x, v.retired, m, h)
  <2>1. /\ h \in SUBSET {"SECONDARY", "STANDBY"} /\ (v.kind = "none" => h = {})
        /\ Carrier(v) = "second" => h = {"SECONDARY"}
    BY <1>3, <1>5
  <2>2. w = clear(z, "CLOSED")
    BY <1>7
  <2>3. /\ i \in Seq(Images) /\ i \in {<<>>, <<"leaf", "base">>, <<"leaf", "second", "base">>}
        /\ Carrier(v) = "second" => i = <<"leaf", "second", "base">> /\ m = "MIRROR"
    BY <1>4, <1>7
  <2> HIDE DEF w, h
  <2>4. Settled(v, z)
    BY <1>1, <1>6, <1>7, <2>1, <2>3, RebuiltSettles
  <2> HIDE DEF z
  <2>5. Settled(z, w)
    BY <2>2, <2>4, FlagSettles DEF Settled, Flags
  <2> QED BY <2>4, <2>5, SettledTwice
<1>8. CASE "SECONDARY" \notin v.flags
  <2>1. w = u
    BY <1>8 DEF open_vdi
  <2>2. u = clear(Rebuilt(v, lb, v.ignore_enospc, v.secondary, v.retired, v.secondary_mode, v.flags),
                  "CLOSED")
    BY <1>1 DEF Rebuilt, VbdState, clear
  <2> HIDE DEF w, lb, lsb, u
  <2> QED BY <1>2, <1>3, <1>5, <1>7, <1>8, <2>1, <2>2
<1>9. CASE "SECONDARY" \in v.flags /\ ~a
  <2>1. w = disable_secondary(u)
    BY <1>9 DEF open_vdi, add_secondary
  <2>2. w = clear(Rebuilt(v, lb, v.ignore_enospc, NoImage, v.retired, "DISABLED", v.flags), "CLOSED")
    BY <1>1, <2>1 DEF Rebuilt, disable_secondary, VbdState, clear
  <2> HIDE DEF w, lb, lsb
  <2> QED BY <1>2, <1>3, <1>7, <1>9, <2>2
<1>10. CASE "SECONDARY" \in v.flags /\ a /\ "STANDBY" \in v.flags
  <2>1. u.flags = v.flags
    BY <1>1 DEF VbdState, clear
  <2>2. w = [u EXCEPT !.secondary = "second", !.ignore_enospc = {"leaf"}, !.secondary_mode = "STANDBY"]
    BY <1>10, <2>1 DEF open_vdi, add_secondary
  <2>3. w = clear(Rebuilt(v, lb, {"leaf"}, "second", v.retired, "STANDBY", v.flags), "CLOSED")
    BY <1>1, <2>2 DEF Rebuilt, VbdState, clear
  <2>4. Carrier(v) # "second" /\ v.kind # "none"
    BY <1>5, <1>10
  <2>5. {"leaf"} \in SUBSET Images /\ "second" \in Images
    BY DEF Images
  <2> HIDE DEF w, lb, lsb
  <2> QED BY <1>7, <2>3, <2>4, <2>5
<1>11. CASE "SECONDARY" \in v.flags /\ a /\ "STANDBY" \notin v.flags
  <2>1. u.flags = v.flags
    BY <1>1 DEF VbdState, clear
  <2>2. w = [u EXCEPT !.secondary = "second", !.ignore_enospc = {"leaf"}, !.secondary_mode = "MIRROR",
                      !.images = <<"leaf", "second", "base">>]
    BY <1>11, <2>1 DEF open_vdi, add_secondary
  <2>3. w = clear(Rebuilt(v, lsb, {"leaf"}, "second", v.retired, "MIRROR", v.flags), "CLOSED")
    BY <1>1, <2>2 DEF Rebuilt, VbdState, clear
  <2>4. v.kind # "none"
    BY <1>5, <1>11
  <2>5. {"leaf"} \in SUBSET Images /\ "second" \in Images
    BY DEF Images
  <2> HIDE DEF w, lb, lsb
  <2> QED BY <1>7, <2>3, <2>4, <2>5
<1> QED BY <1>8, <1>9, <1>10, <1>11

\* An attempt to open that fails, before the next one.
LEMMA OpenFailedSettles ==
  ASSUME NEW v, Idle(v), v.images = <<>>, Anchored(v), Carrier(v) # "second",
         NEW f \in OpenFails \ {"info"}
  PROVE  Settled(v, open_vdi_failed(v, f))
<1> DEFINE w == open_vdi_failed(v, f)
           x == IF f = "secondary" THEN NoImage ELSE v.secondary
           m == IF f = "secondary" THEN "DISABLED" ELSE v.secondary_mode
           i == v.images
           g == v.ignore_enospc
           h == {}
<1>1. v \in VbdState /\ ChainOK(v) /\ v.treqs = {}
  BY DEF Idle
<1>2. v.retired = NoImage /\ g = {} /\ v.retired # "leaf"
  BY <1>1, ConstantsAssumption DEF ChainOK, Images
<1>3. /\ x \in Images \cup {NoImage} /\ m \in {"DISABLED", "MIRROR", "STANDBY"}
      /\ i \in Seq(Images) /\ g \in SUBSET Images /\ h \in SUBSET {"SECONDARY", "STANDBY"}
      /\ i \in {<<>>, <<"leaf", "base">>, <<"leaf", "second", "base">>} /\ h = {}
  BY <1>1, Fields
<1>4. w = Rebuilt(v, i, g, x, v.retired, m, h)
  <2>1. CASE f = "secondary"
    BY <1>1, <2>1 DEF open_vdi_failed, disable_secondary, Rebuilt, VbdState
  <2>2. CASE f # "secondary"
    BY <1>1, <2>2 DEF open_vdi_failed, Rebuilt, VbdState
  <2> QED BY <2>1, <2>2
<1> HIDE DEF w, x, m, i, g, h
<1>5. Settled(v, w)
  BY <1>1, <1>2, <1>3, <1>4, RebuiltSettles
<1> QED BY <1>5 DEF w

\* What the attempts to open leave.  No attempt fails where the mirror keeps the writes.
LEMMA TriedSettles ==
  ASSUME WritesKept, NEW v, Sound(v, NoImage, 0), "PAUSED" \in v.state, Anchored(v), NEW u \in Tried(v)
  PROVE  Settled(v, u) /\ Idle(u) /\ u.images = <<>>
<1>1. Idle(v) /\ v.images = <<>> /\ Idle(u) /\ u.images = <<>>
  BY PausedIdle
<1>2. u = v \/ \E f \in OpenFails \ {"info"} : u = open_vdi_failed(v, f)
  BY DEF Tried
<1>3. CASE u = v
  BY <1>1, <1>3 DEF Idle, Settled, Steady
<1>4. CASE \E f \in OpenFails \ {"info"} : u = open_vdi_failed(v, f)
  <2>1. OpenFails \ {"info"} # {}
    BY <1>4
  <2>2. Carrier(v) # "second"
    BY <2>1 DEF WritesKept, Carrier
  <2> QED BY <1>1, <1>4, <2>2, OpenFailedSettles
<1> QED BY <1>1, <1>2, <1>3, <1>4

\* tapdisk_vbd_resume.
LEMMA ResumeCarries ==
  ASSUME WritesKept, IInv, AInv, Resume
  PROVE  AInv'
<1>1. /\ srv.pc = "events" /\ srv' = [goto("check") EXCEPT !.after = "events"]
      /\ "PAUSED" \in vbd.state
  BY DEF Resume
<1>2. srv \in SrvState /\ Sound(vbd, NoImage, 0) /\ Anchored(vbd)
  BY <1>1, Idles DEF AInv
<1>3. PICK v \in Tried(vbd), a \in Attachments(vbd) : vbd' = resumed(v, a)
  BY DEF Resume
<1>4. Settled(vbd, v) /\ Idle(v) /\ v.images = <<>>
  BY <1>1, <1>2, TriedSettles
<1>5. a \in BOOLEAN /\ (Carrier(v) = "second" => a)
  BY <1>3, <1>4 DEF Attachments, Carrier, Settled, Steady
<1> DEFINE o == open_vdi(v, a)
           s1 == clear(o, "QUIESCED")
           s2 == clear(s1, "QUIESCE_REQUESTED")
           s3 == clear(s2, "RESUME_FAILED")
           s4 == clear(s3, "PAUSED")
           s5 == clear(s4, "PAUSE_REQUESTED")
<1>6. vbd' = s5
  BY <1>3 DEF resumed, start_queue
<1>7. Settled(v, o)
  BY <1>4, <1>5, OpenSettles DEF Settled
<1>8. ASSUME NEW x, Settled(vbd, x), NEW f \in Flags
      PROVE  Settled(vbd, clear(x, f))
  <2>1. Settled(x, clear(x, f))
    BY <1>8, FlagSettles DEF Settled
  <2> QED BY <1>8, <2>1, SettledTwice
<1>9. {"QUIESCED", "QUIESCE_REQUESTED", "RESUME_FAILED", "PAUSED", "PAUSE_REQUESTED"} \subseteq Flags
  BY DEF Flags
<1> HIDE DEF o
<1>10. Settled(vbd, o)
  BY <1>4, <1>7, SettledTwice
<1>11. Settled(vbd, s1)
  BY <1>8, <1>9, <1>10
<1> HIDE DEF s1
<1>12. Settled(vbd, s2)
  BY <1>8, <1>9, <1>11
<1> HIDE DEF s2
<1>13. Settled(vbd, s3)
  BY <1>8, <1>9, <1>12
<1> HIDE DEF s3
<1>14. Settled(vbd, s4)
  BY <1>8, <1>9, <1>13
<1> HIDE DEF s4
<1>15. Settled(vbd, s5)
  BY <1>8, <1>9, <1>14
<1>16. srv'.pc # "submit"
  BY <1>1, <1>2 DEF goto, SrvState
<1> HIDE DEF s5
<1> QED BY <1>1, <1>6, <1>15, <1>16, SettledStays

\* tapdisk_vbd_resume that fails.
LEMMA ResumeFailsCarries ==
  ASSUME WritesKept, IInv, AInv, ResumeFails
  PROVE  AInv'
<1>1. srv.pc = "events" /\ srv' = srv /\ "PAUSED" \in vbd.state
  BY DEF ResumeFails
<1>2. Sound(vbd, NoImage, 0) /\ Anchored(vbd)
  BY <1>1, Idles DEF AInv
<1>3. PICK v : /\ v \in Tried(vbd) \/ v = open_vdi(vbd, TRUE)
               /\ vbd' = close_vdi(set(v, "RESUME_FAILED"))
  BY DEF ResumeFails
<1>4. Idle(vbd) /\ vbd.images = <<>>
  BY <1>1, <1>2, PausedIdle
<1>5. Settled(vbd, v)
  BY <1>1, <1>2, <1>3, <1>4, TriedSettles, OpenSettles
<1> DEFINE u == set(v, "RESUME_FAILED")
<1>6. Settled(v, u)
  BY <1>5, FlagSettles DEF Settled, Flags
<1>7. vbd' = close_vdi(u)
  BY <1>3
<1> HIDE DEF u
<1>8. Settled(u, vbd')
  BY <1>6, <1>7, CloseSettles DEF Settled
<1>9. Settled(vbd, vbd')
  BY <1>5, <1>6, <1>8, SettledTwice
<1> QED BY <1>1, <1>9, SettledStays

-----------------------------------------------------------------------------
(* The theorem *)

\* A VBD that has just been opened has promised nothing.
LEMMA InitCarries ==
  ASSUME Init
  PROVE  AInv
<1>1. PICK k \in Kinds : vbd = open_vdi(Unopened(k), TRUE)
  BY DEF Init, Unopened
<1>2. srv.pc = "events"
  BY DEF Init
<1> DEFINE v == Unopened(k)
<1>3. /\ Idle(v) /\ v.kind = k /\ v.images = <<>> /\ v.ignore_enospc = {} /\ v.retired = NoImage
      /\ v.treqs = {} /\ \A r \in Reqs : v.req[r].st = "idle"
  BY UnopenedIdle
<1>4. v.flags = {} <=> k = "none"
  BY DEF Unopened
<1>5. k = "mirror" => v.flags = {"SECONDARY"}
  BY DEF Unopened
<1> HIDE DEF v
<1>6. Anchored(v)
  <2>1. NoImage # "leaf" /\ <<"leaf", "second", "base">> # <<>>
    BY ConstantsAssumption DEF Images
  <2> QED BY <1>3, <1>4, <1>5, <2>1 DEF Anchored, Carrier
<1>7. Settled(v, vbd)
  BY <1>1, <1>3, <1>6, OpenSettles DEF v
<1>8. \A r \in Reqs : ~Attempted(vbd, r)
  BY <1>3, <1>7 DEF Settled, Steady, Attempted
<1> QED BY <1>2, <1>7, <1>8 DEF AInv, Acks, Aimed, Settled

\* Every step keeps the promise.
LEMMA NextCarries ==
  ASSUME WritesKept, IInv, AInv, [Next]_vars
  PROVE  AInv'
<1>1. CASE ServerStep
  BY <1>1, SubmitIovCarries, EndIssueCarries, ReissueCarries, IssueNewCarries, CheckStateCarries,
     CheckTailCarries, KickCarries, RecheckStateCarries, LoopCarries, PauseCarries
     DEF ServerStep
<1>2. CASE Wake
  BY <1>2, LoopCarries
<1>3. ASSUME NEW r \in Reqs, (\E op \in ReqOps : QueueRequest(r, op)) \/ Expire(r) \/ BackedOff(r)
      PROVE  AInv'
  BY <1>3, QueueRequestCarries, TimeCarries
<1>4. ASSUME NEW t \in vbd.treqs, CompleteTreq(t) \/ ForwardTreq(t)
      PROVE  AInv'
  BY <1>4, CompleteTreqCarries, ForwardTreqCarries
<1>5. CASE Sigint \/ Sigxfsz
  BY <1>5, SignalsCarry
<1>6. CASE PauseMsg \/ Resume \/ ResumeFails
  BY <1>6, PauseCarries, ResumeCarries, ResumeFailsCarries
<1>7. ASSUME NEW type \in {"close", "force"}, CloseMsg(type)
      PROVE  AInv'
  BY <1>7, CloseMsgCarries
<1>8. CASE UNCHANGED vars
  BY <1>8 DEF vars, AInv
<1> QED BY <1>1, <1>2, <1>3, <1>4, <1>5, <1>6, <1>7, <1>8 DEF Next

\* An answered request keeps nothing with a driver, so what is carried was carried out.
LEMMA AckedHolds ==
  ASSUME IInv, AInv
  PROVE  AckedServed
<1> SUFFICES ASSUME NEW r \in Reqs, vbd.req[r].st = "answered", vbd.req[r].error = "ok",
                    NEW i \in 1 .. Iovs
             PROVE  \E t \in vbd.served :
                       /\ t.req = r /\ t.iov = i
                       /\ vbd.req[r].op = "write" /\ vbd.images # <<>> =>
                            t.image \in Elems(vbd.images) /\ ~reads_through(vbd, t.image)
  BY DEF AckedServed
<1>1. Sound(vbd, srv.cur, 0) /\ Queues(vbd) /\ Waiting(vbd, srv.cur)
  BY DEF IInv, Sound
<1>2. r \notin Elems(vbd.new) /\ r \notin vbd.pending
  BY <1>1 DEF Queues
<1>3. Held(vbd, r) = {} /\ r # srv.cur
  BY <1>1, <1>2 DEF Waiting
<1>4. Carried(vbd, r, i)
  BY <1>2, <1>3 DEF AInv, Acks, Attempted
<1>5. PICK t \in vbd.served : t.req = r /\ t.iov = i /\ Counts(vbd, t)
  BY <1>3, <1>4 DEF Carried, Held
<1>6. ASSUME vbd.req[r].op = "write", vbd.images # <<>>
      PROVE  t.image \in Elems(vbd.images) /\ ~reads_through(vbd, t.image)
  <2>1. t.image = Carrier(vbd) /\ Anchored(vbd)
    BY <1>5, <1>6 DEF Counts, AInv
  <2>2. CASE Carrier(vbd) = "second"
    <3>1. vbd.images \in {<<"leaf", "second", "base">>, <<"second", "base">>}
      BY <1>6, <2>1, <2>2 DEF Anchored
    <3>2. "second" \in Elems(vbd.images)
      BY <3>1, ChainElems
    <3>3. vbd.kind = "mirror"
      BY <2>2 DEF Carrier
    <3> QED BY <2>1, <2>2, <3>2, <3>3 DEF reads_through
  <2>3. CASE Carrier(vbd) = "leaf"
    <3>1. vbd.images \in {<<"leaf", "base">>, <<"leaf", "second", "base">>}
      BY <1>6, <2>1, <2>3 DEF Anchored
    <3>2. "leaf" \in Elems(vbd.images)
      BY <3>1, ChainElems
    <3> QED BY <2>1, <2>3, <3>2 DEF reads_through
  <2> QED BY <2>2, <2>3 DEF Carrier
<1> QED BY <1>5, <1>6

\* An answer without error is true, whatever the drivers answer, in whatever order, and
\* whenever the VBD is paused, resumed or closed: each segment of a read was delivered, each
\* segment of a write is in an image of the chain that serves reads
\* (tapdisk_vbd_complete_td_request, tapdisk_vbd_issue_request).
THEOREM AnswersServed ==
  ASSUME WritesKept
  PROVE  Spec => []AckedServed
<1>1. Init => IInv /\ AInv
  BY InitOK, InitCarries
<1>2. IInv /\ AInv /\ [Next]_vars => IInv' /\ AInv'
  BY NextOK, NextCarries
<1>3. IInv /\ AInv => AckedServed
  BY AckedHolds
<1> QED BY <1>1, <1>2, <1>3, PTL DEF Spec
============================================================================
