------------------------ MODULE ChangedBlocksProofs ------------------------
(* Changed-block tracking: no change goes unreported, for every number of   *)
(* logs, every size of the disk and every number of writes, runs of the     *)
(* tool and deaths.                                                         *)
EXTENDS ChangedBlocks, TLAPS

\* What block-log.c and cbt-util.c leave to their callers: a log is not worked on by
\* the tool while tapdisk has it open, it is opened for a disk it is large enough
\* for, and the writes of the tool that does not die succeed.
ToolStackUse ==
    /\ PerByte \in Nat \ {0} /\ FirstSize \in Nat \ {0} /\ MaxSize \in Nat
    /\ NoLog \notin Logs
    /\ ~Racing /\ ~ShortLog /\ ~WriteFails

-----------------------------------------------------------------------------
(* The inductive invariant. *)

Tools ==
    {Idle} \cup [cmd : {"create"}, on : Logs]
           \cup [cmd : {"set"}, on : Logs, size : Nat, bits : SUBSET Nat, wrote : BOOLEAN]
           \cup [cmd : {"coalesce"}, on : Logs, from : Logs, bits : SUBSET Nat]

Types ==
    /\ log \in [Logs -> [size : Nat, len : Nat, bits : SUBSET Nat]]
    /\ disk \in Nat \ {0} /\ open \in Logs \cup {NoLog} /\ flight \in SUBSET Nat
    /\ tool \in Tools /\ made \in SUBSET Logs /\ changed \in [Logs -> SUBSET Nat]

\* The driver: its log is one that was created, it is as large as the disk, and the
\* bits of the writes under way are set in it.
DriverSound ==
    open # NoLog => /\ open \in made /\ log[open].size >= disk
                    /\ flight \subseteq Reported(open)

\* The tool: what it holds in memory has the bits of every change, and nothing past
\* the bitmap that the metadata in the file still announce.
CreateSound == tool.cmd = "create" => tool.on \notin made /\ log[tool.on].size > 0

SetSound ==
    tool.cmd = "set" =>
        /\ tool.on \in made /\ tool.on # open /\ tool.size >= log[tool.on].size
        /\ changed[tool.on] \subseteq tool.bits
        /\ tool.bits \subseteq Bits(BitmapSize(log[tool.on].size))
        /\ tool.wrote => log[tool.on].len = BitmapSize(tool.size)

CoalesceSound ==
    tool.cmd = "coalesce" =>
        /\ {tool.on, tool.from} \subseteq made /\ open \notin {tool.on, tool.from}
        /\ changed[tool.on] \cup changed[tool.from]
              \subseteq tool.bits \cap Bits(BitmapSize(log[tool.on].size))

IInv ==
    /\ Types /\ ChangesLogged
    /\ DriverSound /\ CreateSound /\ SetSound /\ CoalesceSound
    /\ open = NoLog => flight = {}

-----------------------------------------------------------------------------
(* The geometry of a bitmap. *)

\* bitmap_size rounds up: the bitmap has a bit for every block.
LEMMA BitmapCovers ==
  ASSUME ToolStackUse, NEW size \in Nat
  PROVE  /\ BitmapSize(size) \in Nat /\ 0 .. size - 1 \subseteq Bits(BitmapSize(size))
<1>1. PerByte \in Nat \ {0}
  BY DEF ToolStackUse
<1> DEFINE a == size + PerByte - 1
           q == a \div PerByte
<1>2. a \in Nat
  BY <1>1
<1>3. q \in Nat /\ a = PerByte * q + (a % PerByte) /\ a % PerByte \in 0 .. PerByte - 1
  BY <1>1, <1>2
<1> HIDE DEF q
<1>4. size <= PerByte * q /\ PerByte * q = q * PerByte
  BY <1>1, <1>3
<1> QED BY <1>3, <1>4, <1>1 DEF BitmapSize, Bits, q

\* A larger disk has no smaller bitmap.
LEMMA BitmapMonotone ==
  ASSUME ToolStackUse, NEW m \in Nat, NEW n \in Nat, m <= n
  PROVE  BitmapSize(m) <= BitmapSize(n)
<1>1. PerByte \in Nat \ {0}
  BY DEF ToolStackUse
<1> DEFINE a == m + PerByte - 1
           b == n + PerByte - 1
           p == a \div PerByte
           q == b \div PerByte
<1>2. a \in Nat /\ b \in Nat /\ a <= b
  BY <1>1
<1>3. p \in Nat /\ a = PerByte * p + (a % PerByte) /\ a % PerByte \in 0 .. PerByte - 1
  BY <1>1, <1>2
<1>4. q \in Nat /\ b = PerByte * q + (b % PerByte) /\ b % PerByte \in 0 .. PerByte - 1
  BY <1>1, <1>2
<1> HIDE DEF p, q
<1>5. ASSUME p > q PROVE FALSE
  <2>1. PICK d \in Nat : p = q + 1 + d
    <3>1. p - q - 1 \in Nat BY <1>3, <1>4, <1>5
    <3> QED BY <3>1, <1>3, <1>4
  <2>2. PerByte * p = PerByte * q + PerByte + PerByte * d /\ PerByte * d \in Nat
    BY <1>1, <1>4, <2>1
  <2> QED BY <1>1, <1>2, <1>3, <1>4, <2>2
<1> QED BY <1>3, <1>4, <1>5 DEF BitmapSize, p, q

\* The bits of a smaller bitmap are among those of a larger one.
LEMMA BitsMonotone ==
  ASSUME ToolStackUse, NEW m \in Nat, NEW n \in Nat, m <= n
  PROVE  Bits(m) \subseteq Bits(n)
<1>1. PerByte \in Nat \ {0}
  BY DEF ToolStackUse
<1>2. PICK d \in Nat : n = m + d
  <2>1. n - m \in Nat OBVIOUS
  <2> QED BY <2>1
<1>3. n * PerByte = m * PerByte + d * PerByte /\ d * PerByte \in Nat /\ m * PerByte \in Nat
  BY <1>1, <1>2
<1> QED BY <1>3 DEF Bits

-----------------------------------------------------------------------------
(* The invariant holds at first and is kept by every step. *)

LEMMA InitIInv ==
  ASSUME ToolStackUse, Init
  PROVE  IInv
<1> USE DEF Init, ToolStackUse, Idle
<1>1. Types
  BY DEF Types, Tools
<1>2. ChangesLogged
  BY DEF ChangesLogged
<1> QED BY <1>1, <1>2 DEF IInv, DriverSound, CreateSound, SetSound, CoalesceSound

LEMMA DriverSteps ==
  ASSUME ToolStackUse, IInv,
         \/ \E l \in Logs : TdlogOpen(l)
         \/ \E first \in 0 .. disk - 1 : \E last \in first .. disk - 1 : TdlogQueueWrite(first, last)
         \/ \E b \in flight : WriteLands(b)
         \/ TdlogClose \/ TapdiskDies \/ DiskGrows
  PROVE  IInv'
<1> USE DEF ToolStackUse
<1>1. ASSUME NEW l \in Logs, TdlogOpen(l) PROVE IInv'
  BY <1>1 DEF TdlogOpen, IInv, Types, ChangesLogged, DriverSound, CreateSound, SetSound,
              CoalesceSound, Reported, Readable, Idle
<1>2. ASSUME NEW first \in 0 .. disk - 1, NEW last \in first .. disk - 1,
             TdlogQueueWrite(first, last)
      PROVE  IInv'
  <2>1. /\ open \in made /\ open \in Logs /\ log[open] \in [size : Nat, len : Nat, bits : SUBSET Nat]
        /\ log[open].size >= disk /\ disk \in Nat /\ log[open].len >= BitmapSize(log[open].size)
    BY <1>2 DEF TdlogQueueWrite, IInv, Types, DriverSound, ChangesLogged, Readable
  <2>2. first .. last \subseteq 0 .. log[open].size - 1 /\ first .. last \in SUBSET Nat
    BY <2>1
  <2>3. /\ BitmapSize(log[open].size) \in Nat
        /\ 0 .. log[open].size - 1 \subseteq Bits(BitmapSize(log[open].size))
    BY <2>1, BitmapCovers
  <2>4. Bits(BitmapSize(log[open].size)) \subseteq Bits(log[open].len)
    BY <2>1, <2>3, BitsMonotone
  <2>5. log' = [log EXCEPT ![open].bits = @ \cup (first .. last)]
    BY <1>2, <2>2, <2>3, <2>4 DEF TdlogQueueWrite
  <2>6. first .. last \subseteq Bits(BitmapSize(log[open].size))
    BY <2>2, <2>3
  <2> HIDE DEF Bits
  <2> DEFINE new == first .. last
  <2>7. /\ new \in SUBSET Nat /\ new \subseteq Bits(BitmapSize(log[open].size))
        /\ log' = [log EXCEPT ![open].bits = @ \cup new] /\ flight' = flight \cup new
        /\ UNCHANGED <<disk, open, tool, made, changed>>
    BY <1>2, <2>2, <2>5, <2>6 DEF TdlogQueueWrite
  <2> HIDE DEF new
  <2>8. Types'
    BY <2>1, <2>7 DEF IInv, Types
  <2>9. ChangesLogged'
    BY <2>1, <2>7 DEF IInv, Types, ChangesLogged, Reported, Readable
  <2> QED BY <2>1, <2>7, <2>8, <2>9 DEF IInv, Types, DriverSound, CreateSound, SetSound,
                                        CoalesceSound, Reported
<1>3. ASSUME NEW b \in flight, WriteLands(b) PROVE IInv'
  BY <1>3 DEF WriteLands, IInv, Types, ChangesLogged, DriverSound, CreateSound, SetSound,
              CoalesceSound, Reported, Readable
<1>4. ASSUME TdlogClose PROVE IInv'
  BY <1>4 DEF TdlogClose, IInv, Types, ChangesLogged, DriverSound, CreateSound, SetSound,
              CoalesceSound, Reported, Readable
<1>5. ASSUME TapdiskDies PROVE IInv'
  <2>1. PICK done \in SUBSET flight : changed' = [changed EXCEPT ![open] = @ \cup done]
    BY <1>5 DEF TapdiskDies
  <2>2. /\ open # NoLog /\ open' = NoLog /\ flight' = {}
        /\ UNCHANGED <<log, disk, tool, made, writes, tools>>
    BY <1>5 DEF TapdiskDies
  <2> QED BY <2>1, <2>2 DEF IInv, Types, ChangesLogged, DriverSound, CreateSound, SetSound,
                            CoalesceSound, Reported, Readable
<1>6. ASSUME DiskGrows PROVE IInv'
  BY <1>6 DEF DiskGrows, IInv, Types, ChangesLogged, DriverSound, CreateSound, SetSound,
              CoalesceSound, Reported, Readable
<1> QED BY <1>1, <1>2, <1>3, <1>4, <1>5, <1>6

LEMMA ToolSteps ==
  ASSUME ToolStackUse, IInv,
         \/ \E l \in Logs : Create(l)
         \/ CreateBitmap \/ SetBitmap \/ SetMetadata \/ CoalesceBitmap \/ ToolDies
         \/ \E l \in Logs, size \in 1 .. MaxSize : Set(l, size)
         \/ \E parent, child \in Logs : Coalesce(parent, child)
  PROVE  IInv'
<1> USE DEF ToolStackUse
<1>1. ASSUME NEW l \in Logs, Create(l) PROVE IInv'
  <2>1. Types'
    BY <1>1 DEF Create, IInv, Types, Tools
  <2> QED BY <1>1, <2>1 DEF Create, IInv, Types, ChangesLogged, DriverSound, CreateSound,
             SetSound, CoalesceSound, Reported, Readable
<1>2. ASSUME CreateBitmap PROVE IInv'
  <2>1. /\ tool.cmd = "create" /\ tool.on \in Logs /\ tool.on \notin made
        /\ log[tool.on] \in [size : Nat, len : Nat, bits : SUBSET Nat] /\ log[tool.on].size > 0
    BY <1>2 DEF CreateBitmap, IInv, Types, Tools, Idle, CreateSound
  <2>2. BitmapSize(log[tool.on].size) \in Nat
    BY <2>1, BitmapCovers
  <2>3. Types'
    BY <1>2, <2>1, <2>2 DEF CreateBitmap, IInv, Types, Tools
  <2> QED BY <1>2, <2>1, <2>2, <2>3
          DEF CreateBitmap, Idle, IInv, Types, ChangesLogged, DriverSound, CreateSound,
              SetSound, CoalesceSound, Reported, Readable
<1>3. ASSUME SetBitmap PROVE IInv'
  <2>1. /\ tool.cmd = "set" /\ tool \in [cmd : {"set"}, on : Logs, size : Nat,
                                        bits : SUBSET Nat, wrote : BOOLEAN]
        /\ log[tool.on] \in [size : Nat, len : Nat, bits : SUBSET Nat]
    BY <1>3 DEF SetBitmap, IInv, Types, Tools, Idle
  <2>2. BitmapSize(tool.size) \in Nat /\ BitmapSize(log[tool.on].size) <= BitmapSize(tool.size)
    BY <2>1, BitmapCovers, BitmapMonotone DEF IInv, SetSound
  <2>3. BitmapSize(log[tool.on].size) \in Nat
    BY <2>1, BitmapCovers
  <2>4. /\ log' = [log EXCEPT ![tool.on] = [size |-> log[tool.on].size,
                                           len |-> BitmapSize(tool.size), bits |-> tool.bits]]
        /\ tool' = [cmd |-> "set", on |-> tool.on, size |-> tool.size, bits |-> tool.bits,
                    wrote |-> TRUE]
        /\ UNCHANGED <<disk, open, flight, made, changed>>
    BY <1>3, <2>1, ZenonT(40) DEF SetBitmap, IInv, Types
  <2>5. Types'
    BY <2>1, <2>2, <2>4 DEF IInv, Types, Tools
  <2>6. ChangesLogged'
    BY <2>1, <2>2, <2>3, <2>4 DEF IInv, Types, ChangesLogged, SetSound, Reported, Readable
  <2> QED BY <2>1, <2>2, <2>3, <2>4, <2>5, <2>6
          DEF IInv, Types, DriverSound, CreateSound, SetSound, CoalesceSound, Reported
<1>4. ASSUME SetMetadata PROVE IInv'
  <2>1. /\ tool.cmd = "set" /\ tool \in [cmd : {"set"}, on : Logs, size : Nat,
                                        bits : SUBSET Nat, wrote : BOOLEAN]
        /\ log[tool.on] \in [size : Nat, len : Nat, bits : SUBSET Nat]
    BY <1>4 DEF SetMetadata, IInv, Types, Tools, Idle
  <2>2. BitmapSize(tool.size) \in Nat /\ BitmapSize(log[tool.on].size) <= BitmapSize(tool.size)
    BY <2>1, BitmapCovers, BitmapMonotone DEF IInv, SetSound
  <2>3. Bits(BitmapSize(log[tool.on].size)) \subseteq Bits(BitmapSize(tool.size))
    BY <2>1, <2>2, BitmapCovers, BitsMonotone
  <2>4. Types'
    BY <1>4, <2>1, <2>2 DEF SetMetadata, IInv, Types, Tools
  <2> QED BY <1>4, <2>1, <2>2, <2>3, <2>4
          DEF SetMetadata, IInv, Types, ChangesLogged, DriverSound, CreateSound, Idle,
              SetSound, CoalesceSound, Reported, Readable
<1>5. ASSUME CoalesceBitmap PROVE IInv'
  <2>1. /\ tool.cmd = "coalesce" /\ tool \in [cmd : {"coalesce"}, on : Logs, from : Logs,
                                             bits : SUBSET Nat]
        /\ log[tool.on] \in [size : Nat, len : Nat, bits : SUBSET Nat]
    BY <1>5 DEF CoalesceBitmap, IInv, Types, Tools, Idle
  <2>2. Types'
    BY <1>5, <2>1 DEF CoalesceBitmap, IInv, Types, Tools
  <2>3. /\ log' = [log EXCEPT ![tool.on].bits = tool.bits]
        /\ changed' = [changed EXCEPT ![tool.on] = @ \cup changed[tool.from]]
        /\ tool' = Idle /\ UNCHANGED <<disk, open, flight, made>>
    BY <1>5 DEF CoalesceBitmap
  <2>4. ChangesLogged'
    BY <2>1, <2>3 DEF IInv, Types, ChangesLogged, CoalesceSound, Reported, Readable
  <2> QED BY <2>1, <2>2, <2>3, <2>4
          DEF IInv, Types, Idle, DriverSound, CreateSound, SetSound, CoalesceSound, Reported
<1>6. ASSUME ToolDies PROVE IInv'
  BY <1>6 DEF ToolDies, IInv, Types, Tools, ChangesLogged, DriverSound, CreateSound, Idle,
              SetSound, CoalesceSound, Reported, Readable
<1>7. ASSUME NEW l \in Logs, NEW size \in 1 .. MaxSize, Set(l, size) PROVE IInv'
  <2>1. Types'
    BY <1>7 DEF Set, IInv, Types, Tools
  <2> QED BY <1>7, <2>1 DEF Set, Unused, IInv, Types, ChangesLogged, DriverSound, CreateSound,
             SetSound, CoalesceSound, Reported, Readable
<1>8. ASSUME NEW parent \in Logs, NEW child \in Logs, Coalesce(parent, child) PROVE IInv'
  <2>1. Types'
    BY <1>8 DEF Coalesce, IInv, Types, Tools
  <2>2. Bits(BitmapSize(log[parent].size)) \subseteq Bits(BitmapSize(log[child].size))
    BY <1>8, BitmapCovers, BitsMonotone DEF Coalesce, IInv, Types
  <2> QED BY <1>8, <2>1, <2>2
          DEF Coalesce, Unused, IInv, Types, ChangesLogged, DriverSound, CreateSound,
              SetSound, CoalesceSound, Reported, Readable
<1> QED BY <1>1, <1>2, <1>3, <1>4, <1>5, <1>6, <1>7, <1>8

LEMMA NextIInv ==
  ASSUME ToolStackUse, IInv, [Next]_vars
  PROVE  IInv'
<1>1. CASE UNCHANGED vars
  BY <1>1 DEF vars, IInv, Types, ChangesLogged, DriverSound, CreateSound, SetSound,
              CoalesceSound, Reported, Readable
<1> QED BY <1>1, DriverSteps, ToolSteps DEF Next

\* cbt-util get reports every block that was written while a log, or a log that was
\* merged into it, was in use, and it can always read the log: whenever tapdisk or
\* the tool died, for any number of logs, blocks, writes and runs of the tool.
THEOREM ChangesAlwaysLogged ==
  ASSUME ToolStackUse
  PROVE  Spec => []ChangesLogged
<1>1. Init => IInv
  BY InitIInv
<1>2. IInv /\ [Next]_vars => IInv'
  BY NextIInv
<1>3. IInv => ChangesLogged
  BY DEF IInv
<1> QED BY <1>1, <1>2, <1>3, PTL DEF Spec
=============================================================================
