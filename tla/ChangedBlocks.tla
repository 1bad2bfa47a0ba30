--------------------------- MODULE ChangedBlocks ---------------------------
(***************************************************************************)
(* Changed-block tracking: the driver that logs which blocks of a disk are *)
(* written (drivers/block-log.c) and the tool that makes, resizes and      *)
(* merges the logs (cbt/cbt-util.c).                                       *)
(*                                                                         *)
(* A log is a file with a record of metadata and a bitmap with one bit for *)
(* every block of the disk.  The driver maps the file and sets bits in     *)
(* place; the tool reads the file, works on its copy and writes it back,   *)
(* and may die between two of its writes.                                  *)
(***************************************************************************)
EXTENDS Integers, FiniteSets

CONSTANTS
    Logs,        \* the log files
    PerByte,     \* the blocks a byte of the bitmap stands for
    FirstSize,   \* the blocks of the disk at first
    MaxSize,     \* bound on them
    MaxWrites,   \* bound on the guest's writes
    MaxTools,    \* bound on the runs of the tool
    MaxDeaths,   \* bound on the deaths of tapdisk and of the tool
    Racing,      \* whether the tool may be run on a log that tapdisk has open
    ShortLog,    \* whether a log may be opened that is smaller than the disk
    WriteFails   \* whether a write of the tool may fail

NoLog == "none"

VARIABLES
    log,      \* the files: size is the metadata's, len the bytes of the bitmap
    disk,     \* the size of the disk
    open,     \* the log the driver has mapped
    flight,   \* the blocks of the writes it has forwarded
    tool,     \* the run of cbt-util under way
    made,     \* the logs that the tool has created
    changed,  \* for each log, the blocks written since it was created, and those of
              \* the logs merged into it
    writes, tools, deaths

vars == <<log, disk, open, flight, tool, made, changed, writes, tools, deaths>>

Idle == [cmd |-> "none"]

Init ==
    /\ log = [l \in Logs |-> [size |-> 0, len |-> 0, bits |-> {}]]
    /\ disk = FirstSize /\ open = NoLog /\ flight = {} /\ tool = Idle /\ made = {}
    /\ changed = [l \in Logs |-> {}] /\ writes = 0 /\ tools = 0 /\ deaths = 0

\* bitmap_size: bytes, of a size in blocks.
BitmapSize(size) == (size + PerByte - 1) \div PerByte

\* The blocks whose bits a bitmap of that many bytes has.
Bits(len) == 0 .. len * PerByte - 1

-----------------------------------------------------------------------------
(* The driver. *)

\* tdlog_open and bitmap_init.
TdlogOpen(l) ==
    /\ open = NoLog /\ l \in made /\ (~Racing => tool = Idle)
    /\ ShortLog \/ log[l].size >= disk
    /\ open' = l
    /\ UNCHANGED <<log, disk, flight, tool, made, changed, writes, tools, deaths>>

\* Mutant: the block of the last sector is left out.
TdlogQueueWrite_mutant(first, last) ==
    /\ open # NoLog /\ writes < MaxWrites /\ writes' = writes + 1
    /\ log' = [log EXCEPT ![open].bits = @ \cup ((first .. last - 1) \cap Bits(log[open].len))]
    /\ flight' = flight \cup (first .. last)
    /\ UNCHANGED <<disk, open, tool, made, changed, tools, deaths>>

\* tdlog_queue_write: get_bit_for_sec, bitmap_set and td_forward_request.  A bit past
\* the end of the file is not stored.
TdlogQueueWrite(first, last) ==
    /\ open # NoLog /\ writes < MaxWrites /\ writes' = writes + 1
    /\ log' = [log EXCEPT ![open].bits = @ \cup ((first .. last) \cap Bits(log[open].len))]
    /\ flight' = flight \cup (first .. last)
    /\ UNCHANGED <<disk, open, tool, made, changed, tools, deaths>>

\* The image below writes a block.
WriteLands(b) ==
    /\ flight' = flight \ {b} /\ changed' = [changed EXCEPT ![open] = @ \cup {b}]
    /\ UNCHANGED <<log, disk, open, tool, made, writes, tools, deaths>>

\* tdlog_close and bitmap_free, once the writes have ended.
TdlogClose ==
    /\ open # NoLog /\ flight = {} /\ open' = NoLog
    /\ UNCHANGED <<log, disk, flight, tool, made, changed, writes, tools, deaths>>

\* tapdisk dies: some of the forwarded writes are done; the mapped file keeps its bits.
TapdiskDies ==
    /\ open # NoLog /\ deaths < MaxDeaths /\ deaths' = deaths + 1
    /\ open' = NoLog /\ flight' = {}
    /\ \E done \in SUBSET flight : changed' = [changed EXCEPT ![open] = @ \cup done]
    /\ UNCHANGED <<log, disk, tool, made, writes, tools>>

\* The disk grows while it is not in use.
DiskGrows ==
    /\ open = NoLog /\ disk < MaxSize /\ disk' = disk + 1
    /\ UNCHANGED <<log, open, flight, tool, made, changed, writes, tools, deaths>>

-----------------------------------------------------------------------------
(* The tool. *)

Starts == tool = Idle /\ tools < MaxTools /\ tools' = tools + 1

Unused(l) == Racing \/ open # l

\* read_cbt_metadata and read_cbt_bitmap succeed.
Readable(l) == log[l].size > 0 /\ log[l].len >= BitmapSize(log[l].size)

\* cbt_util_create: the metadata, then an empty bitmap.
Create(l) ==
    /\ Starts /\ l \notin made
    /\ log' = [log EXCEPT ![l] = [size |-> disk, len |-> 0, bits |-> {}]]
    /\ tool' = [cmd |-> "create", on |-> l]
    /\ UNCHANGED <<disk, open, flight, made, changed, writes, deaths>>

CreateBitmap ==
    /\ tool.cmd = "create" /\ tool' = Idle
    /\ \/ /\ log' = [log EXCEPT ![tool.on].len = BitmapSize(log[tool.on].size)]
          /\ made' = made \cup {tool.on} /\ changed' = [changed EXCEPT ![tool.on] = {}]
       \/ WriteFails /\ UNCHANGED <<log, made, changed>>
    /\ UNCHANGED <<disk, open, flight, writes, tools, deaths>>

\* cbt_util_set of the size: what it has read is written back with zeroes after it.
Set(l, size) ==
    /\ Starts /\ l \in made /\ Unused(l) /\ Readable(l) /\ size >= log[l].size
    /\ tool' = [cmd |-> "set", on |-> l, size |-> size,
                bits |-> log[l].bits \cap Bits(BitmapSize(log[l].size)), wrote |-> FALSE]
    /\ UNCHANGED <<log, disk, open, flight, made, changed, writes, deaths>>

\* A failure to write the bitmap is remembered, the new size is written all the same.
SetBitmap ==
    /\ tool.cmd = "set" /\ ~tool.wrote /\ tool' = [tool EXCEPT !.wrote = TRUE]
    /\ \/ log' = [log EXCEPT ![tool.on].bits = tool.bits, ![tool.on].len = BitmapSize(tool.size)]
       \/ WriteFails /\ UNCHANGED log
    /\ UNCHANGED <<disk, open, flight, made, changed, writes, tools, deaths>>

SetMetadata ==
    /\ tool.cmd = "set" /\ tool.wrote /\ tool' = Idle
    /\ \/ log' = [log EXCEPT ![tool.on].size = tool.size]
       \/ WriteFails /\ UNCHANGED log
    /\ UNCHANGED <<disk, open, flight, made, changed, writes, tools, deaths>>

\* cbt_util_coalesce: both bitmaps are read; a larger parent is refused.
Coalesce(parent, child) ==
    /\ Starts /\ {parent, child} \subseteq made /\ parent # child
    /\ Unused(parent) /\ Unused(child) /\ Readable(parent) /\ Readable(child)
    /\ BitmapSize(log[parent].size) <= BitmapSize(log[child].size)
    /\ tool' = [cmd |-> "coalesce", on |-> child, from |-> parent,
                bits |-> log[child].bits
                         \cup (log[parent].bits \cap Bits(BitmapSize(log[parent].size)))]
    /\ UNCHANGED <<log, disk, open, flight, made, changed, writes, deaths>>

CoalesceBitmap ==
    /\ tool.cmd = "coalesce" /\ tool' = Idle
    /\ \/ /\ log' = [log EXCEPT ![tool.on].bits = tool.bits]
          /\ changed' = [changed EXCEPT ![tool.on] = @ \cup changed[tool.from]]
       \/ WriteFails /\ UNCHANGED <<log, changed>>
    /\ UNCHANGED <<disk, open, flight, made, writes, tools, deaths>>

\* The tool dies between two of its writes.
ToolDies ==
    /\ tool # Idle /\ deaths < MaxDeaths /\ deaths' = deaths + 1 /\ tool' = Idle
    /\ UNCHANGED <<log, disk, open, flight, made, changed, writes, tools>>

Next ==
    \/ \E l \in Logs : TdlogOpen(l) \/ Create(l)
    \/ \E first \in 0 .. disk - 1 : \E last \in first .. disk - 1 : TdlogQueueWrite(first, last)
    \/ \E b \in flight : WriteLands(b)
    \/ TdlogClose \/ TapdiskDies \/ DiskGrows
    \/ CreateBitmap \/ SetBitmap \/ SetMetadata \/ CoalesceBitmap \/ ToolDies
    \/ \E l \in Logs, size \in 1 .. MaxSize : Set(l, size)
    \/ \E parent, child \in Logs : Coalesce(parent, child)

Spec == Init /\ [][Next]_vars

-----------------------------------------------------------------------------
(* Properties. *)

\* cbt_util_get -b: the blocks it reports as changed.
Reported(l) == log[l].bits \cap Bits(BitmapSize(log[l].size))

\* No change goes unreported: a log that was created can be read, and cbt-util get
\* reports every block written while it was in use or while a log merged into it was,
\* whenever tapdisk or the tool died, while the disk and its log grow.
ChangesLogged == \A l \in made : Readable(l) /\ changed[l] \subseteq Reported(l)
=============================================================================
