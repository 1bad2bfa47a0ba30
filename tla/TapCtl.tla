------------------------------ MODULE TapCtl ------------------------------
(***************************************************************************)
(* The control interface of one tapdisk process: the commands of tap-ctl   *)
(* (control/tap-ctl*.c) on one side, the connections, the queue of         *)
(* commands and the handlers of drivers/tapdisk-control.c on the other.    *)
(*                                                                         *)
(* A command is a sequence of remote calls, one connection each.  The      *)
(* server is single-threaded, but the handlers of close and pause wait for *)
(* I/O by running the event loop again, from inside: meanwhile other       *)
(* connections are accepted, read and answered.  Messages that change      *)
(* state wait on td_control.pending while td_control.busy is set, and each *)
(* handler that ends wakes the first of them.                              *)
(*                                                                         *)
(* A VBD is what the handlers see of it; Vbd.tla has the rest.             *)
(***************************************************************************)
EXTENDS Integers, Sequences, FiniteSets, SequencesExt

CONSTANTS
    Clients,    \* tap-ctl processes
    Minors,     \* blktap minors (the cookie of a message)
    MaxConn,    \* TD_CTL_MAX_CONNECTIONS
    MaxSock,    \* bound on the connections made
    Programs,   \* what the clients do: functions from Clients to sequences of commands
    GivesUp,    \* the clients that may time out, or be killed, while waiting
    Starts,     \* the sets of minors whose VBDs may be open at the start
    Ioctl       \* the minors for which there is BLKTAP_IOCTL_REMOVE_DEVICE (else
                \* -ENOTTY): all or none, with one kernel

Ops == {"create", "destroy", "attach", "open", "close", "force", "detach", "pause",
        "unpause", "list"}

ASSUME ConstantsAssumption ==
    /\ MaxConn \in Nat \ {0} /\ MaxSock \in Nat
    /\ GivesUp \subseteq Clients
    /\ Starts \subseteq SUBSET Minors /\ Ioctl \subseteq Minors
    /\ \A p \in Programs : p \in [Clients -> Seq([op : Ops, minor : Minors])]

VARIABLES
    cl,         \* the clients
    sock,       \* the connections made, in order
    backlog,    \* connections not accepted yet
    conn,       \* td_control.__conn
    free,       \* the unused entries, the next one first (td_control.conn[n_conn..])
    busy,       \* td_control.busy
    pending,    \* td_control.pending
    woken,      \* connections taken off pending, their event unmasked
    frames,     \* the handlers that are waiting, the innermost last
    walked,     \* the current walk of the event list has passed the accept event
    vbd,        \* the VBDs, by minor
    alloced,    \* minors the kernel has handed out
    proc        \* the process: "run", "stopping" (server.run = 0) or "gone"

client == <<cl, sock>>
server == <<backlog, conn, free, busy, pending, woken, frames, walked>>
vars == <<cl, sock, backlog, conn, free, busy, pending, woken, frames, walked,
          vbd, alloced, proc>>

NoVbd  == [st |-> "none", pause |-> "no", ring |-> FALSE, io |-> FALSE, dev |-> FALSE,
           gen |-> 0]
NoConn == [sock |-> 0, in |-> FALSE, running |-> FALSE, out |-> << >>, done |-> FALSE]

Init ==
    /\ \E p \in Programs :
          cl = [c \in Clients |-> [todo |-> p[c], op |-> "none", pc |-> "none",
                                   minor |-> "none", sock |-> 0, res |-> "none"]]
    /\ sock = << >> /\ backlog = << >>
    /\ conn = [i \in 1 .. MaxConn |-> NoConn]
    /\ free = [i \in 1 .. MaxConn |-> i]
    /\ busy = FALSE /\ pending = << >> /\ woken = {} /\ frames = << >> /\ walked = FALSE
    /\ \E opened \in Starts, dev \in BOOLEAN :
          /\ alloced = opened
          /\ vbd = [m \in Minors |->
                       IF m \in opened
                       THEN [NoVbd EXCEPT !.st = "open", !.ring = TRUE, !.dev = dev /\ m \in Ioctl,
                                           !.gen = 1]
                       ELSE NoVbd]
    /\ proc = "run"

-----------------------------------------------------------------------------
(* tap-ctl: commands as sequences of calls *)

\* Calls made over a connection; allocate and free are ioctls on the kernel.
Calls == {"attach", "open", "close", "force", "detach", "pause", "resume", "list"}

FirstCall(op) == CASE op = "create"  -> "allocate"
                   [] op = "destroy" -> "close"
                   [] op = "unpause" -> "resume"
                   [] OTHER          -> op

\* tap_ctl_create undoes what it has done when a call fails.
CreateNext(pc, ok) == CASE pc = "allocate" -> IF ok THEN "attach" ELSE "none"
                        [] pc = "attach"   -> IF ok THEN "open" ELSE "free"
                        [] pc = "open"     -> IF ok THEN "none" ELSE "detach"
                        [] pc = "detach"   -> "free"
                        [] pc = "free"     -> "none"

\* tap_ctl_destroy stops at the first call that fails.
DestroyNext(pc, ok) == CASE ok /\ pc = "close"  -> "detach"
                         [] ok /\ pc = "detach" -> "free"
                         [] OTHER               -> "none"

\* Every other command is one call.
NextCall(op, pc, ok) == CASE op = "create"  -> CreateNext(pc, ok)
                          [] op = "destroy" -> DestroyNext(pc, ok)
                          [] OTHER          -> "none"

\* The call of client c returns.
Returned(c, ok) ==
    [cl EXCEPT ![c].pc = NextCall(cl[c].op, cl[c].pc, ok), ![c].sock = 0,
               ![c].res = IF ok /\ cl[c].res # "error" THEN "ok" ELSE "error"]

StartCommand(c) ==
    /\ cl[c].pc = "none" /\ cl[c].todo # << >>
    /\ LET cmd == Head(cl[c].todo)
       IN cl' = [cl EXCEPT ![c] = [cl[c] EXCEPT !.todo = Tail(cl[c].todo), !.op = cmd.op,
                                                !.pc = FirstCall(cmd.op),
                                                !.minor = cmd.minor, !.res = "ok"]]
    /\ UNCHANGED <<sock, server, vbd, alloced, proc>>

Allocate(c) ==
    /\ cl[c].pc = "allocate"
    /\ alloced' = alloced \union {cl[c].minor}
    /\ cl' = Returned(c, cl[c].minor \notin alloced)
    /\ UNCHANGED <<sock, server, vbd, proc>>

\* BLKTAP2_IOCTL_FREE_TAP fails while a tapdisk holds the ring device.
Free(c) ==
    /\ cl[c].pc = "free"
    /\ LET idle == vbd[cl[c].minor].st = "none"
       IN /\ alloced' = IF idle THEN alloced \ {cl[c].minor} ELSE alloced
          /\ cl' = Returned(c, idle)
    /\ UNCHANGED <<sock, server, vbd, proc>>

\* tap_ctl_connect_id.
Connect(c) ==
    /\ cl[c].pc \in Calls /\ cl[c].sock = 0
    /\ \/ /\ proc = "gone"
          /\ cl' = Returned(c, FALSE)
          /\ UNCHANGED <<sock, backlog>>
       \/ /\ proc # "gone" /\ Len(sock) < MaxSock
          /\ sock' = Append(sock, [client |-> c, type |-> cl[c].pc, minor |-> cl[c].minor,
                                   msg |-> "unsent", hup |-> FALSE, eof |-> FALSE,
                                   answers |-> << >>])
          /\ backlog' = Append(backlog, Len(sock'))
          /\ cl' = [cl EXCEPT ![c].sock = Len(sock')]
    /\ UNCHANGED <<conn, free, busy, pending, woken, frames, walked, vbd, alloced, proc>>

\* tap_ctl_write_message.  The message stays readable if its sender leaves.
Send(c) ==
    /\ cl[c].sock # 0 /\ sock[cl[c].sock].msg = "unsent" /\ ~sock[cl[c].sock].eof
    /\ sock' = [sock EXCEPT ![cl[c].sock].msg = "sent"]
    /\ UNCHANGED <<cl, server, vbd, alloced, proc>>

\* tap_ctl_read_message: the answer, or the end of the connection.
Receive(c) ==
    /\ cl[c].sock # 0
    /\ LET s == sock[cl[c].sock]
       IN /\ s.answers # << >> \/ s.eof
          /\ cl' = Returned(c, s.answers # << >> /\ Head(s.answers).ok)
    /\ sock' = [sock EXCEPT ![cl[c].sock].hup = TRUE]
    /\ UNCHANGED <<server, vbd, alloced, proc>>

\* The timeout of a call passes, or tap-ctl is killed: the command ends.
GiveUp(c) ==
    /\ c \in GivesUp /\ cl[c].sock # 0 /\ sock[cl[c].sock].msg # "unsent"
    /\ sock' = [sock EXCEPT ![cl[c].sock].hup = TRUE]
    /\ cl' = [cl EXCEPT ![c].pc = "none", ![c].sock = 0, ![c].res = "error"]
    /\ UNCHANGED <<server, vbd, alloced, proc>>

-----------------------------------------------------------------------------
(* tapdisk-control: connections *)

\* The process dispatches events from its main loop or from the loop of the
\* innermost waiting handler.
Dispatching == proc # "gone"

\* tapdisk_control_accept.  The accept event is the first of the list, so a
\* walk meets it before the events of connections; an event that was woken
\* runs in the next walk, before anything accepted from now on is read.
Accept ==
    /\ Dispatching /\ ~walked /\ woken = {}
    /\ backlog # << >> /\ free # << >>
    /\ conn' = [conn EXCEPT ![Head(free)] =
                   [NoConn EXCEPT !.sock = Head(backlog), !.in = TRUE,
                                  !.running = conn[Head(free)].running]]
    /\ free' = Tail(free)
    /\ backlog' = Tail(backlog)
    /\ UNCHANGED <<client, busy, pending, woken, frames, walked, vbd, alloced, proc>>

\* tapdisk_ctl_conn_close.  A handler that is still running on the entry
\* leaves conn->in.busy set.
Closed(i) == [conn EXCEPT ![i] = [NoConn EXCEPT !.running = conn[i].running]]

Excl(type) == type # "list"     \* no TAPDISK_MSG_REENTER (pid, list and stats)

\* Mutant: a handler that fails wakes nobody.
Finish_mutant(i, k, ok, excl) ==
    /\ conn' = [conn EXCEPT ![i] =
                   [conn[i] EXCEPT !.running = FALSE, !.in = FALSE,
                                   !.out = IF conn[i].sock = 0 THEN << >>
                                           ELSE Append(conn[i].out, [for |-> k, ok |-> ok]),
                                   !.done = (conn[i].sock # 0)]]
    /\ IF excl /\ ok /\ pending # << >>
       THEN pending' = Tail(pending) /\ woken' = (woken \ {i}) \union {Head(pending)}
       ELSE pending' = pending /\ woken' = woken \ {i}
    /\ busy' = (busy /\ ~excl)
    /\ UNCHANGED free

\* The end of tapdisk_control_process_request on entry i, for the message of
\* connection k: the answer goes to whatever connection the entry has now;
\* an exclusive handler wakes the first pending connection.
Finish(i, k, ok, excl) ==
    /\ conn' = [conn EXCEPT ![i] =
                   [conn[i] EXCEPT !.running = FALSE, !.in = FALSE,
                                   !.out = IF conn[i].sock = 0 THEN << >>
                                           ELSE Append(conn[i].out, [for |-> k, ok |-> ok]),
                                   !.done = (conn[i].sock # 0)]]
    /\ IF excl /\ pending # << >>
       THEN pending' = Tail(pending) /\ woken' = (woken \ {i}) \union {Head(pending)}
       ELSE pending' = pending /\ woken' = woken \ {i}
    /\ busy' = (busy /\ ~excl)
    /\ UNCHANGED free

-----------------------------------------------------------------------------
(* tapdisk-control: handlers *)

\* What a handler returns and the VBDs it leaves.
Ok(m, v) == [ok |-> TRUE, vbd |-> [vbd EXCEPT ![m] = v]]
Failed   == [ok |-> FALSE, vbd |-> vbd]

\* list, pid and stats change nothing.
ListVbds(m) == {Ok(m, vbd[m])}

\* The minor must be new to the process and its ring device must open.
AttachVbd(m) ==
    IF vbd[m].st # "none" \/ m \notin alloced THEN {Failed}
    ELSE {Ok(m, [NoVbd EXCEPT !.st = "attached", !.gen = vbd[m].gen + 1])}

\* A VBD with a name, open or paused, is busy.
DetachVbd(m) ==
    IF vbd[m].st # "attached" THEN {Failed} ELSE {Ok(m, [NoVbd EXCEPT !.gen = vbd[m].gen])}

\* Opening the chain, creating the device or starting the NBD server may fail,
\* which closes the images again.
OpenImage(m) ==
    IF vbd[m].st # "attached" THEN {Failed}
    ELSE {Failed, Ok(m, [vbd[m] EXCEPT !.st = "open", !.ring = TRUE])}

ResumeVbd(m) ==
    IF vbd[m].st = "none" \/ vbd[m].pause # "yes" THEN {Failed}
    ELSE {Failed, Ok(m, [vbd[m] EXCEPT !.pause = "no"])}

\* message_infos.
Outcomes(type, m) == CASE type = "list"   -> ListVbds(m)
                       [] type = "attach" -> AttachVbd(m)
                       [] type = "detach" -> DetachVbd(m)
                       [] type = "open"   -> OpenImage(m)
                       [] type = "resume" -> ResumeVbd(m)

\* tapdisk_server_check_state, after a VBD has left the list.
StateAfter(type, ok, vbds) ==
    IF type = "detach" /\ ok /\ \A m \in Minors : vbds[m].st = "none"
    THEN "stopping" ELSE proc

\* The handlers that may wait: close (its rings are disconnected first),
\* force (does not wait for dead rings) and pause.
Waits == {"close", "force", "pause"}

Began(type, v) ==
    IF type = "pause" THEN [v EXCEPT !.pause = "req"]
                      ELSE [v EXCEPT !.ring = FALSE]

\* The waits of the handlers.  close waits for requests of dead rings (not when
\* forced), then as long as remove_device says -EBUSY and, when the kernel has
\* no such ioctl, for pending_requests to drain.
FirstStage(type) == CASE type = "pause" -> "pause"
                      [] type = "close" -> "rings"
                      [] type = "force" -> "device"

\* Where a handler that has come to stage st waits, given its VBD.
StageOf(st, v, m) ==
    IF st \in {"pause", "rings"} /\ v.io THEN st
    ELSE IF st \in {"rings", "device"} /\ v.dev THEN "device"
    ELSE IF st # "pause" /\ m \notin Ioctl /\ v.io THEN "requests"
    ELSE "done"

Ready(f) == StageOf(f.stage, vbd[f.minor], f.minor) = "done"

\* Mutant: the loops do not look at conn->fd.
Abandoned_mutant(f) == f.conn = 0

\* conn->fd is looked at after each walk by the loops of pause and of
\* remove_device, not by the other two waits.
Abandoned(f) == f.stage \in {"pause", "device"} /\ conn[f.conn].sock = 0

Ended(type, v) ==
    IF type = "pause" THEN [v EXCEPT !.pause = "yes"]
                      ELSE [v EXCEPT !.st = "attached"]

Frame(i, k, st) == [conn |-> i, sock |-> k, type |-> sock[k].type, minor |-> sock[k].minor,
                    gen |-> vbd[sock[k].minor].gen, stage |-> st]

\* tapdisk_control_process_request on the message of connection k.
Begin(i, k) ==
    LET type == sock[k].type
        m    == sock[k].minor
        v    == Began(type, vbd[m])
        st   == StageOf(FirstStage(type), v, m)
    IN \/ /\ type \notin Waits
          /\ \E o \in Outcomes(type, m) :
                /\ Finish(i, k, o.ok, Excl(type))
                /\ vbd' = o.vbd
                /\ proc' = StateAfter(type, o.ok, o.vbd)
          /\ walked' = TRUE
          /\ UNCHANGED frames
       \/ /\ type \in Waits /\ (vbd[m].st = "none" \/ st = "done")
          /\ Finish(i, k, vbd[m].st # "none", TRUE)
          /\ vbd' = IF vbd[m].st = "none" THEN vbd ELSE [vbd EXCEPT ![m] = Ended(type, v)]
          /\ walked' = TRUE
          /\ UNCHANGED <<frames, proc>>
       \/ /\ type \in Waits /\ vbd[m].st # "none" /\ st # "done"
          /\ vbd' = [vbd EXCEPT ![m] = v]
          /\ frames' = Append(frames, Frame(i, k, st))
          /\ busy' = TRUE
          /\ conn' = [conn EXCEPT ![i].running = TRUE]
          /\ woken' = woken \ {i}
          /\ walked' = FALSE
          /\ UNCHANGED <<free, pending, proc>>

\* tapdisk_control_handle_request, the event of entry i having fired.
ReadRequest(i) ==
    /\ Dispatching /\ conn[i].in
    /\ LET k == conn[i].sock
           s == sock[k]
       IN \/ \* A message while the entry is busy: refused and closed.
             /\ s.msg = "sent" /\ conn[i].running
             /\ sock' = [sock EXCEPT ![k].answers = Append(@, [for |-> k, ok |-> FALSE]),
                                     ![k].eof = TRUE, ![k].msg = "read"]
             /\ conn' = Closed(i)
             /\ free' = << i >> \o free
             /\ walked' = TRUE
             /\ UNCHANGED <<busy, pending, woken, frames, vbd, proc>>
          \/ \* An exclusive message waits for its turn.
             /\ s.msg = "sent" /\ ~conn[i].running /\ Excl(s.type) /\ busy
             /\ sock' = [sock EXCEPT ![k].msg = "read"]
             /\ pending' = Append(pending, i)
             /\ conn' = [conn EXCEPT ![i].in = FALSE]
             /\ walked' = TRUE
             /\ UNCHANGED <<free, busy, woken, frames, vbd, proc>>
          \/ /\ s.msg = "sent" /\ ~conn[i].running /\ ~(Excl(s.type) /\ busy)
             /\ sock' = [sock EXCEPT ![k].msg = "read"]
             /\ Begin(i, k)
          \/ \* The other end has gone.
             /\ s.hup /\ s.msg # "sent"
             /\ conn' = Closed(i)
             /\ free' = << i >> \o free
             /\ sock' = [sock EXCEPT ![k].eof = TRUE]
             /\ walked' = TRUE
             /\ UNCHANGED <<busy, pending, woken, frames, vbd, proc>>
    /\ UNCHANGED <<cl, backlog, alloced>>

\* The event of a woken connection.
ProcessWoken(i) ==
    /\ Dispatching /\ i \in woken
    /\ Begin(i, conn[i].sock)
    /\ UNCHANGED <<client, backlog, alloced>>

\* tapdisk_ctl_conn_send_event.
SendAnswer(i) ==
    /\ Dispatching /\ conn[i].out # << >>
    /\ LET s == sock[conn[i].sock]
       IN sock' = [sock EXCEPT ![conn[i].sock] =
                      [s EXCEPT !.answers = IF s.hup THEN s.answers ELSE s.answers \o conn[i].out,
                                !.eof = TRUE]]
    /\ conn' = Closed(i)
    /\ free' = << i >> \o free
    /\ walked' = TRUE
    /\ UNCHANGED <<cl, backlog, busy, pending, woken, frames, vbd, alloced, proc>>

\* The innermost waiting handler looks again after a walk.
HandlerResumes ==
    /\ Dispatching /\ frames # << >>
    /\ LET f == Last(frames)
       IN /\ Abandoned(f) \/ Ready(f)
          /\ vbd' = IF Abandoned(f) \/ vbd[f.minor].gen # f.gen THEN vbd
                    ELSE [vbd EXCEPT ![f.minor] = Ended(f.type, @)]
          /\ Finish(f.conn, f.sock, ~Abandoned(f), TRUE)
    /\ frames' = Front(frames)
    /\ walked' = TRUE
    /\ UNCHANGED <<client, backlog, alloced, proc>>

\* It has to wait on, perhaps at a later stage, or there is none: the next walk.
NextWalk ==
    /\ IF frames = << >> THEN walked /\ proc = "run"
       ELSE LET f == Last(frames)
            IN /\ ~Abandoned(f) /\ ~Ready(f)
               /\ walked \/ StageOf(f.stage, vbd[f.minor], f.minor) # f.stage
    /\ walked' = FALSE
    /\ frames' = [j \in DOMAIN frames |->
                     IF j # Len(frames) THEN frames[j]
                     ELSE [frames[j] EXCEPT !.stage = StageOf(frames[j].stage,
                                                              vbd[frames[j].minor],
                                                              frames[j].minor)]]
    /\ UNCHANGED <<client, backlog, conn, free, busy, pending, woken, vbd, alloced, proc>>

\* Mutant: connections that were not accepted are left open.
Exit_mutant ==
    /\ proc = "stopping" /\ frames = << >>
    /\ LET owner(k) == {i \in DOMAIN conn : conn[i].sock = k}
       IN sock' = [k \in DOMAIN sock |->
                      IF owner(k) = {} THEN sock[k]
                      ELSE [sock[k] EXCEPT
                              !.eof = TRUE,
                              !.answers = IF owner(k) = {} \/ sock[k].hup THEN @
                                          ELSE @ \o conn[CHOOSE i \in owner(k) : TRUE].out]]
    /\ conn' = [i \in DOMAIN conn |-> NoConn]
    /\ free' = [i \in DOMAIN conn |-> i]
    /\ backlog' = << >> /\ pending' = << >> /\ woken' = {}
    /\ proc' = "gone"
    /\ UNCHANGED <<cl, busy, frames, walked, vbd, alloced>>

\* tapdisk_control_close, once the main loop has ended: answers are flushed,
\* connections without one are dropped.
Exit ==
    /\ proc = "stopping" /\ frames = << >>
    /\ LET owner(k) == {i \in DOMAIN conn : conn[i].sock = k}
       IN sock' = [k \in DOMAIN sock |->
                      IF owner(k) = {} /\ ~Contains(backlog, k) THEN sock[k]
                      ELSE [sock[k] EXCEPT
                              !.eof = TRUE,
                              !.answers = IF owner(k) = {} \/ sock[k].hup THEN @
                                          ELSE @ \o conn[CHOOSE i \in owner(k) : TRUE].out]]
    /\ conn' = [i \in DOMAIN conn |-> NoConn]
    /\ free' = [i \in DOMAIN conn |-> i]
    /\ backlog' = << >> /\ pending' = << >> /\ woken' = {}
    /\ proc' = "gone"
    /\ UNCHANGED <<cl, busy, frames, walked, vbd, alloced>>

-----------------------------------------------------------------------------
(* The guest, and users of the block device *)

IoStart(m) ==
    /\ vbd[m].st = "open" /\ vbd[m].pause = "no" /\ vbd[m].ring /\ ~vbd[m].io
    /\ vbd' = [vbd EXCEPT ![m].io = TRUE]
    /\ UNCHANGED <<client, server, alloced, proc>>

IoDone(m) ==
    /\ vbd[m].io
    /\ vbd' = [vbd EXCEPT ![m].io = FALSE]
    /\ UNCHANGED <<client, server, alloced, proc>>

DeviceClosed(m) ==
    /\ vbd[m].dev
    /\ vbd' = [vbd EXCEPT ![m].dev = FALSE]
    /\ UNCHANGED <<client, server, alloced, proc>>

ClientStep(c) ==
    StartCommand(c) \/ Allocate(c) \/ Free(c) \/ Connect(c) \/ Send(c) \/ Receive(c)

ConnStep(i) == ReadRequest(i) \/ ProcessWoken(i) \/ SendAnswer(i)

Next ==
    \/ \E c \in Clients : ClientStep(c) \/ GiveUp(c)
    \/ Accept
    \/ \E i \in 1 .. MaxConn : ConnStep(i)
    \/ HandlerResumes \/ NextWalk \/ Exit
    \/ \E m \in Minors : IoStart(m) \/ IoDone(m) \/ DeviceClosed(m)

Spec == Init /\ [][Next]_vars

\* tap-ctl and the event loop run on; I/O in flight completes and users of
\* the block device close it.
Fairness ==
    /\ \A c \in Clients : WF_vars(ClientStep(c))
    /\ SF_vars(Accept)
    /\ \A i \in 1 .. MaxConn : SF_vars(ConnStep(i))
    /\ WF_vars(HandlerResumes) /\ WF_vars(NextWalk) /\ WF_vars(Exit)
    /\ \A m \in Minors : WF_vars(IoDone(m)) /\ WF_vars(DeviceClosed(m))

FairSpec == Spec /\ Fairness

-----------------------------------------------------------------------------
(* Properties *)

\* A client is only ever given the answer to its own message, although the
\* entry of a connection that ended under its handler is used again.
RightAnswer ==
    \A k \in DOMAIN sock : \A j \in DOMAIN sock[k].answers : sock[k].answers[j].for = k

\* The exclusive access td_control.pending exists for: a handler that changes
\* state never runs inside another one that is waiting.
Exclusive == Len(frames) <= 1

\* A command on the pending list has somebody to wake it.
NoStrandedCommand == pending # << >> => frames # << >> \/ woken # {}

\* The entries that are free are exactly those without a connection, each
\* once: none is leaked and none handed out twice.
EntriesConserved ==
    /\ \A j, k \in DOMAIN free : j # k => free[j] # free[k]
    /\ {free[j] : j \in DOMAIN free} = {i \in 1 .. MaxConn : conn[i].sock = 0}

\* Every command ends, also when the server exits or the handler waits.
CommandsEnd == \A c \in Clients : cl[c].pc # "none" ~> cl[c].pc = "none"

\* The control server's connections: one handler at a time changes state, one
\* that waits is woken, and every entry is free or has one connection.
ConnectionsSound == Exclusive /\ NoStrandedCommand /\ EntriesConserved
=============================================================================
