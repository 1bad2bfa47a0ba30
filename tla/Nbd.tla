-------------------------------- MODULE Nbd --------------------------------
(***************************************************************************)
(* A VBD exported over NBD: the server of a tapdisk                        *)
(* (drivers/tapdisk-nbdserver.c) and, at the other end of its sockets, the *)
(* NBD driver of another tapdisk (drivers/block-nbd.c), with the receivers *)
(* of file descriptors on both sides (drivers/tapdisk-fdreceiver.c).       *)
(*                                                                         *)
(* A socket carries whole messages, in order, each way.  The server        *)
(* answers in the order in which the VBD completes requests.  It knows a   *)
(* client by the number of a file descriptor, which the kernel may give to *)
(* another socket once the descriptor is closed.                           *)
(***************************************************************************)
EXTENDS Integers, Sequences, FiniteSets, SequencesExt, FiniteSetsExt

CONSTANTS
    NReqs,       \* NBD_SERVER_NUM_REQS
    MaxNbdReqs,  \* MAX_NBD_REQS
    NPassedFds,  \* N_PASSED_FDS
    Styles,      \* the protocols of the server: "old", "new"
    MaxSock,     \* bound on the sockets made
    MaxLoad,     \* bound on the requests of the driver and the sockets together,
    SockLoad,    \* where a socket counts as so many requests
    MaxOpens,    \* bound on the times the driver is opened
    MaxErrors,   \* bound on the requests that the server's VBD fails
    MaxPauses,   \* bound on the times the server is paused
    MayDie,      \* whether the server's process may die at any time
    FdReuse,     \* whether the kernel hands out the lowest free descriptor
    PauseFull,   \* whether the server may be paused while a client is masked
    Overload,    \* whether the driver is given requests it has no room for
    LeaveEarly   \* whether a socket may be closed while the server awaits its options

ASSUME ConstantsAssumption ==
    /\ {NReqs, MaxNbdReqs, NPassedFds} \subseteq Nat \ {0}
    /\ {MaxSock, MaxLoad, SockLoad, MaxOpens, MaxErrors, MaxPauses} \subseteq Nat
    /\ Styles \subseteq {"old", "new"} /\ Styles # {}
    /\ {MayDie, FdReuse, PauseFull, Overload, LeaveEarly} \subseteq BOOLEAN

VARIABLES
    chan,     \* the sockets
    style,    \* server->style
    fds,      \* what the server's descriptors are open on: a socket, or 0
    clients,  \* server->clients, freed ones included
    hs,       \* clients with a handshake event
    hfd,      \* server->handshake_fd
    stuck,    \* the client in whose handshake the process waits in recv(), or 0
    listen,   \* the listening events are registered
    life,     \* the server: "on", "freed", its process "gone"
    vreqs,    \* requests queued to the server's VBD
    drv,      \* the NBD driver (struct tdnbd_data)
    passed,   \* passed_fds
    outcome,  \* what has become of the requests given to the driver
    opens, errs, pauses

server == <<style, fds, clients, hs, hfd, stuck, listen, life, vreqs>>
vars == <<chan, server, drv, passed, outcome, opens, errs, pauses>>

\* up runs from the driver to the server; cend and send: that end is open.
Sock(accepted) == [up |-> << >>, down |-> << >>, cend |-> TRUE, send |-> TRUE,
                   accepted |-> accepted]

\* struct td_nbdserver_client; ev is its event: "none", "on" or "masked".
Client(fd) == [fd |-> fd, free |-> NReqs, ev |-> "on", paused |-> FALSE, dead |-> FALSE,
               there |-> TRUE]

\* struct tdnbd_data; dead stands for closed = 3, named for an fd passed to it.
NoDriver == [st |-> "closed", sock |-> 0, dead |-> FALSE, free |-> MaxNbdReqs,
             pend |-> << >>, sent |-> {}, named |-> FALSE]

Init ==
    /\ chan = << >> /\ style \in Styles
    /\ fds = << >> /\ clients = << >> /\ hs = {} /\ hfd = 0 /\ stuck = 0 /\ listen = TRUE
    /\ life = "on" /\ vreqs = {}
    /\ drv = NoDriver
    /\ passed = [i \in 1 .. NPassedFds |-> [id |-> "", sock |-> 0]]
    /\ outcome = << >> /\ opens = 0 /\ errs = 0 /\ pauses = 0

\* A message sent to an end that is closed is lost.
SendDown(ch, s, msg) == IF s # 0 /\ ch[s].send /\ ch[s].cend
                        THEN [ch EXCEPT ![s].down = Append(@, msg)] ELSE ch
SendUp(ch, s, msg)   == IF ch[s].send /\ ch[s].cend
                        THEN [ch EXCEPT ![s].up = Append(@, msg)] ELSE ch

Load == Len(outcome) + SockLoad * Len(chan)
RoomForSock == Len(chan) < MaxSock /\ Load + SockLoad <= MaxLoad

-----------------------------------------------------------------------------
(* The server's clients *)

\* The descriptor the kernel gives to a new socket.
NewFd == IF FdReuse /\ \E f \in DOMAIN fds : fds[f] = 0
         THEN Min({f \in DOMAIN fds : fds[f] = 0}) ELSE Len(fds) + 1

Opened(f, s) == IF f > Len(fds) THEN Append(fds, s) ELSE [fds EXCEPT ![f] = s]

Pending(i) == {r \in vreqs : r.client = i}

\* tapdisk_nbdserver_free_client: a client with requests pending is left dead.
\* Its descriptor keeps its number.
FreeClient(cls, i) ==
    [cls EXCEPT ![i].ev = "none", ![i].dead = Pending(i) # {}, ![i].there = Pending(i) # {}]

\* tapdisk_nbdserver_newclient_fd_old and _new_fixed: the client gets its event
\* at once; with the new protocol its handshake has an event of its own.  When
\* the other end has gone the greeting fails and the descriptor is closed.
NewClient(cls, ch, s, f, sty) ==
    \/ /\ ch[s].cend
       /\ clients' = Append(cls, Client(f))
       /\ chan' = SendDown(ch, s, [type |-> "hello", style |-> sty])
       /\ fds' = Opened(f, s)
       /\ hs' = IF sty = "new" THEN hs \union {Len(cls) + 1} ELSE hs
       /\ hfd' = IF sty = "new" THEN f ELSE hfd
    \/ /\ ~ch[s].cend
       /\ clients' = cls
       /\ chan' = [ch EXCEPT ![s].send = FALSE]
       /\ fds' = Opened(f, 0)
       /\ UNCHANGED <<hs, hfd>>

\* tapdisk_nbdserver_alloc_request.
AllocRequest(c) ==
    [c EXCEPT !.free = @ - 1, !.ev = IF c.free = 1 THEN "masked" ELSE @]

\* tapdisk_nbdserver_free_request.
FreeRequest(c) ==
    [c EXCEPT !.free = @ + 1,
              !.ev = IF c.free + 1 = NReqs \div 4 /\ @ = "masked" THEN "on" ELSE @]

\* A registered event, of a handshake or of a client, is on a closed descriptor:
\* select() fails with EBADF and the loop of tapdisk runs no event any more.
SelectFails ==
    \/ \E h \in hs : fds[clients[h].fd] = 0
    \/ \E i \in DOMAIN clients : clients[i].ev = "on" /\ fds[clients[i].fd] = 0

\* The server can run an event.
Idle == life = "on" /\ stuck = 0 /\ ~SelectFails

\* tapdisk_nbdserver_newclient_unix: always the new protocol.
AcceptUnix(s) ==
    /\ Idle /\ listen /\ ~chan[s].accepted
    /\ NewClient(clients, [chan EXCEPT ![s].accepted = TRUE], s, NewFd, "new")
    /\ UNCHANGED <<style, stuck, listen, life, vreqs, drv, passed, outcome, opens, errs, pauses>>

\* Something to read, or the end, on the socket that descriptor f is open on.
Readable(f) == LET s == fds[f] IN s # 0 /\ (chan[s].up # << >> \/ ~chan[s].cend)

NextMsg(f) == LET up == chan[fds[f]].up IN IF up = << >> THEN [type |-> "eof"] ELSE Head(up)
Consumed(f) == [chan EXCEPT ![fds[f]].up = IF @ = << >> THEN @ ELSE Tail(@)]

\* handshake_finish, the answer to the option NBD_OPT_EXPORT_NAME.
OptionReply == [type |-> "finish"]

\* receive_newstyle_options with what the driver sends: the answer goes out on the
\* socket the option came in on, and the transmission begins.
ReceiveOptions(f) == SendDown(Consumed(f), fds[f], OptionReply)

\* It succeeds: the option is one, and its sender is there to be answered.
Answerable == NextMsg(hfd).type = "opts" /\ chan[fds[hfd]].cend

\* scheduler_check_fd_events gives a descriptor that is ready to the first of its
\* events, and the one of a handshake is registered before the client's.
FirstOn(i, f) == \A h \in hs : h < i => clients[h].fd # f

\* tapdisk_nbdserver_handshake_cb once there is something on handshake_fd, which is
\* the server's and not the client's: the options; or the end, or a descriptor
\* that is closed, which leaves the event registered; or what is no option, or one
\* that cannot be answered, for which the descriptor is closed under the client.
Handshake(i) ==
    \/ /\ Readable(hfd) /\ Answerable
       /\ chan' = ReceiveOptions(hfd)
       /\ hs' = hs \ {i}
       /\ UNCHANGED fds
    \/ /\ fds[hfd] = 0 \/ (Readable(hfd) /\ NextMsg(hfd).type = "eof")
       /\ UNCHANGED <<chan, hs, fds>>
    \/ /\ Readable(hfd) /\ NextMsg(hfd).type # "eof" /\ ~Answerable
       /\ chan' = [chan EXCEPT ![fds[hfd]].send = FALSE]
       /\ fds' = [fds EXCEPT ![hfd] = 0]
       /\ hs' = hs \ {i}

\* The event of a handshake.  As long as nothing is there to be read the process
\* waits in recv().
HandshakeCb(i) ==
    /\ i \in hs
    /\ \/ Idle /\ FirstOn(i, clients[i].fd) /\ Readable(clients[i].fd)
       \/ life = "on" /\ stuck = i
    /\ \/ Handshake(i) /\ stuck' = 0
       \/ /\ fds[hfd] # 0 /\ ~Readable(hfd)
          /\ stuck' = i /\ UNCHANGED <<chan, hs, fds>>
    /\ UNCHANGED <<style, clients, hfd, listen, life, vreqs, drv, passed, outcome, opens, errs, pauses>>

\* The end of tapdisk_nbdserver_clientcb when anything has gone wrong.
Kill(i) ==
    /\ clients' = FreeClient(clients, i)
    /\ fds' = [fds EXCEPT ![clients[i].fd] = 0]
    /\ chan' = [chan EXCEPT ![fds[clients[i].fd]].send = FALSE]
    /\ UNCHANGED <<hs, hfd, vreqs>>

\* create_request_vreq.
Vreq(i) == [client |-> i, id |-> NextMsg(clients[i].fd).id, sock |-> fds[clients[i].fd]]

\* tapdisk_nbdserver_clientcb with a request: there must be one free.
ServeRequest(i) ==
    /\ NextMsg(clients[i].fd).type = "req" /\ clients[i].free > 0
    /\ clients' = [clients EXCEPT ![i] = AllocRequest(@)]
    /\ vreqs' = vreqs \union {Vreq(i)}
    /\ chan' = Consumed(clients[i].fd)
    /\ UNCHANGED <<fds, hs, hfd>>

\* With DISC: the client is freed and another made on its descriptor.
ServeDisc(i) ==
    /\ NextMsg(clients[i].fd).type = "disc"
    /\ NewClient(FreeClient(clients, i), Consumed(clients[i].fd), fds[clients[i].fd],
                 clients[i].fd, style)
    /\ UNCHANGED vreqs

\* With the end of the connection, no request, or none to put it in.
ServeFail(i) ==
    /\ \/ NextMsg(clients[i].fd).type \in {"eof", "opts"}
       \/ NextMsg(clients[i].fd).type = "req" /\ clients[i].free = 0
    /\ Kill(i)

ClientCb(i) ==
    /\ Idle /\ clients[i].ev = "on" /\ Readable(clients[i].fd)
    /\ i \notin hs /\ FirstOn(i, clients[i].fd)
    /\ ServeRequest(i) \/ ServeDisc(i) \/ ServeFail(i)
    /\ UNCHANGED <<style, stuck, listen, life, drv, passed, outcome, opens, errs, pauses>>

\* Mutant: the answer goes where the last handshake was.
ReplyFd_mutant(i) == IF hfd = 0 THEN clients[i].fd ELSE hfd

\* client->client_fd.
ReplyFd(i) == clients[i].fd

\* The answer to a request, simple or structured; src is only for the properties.
Reply(r, ok) == [type |-> "reply", id |-> r.id, ok |-> ok, src |-> r.sock]

\* __tapdisk_nbdserver_request_cb: the answer, and the request is free again.
VbdCompletes(r, ok) ==
    /\ Idle /\ (ok \/ errs < MaxErrors)
    /\ errs' = IF ok THEN errs ELSE errs + 1
    /\ LET i == r.client IN
       /\ chan' = SendDown(chan, fds[ReplyFd(i)], Reply(r, ok))
       /\ clients' = [clients EXCEPT ![i] =
                         [FreeRequest(@) EXCEPT !.there = ~(clients[i].dead /\ Pending(i) = {r})]]
    /\ vreqs' = vreqs \ {r}
    /\ UNCHANGED <<style, fds, hs, hfd, stuck, listen, life, drv, passed, outcome, pauses, opens>>

\* tapdisk_nbdserver_pause.
Pause ==
    /\ Idle /\ listen /\ pauses < MaxPauses
    /\ PauseFull \/ \A i \in DOMAIN clients : clients[i].ev # "masked"
    /\ pauses' = pauses + 1
    /\ clients' = [i \in DOMAIN clients |->
                      IF clients[i].ev = "none" THEN clients[i]
                      ELSE [clients[i] EXCEPT !.ev = "none", !.paused = TRUE]]
    /\ listen' = FALSE
    /\ UNCHANGED <<chan, style, fds, hs, hfd, stuck, life, vreqs, drv, passed, outcome, opens, errs>>

\* tapdisk_nbdserver_unpause: the events are registered anew.
Unpause ==
    /\ Idle /\ ~listen
    /\ clients' = [i \in DOMAIN clients |->
                      IF clients[i].paused THEN [clients[i] EXCEPT !.ev = "on", !.paused = FALSE]
                      ELSE clients[i]]
    /\ listen' = TRUE
    /\ UNCHANGED <<chan, style, fds, hs, hfd, stuck, life, vreqs, drv, passed, outcome, opens, errs, pauses>>

\* tapdisk_nbdserver_free, once the VBD it was paused for closing has nothing
\* pending: the clients go, the sockets they were on stay open.
FreeServer ==
    /\ Idle /\ ~listen /\ vreqs = {}
    /\ clients' = [i \in DOMAIN clients |->
                      [clients[i] EXCEPT !.ev = "none", !.paused = FALSE, !.there = FALSE]]
    /\ life' = "freed"
    /\ UNCHANGED <<chan, style, fds, hs, hfd, stuck, listen, vreqs, drv, passed, outcome, opens, errs, pauses>>

\* The server's process ends, after the close or at any time: its descriptors
\* are closed; what it had written before can still be read.
Exit ==
    /\ life = "freed" \/ (life = "on" /\ MayDie)
    /\ life' = "gone"
    /\ chan' = [s \in DOMAIN chan |-> [chan[s] EXCEPT !.up = << >>, !.send = FALSE]]
    /\ fds' = << >> /\ clients' = << >> /\ hs' = {} /\ hfd' = 0 /\ stuck' = 0
    /\ listen' = FALSE /\ vreqs' = {}
    /\ UNCHANGED <<style, drv, passed, outcome, opens, errs, pauses>>

-----------------------------------------------------------------------------
(* The driver *)

\* tdnbd_stash_passed_fd: the first slot that is unused or has the name.
Slots(name) == {i \in DOMAIN passed : passed[i].sock = 0 \/ passed[i].id = name}

Stashed(name, s) ==
    IF Slots(name) = {} THEN passed
    ELSE [passed EXCEPT ![Min(Slots(name))] = [id |-> name, sock |-> s]]

\* What stashing closes: the socket replaced, or the new one.
StashCloses(name, s) ==
    IF Slots(name) = {} THEN s ELSE passed[Min(Slots(name))].sock

\* The driver's end of s may be closed now (bound LeaveEarly).
MayClose(s) == LeaveEarly \/ s = 0 \/ \A h \in hs : fds[clients[h].fd] # s

CloseEnd(ch, s) == IF s = 0 THEN ch ELSE [ch EXCEPT ![s].cend = FALSE]

\* td_fdreceiver_recv_fd on both sides: a connected pair is passed, one end to
\* the server (tapdisk_nbdserver_fdreceiver_cb), the other to the driver.
PassFds(name) ==
    /\ Idle /\ RoomForSock
    /\ LET s  == Len(chan) + 1
           ch == CloseEnd(Append(chan, Sock(TRUE)), StashCloses(name, s))
       IN /\ MayClose(StashCloses(name, s))
          /\ NewClient(clients, ch, s, NewFd, style)
          /\ passed' = Stashed(name, s)
    /\ UNCHANGED <<style, stuck, listen, life, vreqs, drv, outcome, opens, errs, pauses>>

\* tdnbd_open on a socket's path.
OpenUnix ==
    /\ drv.st = "closed" /\ life = "on" /\ RoomForSock /\ opens < MaxOpens
    /\ opens' = opens + 1
    /\ chan' = Append(chan, Sock(FALSE))
    /\ drv' = [NoDriver EXCEPT !.st = "hello", !.sock = Len(chan')]
    /\ UNCHANGED <<server, passed, outcome, errs, pauses>>

\* tdnbd_open on a name (tdnbd_retrieve_passed_fd): the first slot with the name.
OpenPassed(name) ==
    /\ drv.st = "closed" /\ opens < MaxOpens
    /\ opens' = opens + 1
    /\ LET named == {i \in DOMAIN passed : passed[i].id = name}
       IN /\ named # {} /\ passed[Min(named)].sock # 0
          /\ drv' = [NoDriver EXCEPT !.st = "hello", !.sock = passed[Min(named)].sock,
                                     !.named = TRUE]
          /\ passed' = [passed EXCEPT ![Min(named)].sock = 0]
    /\ UNCHANGED <<chan, server, outcome, errs, pauses>>

Down == chan[drv.sock].down
Received == [chan EXCEPT ![drv.sock].down = Tail(@)]
Ended == Down = << >> /\ ~chan[drv.sock].send

\* tdnbd_nbd_negotiate and the function of either protocol.
Negotiate ==
    /\ drv.st \in {"hello", "finish"} /\ Down # << >>
    /\ \/ /\ drv.st = "hello" /\ Head(Down).type = "hello" /\ Head(Down).style = "old"
          /\ chan' = Received /\ drv' = [drv EXCEPT !.st = "open"]
       \/ /\ drv.st = "hello" /\ Head(Down).type = "hello" /\ Head(Down).style = "new"
          /\ chan' = SendUp(Received, drv.sock, [type |-> "opts"])
          /\ drv' = [drv EXCEPT !.st = "finish"]
       \/ /\ drv.st = "finish" /\ Head(Down).type = "finish"
          /\ chan' = Received /\ drv' = [drv EXCEPT !.st = "open"]
    /\ UNCHANGED <<server, passed, outcome, opens, errs, pauses>>

\* tdnbd_wait_recv returns ETIMEDOUT, the end, or what is not expected: the
\* socket is closed and tdnbd_open fails.
NegotiationFails ==
    /\ drv.st \in {"hello", "finish"}
    /\ \/ Ended
       \/ Down = << >>
       \/ Down # << >> /\ Head(Down).type # drv.st
    /\ MayClose(drv.sock)
    /\ chan' = CloseEnd(chan, drv.sock)
    /\ drv' = NoDriver
    /\ UNCHANGED <<server, passed, outcome, opens, errs, pauses>>

\* tdnbd_queue_request: EBUSY is lost on tdnbd_queue_read and _write.
QueueRequest ==
    /\ drv.st = "open" /\ Load + 1 <= MaxLoad
    /\ Overload \/ drv.free > 0
    /\ outcome' = Append(outcome, IF drv.free = 0 THEN "lost"
                                  ELSE IF drv.dead THEN "err" ELSE "queued")
    /\ drv' = IF drv.free = 0 \/ drv.dead THEN drv
              ELSE [drv EXCEPT !.free = @ - 1, !.pend = Append(@, Len(outcome'))]
    /\ UNCHANGED <<chan, server, passed, opens, errs, pauses>>

\* tdnbd_writer_cb, as far as the socket takes it; an error counts as written.
WriterCb ==
    /\ drv.st = "open" /\ ~drv.dead /\ drv.pend # << >>
    /\ chan' = SendUp(chan, drv.sock, [type |-> "req", id |-> Head(drv.pend)])
    /\ drv' = [drv EXCEPT !.pend = Tail(@), !.sent = @ \union {Head(drv.pend)}]
    /\ UNCHANGED <<server, passed, outcome, opens, errs, pauses>>

\* Mutant: only the requests that were sent are cancelled.
Cancelled_mutant == drv.sent

\* The requests tdnbd_disable cancels.
Cancelled == drv.sent \union Range(drv.pend)

\* tdnbd_disable: it leaves the requests on their lists.
Disable ==
    /\ drv' = [drv EXCEPT !.dead = TRUE]
    /\ outcome' = [id \in DOMAIN outcome |->
                      IF id \in Cancelled THEN "err" ELSE outcome[id]]

\* tdnbd_reader_cb: an answer to a request that was sent.
ReaderCb ==
    /\ drv.st = "open" /\ ~drv.dead /\ Down # << >>
    /\ chan' = Received
    /\ LET msg == Head(Down)
       IN \/ /\ msg.type = "reply" /\ msg.ok /\ msg.id \in drv.sent
             /\ drv' = [drv EXCEPT !.sent = @ \ {msg.id}, !.free = @ + 1]
             /\ outcome' = [outcome EXCEPT ![msg.id] = "ok"]
          \/ /\ ~(msg.type = "reply" /\ msg.ok /\ msg.id \in drv.sent)
             /\ Disable
    /\ UNCHANGED <<server, passed, opens, errs, pauses>>

ReaderEof ==
    /\ drv.st = "open" /\ ~drv.dead /\ Ended
    /\ Disable
    /\ UNCHANGED <<chan, server, passed, opens, errs, pauses>>

\* tdnbd_close, of an image that has nothing outstanding, which says DISC unless
\* the connection is dead,
CloseDriver ==
    /\ drv.st = "open"
    /\ drv.dead \/ (drv.pend = << >> /\ drv.sent = {})
    /\ drv' = [drv EXCEPT !.st = "closing"]
    /\ chan' = IF drv.dead THEN chan ELSE SendUp(chan, drv.sock, [type |-> "disc"])
    /\ UNCHANGED <<server, passed, outcome, opens, errs, pauses>>

\* and then stashes the socket again or closes it.
CloseSocket ==
    /\ drv.st = "closing"
    /\ LET stash == ~drv.dead /\ drv.named
           s == IF stash THEN StashCloses("a", drv.sock) ELSE drv.sock
       IN /\ MayClose(s)
          /\ chan' = CloseEnd(chan, s)
          /\ passed' = IF stash THEN Stashed("a", drv.sock) ELSE passed
    /\ drv' = NoDriver
    /\ UNCHANGED <<server, outcome, opens, errs, pauses>>

-----------------------------------------------------------------------------

ExitAfterClose == life = "freed" /\ Exit

ServerReads == \E i \in DOMAIN clients : ClientCb(i) \/ HandshakeCb(i)

Completions == \E r \in vreqs : VbdCompletes(r, TRUE)

Next ==
    \/ \E s \in DOMAIN chan : AcceptUnix(s)
    \/ \E i \in DOMAIN clients : ClientCb(i) \/ HandshakeCb(i)
    \/ \E r \in vreqs, ok \in BOOLEAN : VbdCompletes(r, ok)
    \/ Pause \/ Unpause \/ FreeServer \/ Exit
    \/ PassFds("a") \/ OpenUnix \/ OpenPassed("a") \/ Negotiate \/ NegotiationFails
    \/ QueueRequest \/ WriterCb \/ ReaderCb \/ ReaderEof \/ CloseDriver \/ CloseSocket

Spec == Init /\ [][Next]_vars

\* Both tapdisks run their event loops, the VBD completes what it is given, and
\* a server that was paused is resumed or freed; the process of a server that
\* was freed, which closed no socket of a client, is ended.
FairSpec ==
    /\ Spec
    /\ WF_vars(ServerReads) /\ WF_vars(Completions) /\ WF_vars(Unpause \/ FreeServer) /\ WF_vars(ExitAfterClose)
    /\ WF_vars(WriterCb) /\ WF_vars(ReaderCb) /\ WF_vars(ReaderEof)

-----------------------------------------------------------------------------
(* Properties *)

\* An answer is only ever sent on the connection its request came from: the
\* callbacks of a client that has gone find out ("Finishing request for client
\* that has disappeared").
RepliesToOwner ==
    \A s \in DOMAIN chan : \A k \in DOMAIN chan[s].down :
        LET msg == chan[s].down[k] IN msg.type = "reply" => msg.src = s

\* The server only reads from a client it has a request for, so that no client
\* is killed for having sent too many; and a client that is gone for good has
\* no request the VBD may still complete.
RoomToRead ==
    \A i \in DOMAIN clients :
        /\ clients[i].ev = "on" => clients[i].free > 0
        /\ clients[i].free + Cardinality(Pending(i)) = NReqs
        /\ ~clients[i].there => Pending(i) = {}

\* The event of a handshake belongs to a client that is there, and reads the
\* client's own socket.
HandshakeOwned ==
    \A i \in hs : clients[i].there /\ ~clients[i].dead /\ clients[i].fd = hfd

\* The driver always comes to a point where every request it was given is
\* completed, with an error if need be.
RequestsEnd ==
    [](<>(\A id \in DOMAIN outcome : outcome[id] \in {"ok", "err"}))

\* The NBD server answers whom it was asked by, and reads no request it has no
\* room for.
NbdSafe == RepliesToOwner /\ RoomToRead
=============================================================================
