---------------------------- MODULE RateControl ----------------------------
(***************************************************************************)
(* Bandwidth control: the valve driver of a tapdisk (drivers/block-valve.c)*)
(* holds writes back until the daemon (drivers/td-rated.c) grants them.    *)
(*                                                                         *)
(* A valve asks for credit over a socket and reports what it has done; the *)
(* daemon keeps, for each connection, what is needed and what is granted,  *)
(* and serves the connections that wait from a token bucket, or out of the *)
(* memory below a watermark as long as that lasts.  Either end may go      *)
(* away; a valve without a daemon lets everything pass and tries again.    *)
(* Sizes are in units of credit.                                           *)
(***************************************************************************)
EXTENDS Integers, Sequences, FiniteSets, SequencesExt, FiniteSetsExt

CONSTANTS
    Valves,         \* the valve drivers
    MaxRequests,    \* MAX_REQUESTS, the requests a valve can store
    RequestMax,     \* TD_RLB_REQUEST_MAX
    Sizes,          \* for each policy of the daemon, the sizes of writes
    Cap,            \* token->cap
    Rooms, Low,     \* memory below the high watermark; what ends congestion
    MaxReqs,        \* bound on the writes
    MaxConns,       \* bound on the connections
    MaxDeaths,      \* bound on the deaths of the daemon
    StoreOnDead,    \* whether a write may be stored before the valve has noticed
                    \* that the daemon is gone
    CloseRetrying   \* whether a valve may be closed while it tries to connect

VARIABLES
    policy,  \* the daemon's valve operations
    valve,   \* struct td_valve of each valve
    req,     \* the writes, in order of arrival
    link,    \* the connections made, in order, and the daemon's record of each
    wait,    \* rlb->wait
    up,      \* the daemon is there
    token,   \* token->cred
    congested, deaths

vars == <<policy, valve, req, link, wait, up, token, congested, deaths>>

\* struct td_valve after valve_init; sock is the number of its connection.
NewValve == [open |-> TRUE, sock |-> 0, retry |-> FALSE, killed |-> FALSE, cred |-> 0,
             need |-> 0, done |-> 0, stor |-> << >>, free |-> MaxRequests]

\* up and down hold what was sent; vend and rend: that end is open; in: accepted.
NewLink == [up |-> << >>, down |-> << >>, vend |-> TRUE, rend |-> TRUE, in |-> FALSE,
            need |-> 0, gntd |-> 0]

Init ==
    /\ policy \in DOMAIN Sizes /\ up = TRUE
    /\ link = [i \in 1 .. Cardinality(Valves) |-> NewLink]
    /\ valve \in [Valves -> {[NewValve EXCEPT !.sock = i] : i \in DOMAIN link}]
    /\ \A v, w \in Valves : v # w => valve[v].sock # valve[w].sock
    /\ req = << >> /\ wait = << >> /\ token = Cap /\ congested = FALSE /\ deaths = 0

-----------------------------------------------------------------------------
(* The valve.  A record w holds valve, req and link. *)

World == [valve |-> valve, req |-> req, link |-> link]

SetWorld(world) == \E w \in {world} : valve' = w.valve /\ req' = w.req /\ link' = w.link

\* Op applied to the value of w, which is computed once.
Then(w, Op(_)) == CHOOSE r \in {Op(u) : u \in {w}} : TRUE

\* valve_sock_close.
SockClose(w, v) ==
    LET s == w.valve[v].sock
    IN [w EXCEPT !.valve[v].sock = 0,
                 !.link = IF s = 0 THEN @ ELSE [@ EXCEPT ![s].vend = FALSE]]

\* valve_sock_open and valve_schedule_retry.
ConnOpen(w, v) ==
    IF up /\ Len(w.link) < MaxConns
    THEN [w EXCEPT !.link = Append(@, NewLink),
                   !.valve[v].sock = Len(w.link) + 1, !.valve[v].retry = FALSE,
                   !.valve[v].cred = 0, !.valve[v].need = 0, !.valve[v].done = 0]
    ELSE [w EXCEPT !.valve[v].retry = TRUE]

\* Mutant: the requests are forwarded and their records lost.
ConnClose_mutant(w, v) ==
    LET stored == Range(w.valve[v].stor)
    IN [SockClose(w, v) EXCEPT
            !.valve[v].stor = << >>,
            !.req = [i \in DOMAIN @ |-> IF i \in stored THEN [@[i] EXCEPT !.st = "direct"]
                                        ELSE @[i]]]

\* valve_conn_close with reset: what is stored is forwarded, its records freed.
ConnClose(w, v) ==
    LET stored == Range(w.valve[v].stor)
    IN [SockClose(w, v) EXCEPT
            !.valve[v].stor = << >>, !.valve[v].free = @ + Cardinality(stored),
            !.req = [i \in DOMAIN @ |-> IF i \in stored THEN [@[i] EXCEPT !.st = "direct"]
                                        ELSE @[i]]]

\* valve_conn_reset.
ConnReset(w, v) == Then(ConnClose(w, v), LAMBDA u : ConnOpen(u, v))

\* valve_kill.
Kill(w, v) == ConnClose([w EXCEPT !.valve[v].killed = TRUE], v)

\* valve_conn_request: the credit needed and what has been done.
ConnRequest(w, v, size) ==
    LET s   == w.valve[v].sock
        msg == [need |-> size, done |-> w.valve[v].done]
        u   == [w EXCEPT !.valve[v].need = @ + size, !.valve[v].done = 0]
    IN IF w.link[s].rend THEN [u EXCEPT !.link[s].up = Append(@, msg)] ELSE ConnReset(u, v)

\* valve_expend_request: whether the valve lets a request of that size pass now.
Expends(vl, size) == vl.killed \/ vl.sock = 0 \/ vl.cred >= size

Expended(vl, size) == IF vl.killed \/ vl.sock = 0 THEN vl ELSE [vl EXCEPT !.cred = @ - size]

\* valve_store_request.
StoreRequest(w, v, i) ==
    LET u == ConnRequest([w EXCEPT !.valve[v].free = @ - 1], v, w.req[i].size)
    IN [u EXCEPT !.valve[v].stor = Append(@, i), !.req[i].st = "stored"]

\* td_valve_queue_request with a write.
QueueRequest(v, size) ==
    /\ valve[v].open /\ Len(req) < MaxReqs /\ size \in Sizes[policy]
    /\ LET i  == Len(req) + 1
           w  == [World EXCEPT !.req = Append(@, [valve |-> v, size |-> size, left |-> size,
                                                 st |-> "direct"])]
           vl == valve[v]
       IN \/ /\ Expends(vl, size)
             /\ SetWorld([w EXCEPT !.valve[v] = Expended(@, size)])
          \/ /\ ~Expends(vl, size) /\ vl.free > 0
             /\ StoreOnDead \/ link[vl.sock].rend
             /\ SetWorld(StoreRequest(w, v, i))
          \/ /\ ~Expends(vl, size) /\ vl.free = 0
             /\ SetWorld([w EXCEPT !.req[i].st = "busy"])
    /\ UNCHANGED <<policy, wait, up, token, congested, deaths>>

\* valve_forward_stored_requests, up to the first that must wait.
ForwardStored(w, v) ==
    LET Step(u, i) == IF u.valve[v].stor # << >> /\ Head(u.valve[v].stor) = i
                         /\ Expends(u.valve[v], u.req[i].size)
                      THEN [u EXCEPT !.valve[v] = [Expended(@, u.req[i].size) EXCEPT
                                                      !.stor = Tail(@)],
                                     !.req[i].st = "forw"]
                      ELSE u
    IN FoldLeft(Step, w, w.valve[v].stor)

\* valve_conn_receive: the first n grants, which have come in; none at the end.
ConnReceive(w, v, n) ==
    LET s      == w.valve[v].sock
        grants == SubSeq(w.link[s].down, 1, n)
        cred   == FoldLeft(LAMBDA k, g : k + g, 0, grants)
        u      == [w EXCEPT !.link[s].down = SubSeq(@, n + 1, Len(@))]
    IN IF n = 0 THEN ConnReset(w, v)
       ELSE IF \E g \in Range(grants) : g >= RequestMax THEN Kill(u, v)
       ELSE IF cred > w.valve[v].need THEN ConnReset(u, v)
       ELSE [u EXCEPT !.valve[v].cred = @ + cred, !.valve[v].need = @ - cred]

\* __valve_sock_event.
SockEvent(v) ==
    /\ valve[v].sock # 0
    /\ LET l == link[valve[v].sock] IN
       \E n \in 0 .. Len(l.down) :
          /\ n = 0 => l.down = << >> /\ ~l.rend
          /\ SetWorld(Then(ConnReceive(World, v, n), LAMBDA w : ForwardStored(w, v)))
    /\ UNCHANGED <<policy, wait, up, token, congested, deaths>>

\* __valve_sched_event, unmasked while valve->done is not reported.
SchedEvent(v) ==
    /\ valve[v].sock # 0 /\ valve[v].done > 0
    /\ SetWorld(ConnRequest(World, v, 0))
    /\ UNCHANGED <<policy, wait, up, token, congested, deaths>>

\* __valve_retry_timeout.
RetryTimeout(v) ==
    /\ valve[v].retry /\ up /\ Len(link) < MaxConns
    /\ SetWorld(ConnOpen(World, v))
    /\ UNCHANGED <<policy, wait, up, token, congested, deaths>>

\* __valve_complete_treq: a part of a request that was stored.
Completed(i, n) ==
    [World EXCEPT !.req[i].left = @ - n, !.valve[req[i].valve].done = @ + n,
                  !.valve[req[i].valve].free = IF req[i].left = n THEN @ + 1 ELSE @,
                  !.req[i].st = IF req[i].left = n THEN "done" ELSE @]

\* The image below completes a part of a request, or one that was not stored.
ImageCompletes(i, n) ==
    /\ \/ req[i].st = "forw" /\ n <= req[i].left /\ SetWorld(Completed(i, n))
       \/ req[i].st = "direct" /\ n = req[i].left
          /\ SetWorld([World EXCEPT !.req[i].st = "done", !.req[i].left = 0])
    /\ UNCHANGED <<policy, wait, up, token, congested, deaths>>

\* td_valve_close: the timer of valve_schedule_retry stays.
CloseValve(v) ==
    /\ valve[v].open /\ (CloseRetrying \/ ~valve[v].retry)
    /\ \A i \in DOMAIN req : req[i].valve = v => req[i].st \in {"done", "busy"}
    /\ SetWorld([SockClose(World, v) EXCEPT !.valve[v].open = FALSE])
    /\ UNCHANGED <<policy, wait, up, token, congested, deaths>>

-----------------------------------------------------------------------------
(* The daemon.  A record d holds link, wait, token and congested. *)

Daemon == [link |-> link, wait |-> wait, token |-> token, congested |-> congested]

SetDaemon(daemon) ==
    \E d \in {daemon} :
        link' = d.link /\ wait' = d.wait /\ token' = d.token /\ congested' = d.congested

\* rlb_conn_close.
RlbConnClose(d, c) ==
    [d EXCEPT !.link[c].rend = FALSE, !.wait = SelectSeq(@, LAMBDA e : e # c)]

\* rlb_conn_receive: all the requests there are; -1 in gntd is the error.
RlbConnReceive(d, c) ==
    LET Step(l, m) ==
            IF l.gntd < 0 THEN l
            ELSE IF m.need > RequestMax \/ m.done > l.gntd \/ l.need + m.need > RequestMax
                 THEN [l EXCEPT !.gntd = -1]
                 ELSE [l EXCEPT !.need = @ + m.need, !.gntd = @ - m.done]
        Received(l) == IF d.link[c].up = << >> \/ l.gntd < 0
            THEN RlbConnClose([d EXCEPT !.link[c].up = << >>], c)
            ELSE [d EXCEPT !.link[c] = l,
                           !.wait = IF l.need > 0 /\ ~Contains(@, c) THEN Append(@, c) ELSE @]
    IN Then(FoldLeft(Step, [d.link[c] EXCEPT !.up = << >>], d.link[c].up), Received)

\* rlb_conn_respond.
RlbConnRespond(d, c, n) ==
    IF ~d.link[c].vend THEN RlbConnClose(d, c)
    ELSE [d EXCEPT !.link[c].need = @ - n, !.link[c].gntd = @ + n,
                   !.link[c].down = Append(@, n),
                   !.wait = IF d.link[c].need = n THEN SelectSeq(@, LAMBDA e : e # c) ELSE @]

\* rlb_token_refill and rlb_token_dispatch, after time for n units.
TokenDispatch(d, n) ==
    LET Grant(e, c) == IF e.token < 0 THEN e
                       ELSE RlbConnRespond([e EXCEPT !.token = @ - e.link[c].need], c,
                                           e.link[c].need)
        Step(e, c) == Then(e, LAMBDA f : Grant(f, c))
    IN FoldLeft(Step, [d EXCEPT !.token = Min({@ + n, Cap})], d.wait)

\* rlb_pending.
Pending(d) ==
    FoldLeft(LAMBDA n, l : IF l.in /\ l.rend THEN n + l.gntd ELSE n, 0, d.link)

\* rlb_meminfo_test_high: congestion ends at the low watermark.
TestHigh(d, cred) == IF d.congested THEN cred < Low ELSE cred <= 0

\* The token bucket is full when congestion begins.
Congest(d, cred) ==
    [d EXCEPT !.congested = TestHigh(d, cred),
              !.token = IF ~d.congested /\ cred <= 0 THEN Cap ELSE @]

\* rlb_meminfo_dispatch_low: whatever credit there is, to those that wait.
DispatchLow(d, cred) ==
    LET Grant(p, c) == LET g == Min({p.cred, p.d.link[c].need})
                       IN IF p.cred <= 0 THEN p
                          ELSE [d |-> RlbConnRespond(p.d, c, g), cred |-> p.cred - g]
        Step(p, c) == Then(p, LAMBDA q : Grant(q, c))
    IN FoldLeft(Step, [d |-> d, cred |-> cred], d.wait)

\* rlb_meminfo_dispatch.
MeminfoDispatch(d, room, n) ==
    LET cred == room - Pending(d)
        Uncongested(e) == Then(DispatchLow(e, cred), LAMBDA low : Congest(low.d, low.cred))
        ByToken(e) == IF e.congested THEN TokenDispatch(e, n) ELSE e
    IN Then(Then(Congest(d, cred), LAMBDA e : IF e.congested THEN e ELSE Uncongested(e)), ByToken)

Dispatch(d, room, n) ==
    IF policy = "token" THEN TokenDispatch(d, n) ELSE MeminfoDispatch(d, room, n)

\* rlb_main_iterate with the connections that pselect found ready, in list order,
\* and one dispatch for all of them.
Heard(c) == link[c].in /\ link[c].rend /\ (link[c].up # << >> \/ ~link[c].vend)

RatedReceive(cs, room) ==
    LET Step(d, c) == Then(d, LAMBDA e : RlbConnReceive(e, c))
    IN /\ up /\ cs # {} /\ \A c \in cs : Heard(c)
       /\ SetDaemon(Then(FoldLeft(Step, Daemon, SetToSortSeq(cs, <)),
                         LAMBDA d : Dispatch(d, room, 0)))
       /\ UNCHANGED <<policy, valve, req, up, deaths>>

\* rlb_main_iterate after settimeo: the time until the bucket is not in debt.
RatedTimeout ==
    /\ up /\ wait # << >> /\ (policy = "token" \/ congested)
    /\ SetDaemon(TokenDispatch(Daemon, IF token < 0 THEN - token ELSE 1))
    /\ UNCHANGED <<policy, valve, req, up, deaths>>

\* rlb_accept_conn; rlb_main_iterate has dispatched before.
RatedAccept(c) ==
    /\ up /\ ~link[c].in /\ link[c].rend
    /\ link' = [link EXCEPT ![c].in = TRUE]
    /\ UNCHANGED <<policy, valve, req, wait, up, token, congested, deaths>>

\* rlb_shutdown, or a crash: every connection is closed.
RatedDies ==
    /\ up /\ deaths < MaxDeaths
    /\ up' = FALSE /\ deaths' = deaths + 1 /\ wait' = << >>
    /\ link' = [c \in DOMAIN link |-> [link[c] EXCEPT !.rend = FALSE, !.up = << >>]]
    /\ token' = Cap /\ congested' = FALSE
    /\ UNCHANGED <<policy, valve, req>>

RatedStarts ==
    /\ ~up /\ up' = TRUE
    /\ UNCHANGED <<policy, valve, req, link, wait, token, congested, deaths>>

-----------------------------------------------------------------------------

RatedRuns ==
    \/ \E c \in DOMAIN link : RatedAccept(c)
    \/ \E cs \in SUBSET DOMAIN link, room \in Rooms : RatedReceive(cs, room)
    \/ RatedTimeout

ValveRuns == \E v \in Valves : SockEvent(v) \/ SchedEvent(v) \/ RetryTimeout(v)

Next ==
    \/ \E v \in Valves, size \in 1 .. RequestMax : QueueRequest(v, size)
    \/ \E v \in Valves : SockEvent(v) \/ SchedEvent(v) \/ RetryTimeout(v) \/ CloseValve(v)
    \/ \E i \in DOMAIN req, n \in 1 .. RequestMax : ImageCompletes(i, n)
    \/ \E c \in DOMAIN link : RatedAccept(c)
    \/ \E cs \in SUBSET DOMAIN link, room \in Rooms : RatedReceive(cs, room)
    \/ RatedTimeout \/ RatedDies \/ RatedStarts

Spec == Init /\ [][Next]_vars

\* The tapdisk and the daemon run their loops.
Fairness == WF_vars(RatedRuns) /\ \A v \in Valves :
                WF_vars(SockEvent(v)) /\ WF_vars(SchedEvent(v))

FairSpec == Spec /\ Fairness

-----------------------------------------------------------------------------
(* Properties *)

\* Every record of a valve is free, or of a request that is stored or forwarded
\* and not completed; and the timer that reconnects is one of an open valve.
RecordsConserved ==
    \A v \in Valves :
        /\ valve[v].free + Cardinality({i \in DOMAIN req : req[i].valve = v
                                            /\ req[i].st \in {"stored", "forw"}}) = MaxRequests
        /\ Range(valve[v].stor) = {i \in DOMAIN req : req[i].valve = v /\ req[i].st = "stored"}
        /\ valve[v].retry => valve[v].open /\ valve[v].sock = 0

\* The two ends of a connection agree on the credit: what a valve still needs is
\* what the daemon has on record, has yet to read, or has granted and the valve
\* has yet to read.
NeedAgreed ==
    \A v \in Valves : LET s == valve[v].sock IN
        s # 0 /\ link[s].rend =>
            valve[v].need = link[s].need
                            + FoldLeft(LAMBDA n, m : n + m.need, 0, link[s].up)
                            + FoldLeft(LAMBDA n, g : n + g, 0, link[s].down)

\* Every request that is stored is forwarded in the end.
StoredServed == []<>(\A i \in DOMAIN req : req[i].st # "stored")
=============================================================================
