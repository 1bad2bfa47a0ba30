----------------------------- MODULE MCDrivers -----------------------------
(***************************************************************************)
(* The event loop, the I/O queue and the drivers and tools that stand by   *)
(* themselves, in one run: the initial state says which part moves, the    *)
(* others rest.                                                            *)
(***************************************************************************)
EXTENDS Scheduler

CONSTANTS
    FailCrowded, ReuseOnCancel,      \* of TapQueue
    Sizes, StoreOnDead, CloseRetrying,  \* of RateControl
    Faults,                          \* of LeafCache
    Racing, ShortLog, WriteFails,    \* of ChangedBlocks
    Counts, ShortWrites              \* of Stream

VARIABLES
    part,
    iocbs, next, deferred, ndeferred, nTiocbs, nIocbs, freeOpios, aio, done, at, work,
    reports, owed, again, issues, errs,
    policy, valve, writeReq, link, wait, up, token, congested, conndeaths,
    kind, mode, free, img, guestReq, out, may, errors, panic,
    log, disk, open, flight, tool, made, changed, writes, tools, deaths,
    leaf, page, size, breq, reads, failures,
    total, sec_in, sec_out, count, pending, completed, n_free, err, streaming, output

\* Three neighbouring writes and a read.
MCIo == [t \in 1 .. 4 |-> [op |-> IF t = 4 THEN "read" ELSE "write",
                           off |-> IF t < 4 THEN t ELSE 9]]

Queue == INSTANCE TapQueue WITH
    Tiocbs <- 1 .. 4, Io <- MCIo, Size <- 2, UioFastIov <- 2, MaxIssues <- 5, MaxErrors <- 1,
    events <- done, mode <- at, count <- reports

Rate == INSTANCE RateControl WITH
    Valves <- {"v1"}, MaxRequests <- 2, RequestMax <- 3, Cap <- 1, Rooms <- {0, 2}, Low <- 1,
    MaxReqs <- 3, MaxConns <- 2, MaxDeaths <- 1, req <- writeReq, deaths <- conndeaths

Leaf == INSTANCE LeafCache WITH
    Sectors <- {1, 2}, MaxReq <- 1, MaxGuest <- 3, MaxErrors <- 1, req <- guestReq

Cbt == INSTANCE ChangedBlocks WITH
    Logs <- {"l1", "l2"}, PerByte <- 2, FirstSize <- 2, MaxSize <- 3, MaxWrites <- 2,
    MaxTools <- 4, MaxDeaths <- 1

Reads == INSTANCE BlockCache WITH
    NSectors <- 3, PerPage <- 2, CacheSize <- 4, NRequests <- 2, MaxReads <- 5, MaxFailures <- 1

Stream == INSTANCE Stream WITH
    Skip <- 1, ReqSize <- 2, MaxReqs <- 3, open <- streaming

\* A full LOCAL for llp, an image that fails for lle, and both for lcache.
MCFaults == [k \in {"llp", "lle", "lcache"} |->
                CASE k = "llp" -> {"reopen"} [] k = "lle" -> {"io"}
                  [] k = "lcache" -> {"io", "split", "reopen"}]

\* The daemon grants part of a need only out of the memory below the watermark.
MCSizes == [token |-> {1, 2}, meminfo |-> {1}]

RateRests ==
    /\ policy = "token" /\ up = TRUE /\ link = << >> /\ wait = << >> /\ writeReq = << >>
    /\ valve = [v \in {"v1"} |-> [Rate!NewValve EXCEPT !.open = FALSE]]
    /\ token = 0 /\ congested = FALSE /\ conndeaths = 0

StreamRests ==
    /\ total = 0 /\ sec_in = 0 /\ sec_out = 0 /\ count = 0 /\ pending = {} /\ completed = << >>
    /\ n_free = 0 /\ err = FALSE /\ streaming = FALSE /\ output = << >>

queueVars == <<iocbs, next, deferred, ndeferred, nTiocbs, nIocbs, freeOpios, aio, done, at,
               work, reports, owed, again, issues, errs>>
rateVars == <<policy, valve, writeReq, link, wait, up, token, congested, conndeaths>>
leafVars == <<kind, mode, free, img, guestReq, out, may, errors, panic>>
cbtVars == <<log, disk, open, flight, tool, made, changed, writes, tools, deaths>>
readVars == <<leaf, page, size, breq, reads, failures>>
streamVars == <<total, sec_in, sec_out, count, pending, completed, n_free, err, streaming, output>>

MCInit ==
    /\ part \in {"scheduler", "queue", "rate", "leaf", "cbt", "reads", "stream"}
    /\ Init /\ Queue!Init /\ Leaf!Init /\ Cbt!Init /\ Reads!Init
    /\ part = "leaf" \/ kind = "llp"
    /\ IF part = "rate" THEN Rate!Init ELSE RateRests
    /\ IF part = "stream" THEN Stream!Init ELSE StreamRests

MCNext ==
    \/ /\ part = "scheduler" /\ Next
       /\ UNCHANGED <<part, queueVars, rateVars, leafVars, cbtVars, readVars, streamVars>>
    \/ /\ part = "queue" /\ Queue!Next
       /\ UNCHANGED <<part, vars, rateVars, leafVars, cbtVars, readVars, streamVars>>
    \/ /\ part = "rate" /\ Rate!Next
       /\ UNCHANGED <<part, vars, queueVars, leafVars, cbtVars, readVars, streamVars>>
    \/ /\ part = "leaf" /\ Leaf!Next
       /\ UNCHANGED <<part, vars, queueVars, rateVars, cbtVars, readVars, streamVars>>
    \/ /\ part = "cbt" /\ Cbt!Next
       /\ UNCHANGED <<part, vars, queueVars, rateVars, leafVars, readVars, streamVars>>
    \/ /\ part = "reads" /\ Reads!Next
       /\ UNCHANGED <<part, vars, queueVars, rateVars, leafVars, cbtVars, streamVars>>
    \/ /\ part = "stream" /\ Stream!Next
       /\ UNCHANGED <<part, vars, queueVars, rateVars, leafVars, cbtVars, readVars>>

allVars == <<part, vars, queueVars, rateVars, leafVars, cbtVars, readVars, streamVars>>

MCSpec == /\ MCInit /\ [][MCNext]_allVars
          /\ Queue!Fairness /\ Rate!Fairness /\ Leaf!Fairness /\ Stream!Fairness

-----------------------------------------------------------------------------
(* Properties. *)

\* The I/O queue: every tiocb whose owner waits is in one place, once, and the arrays
\* and the pool of the queue are never exceeded (TapQueue).
QueueSafe == Queue!OncePlaced /\ Queue!QueueBounded

\* Bandwidth control: no record of a valve is lost, and the two ends of a connection
\* agree on the credit that is needed (RateControl).
RateSafe == Rate!RecordsConserved /\ Rate!NeedAgreed

\* The leaf caches: no acknowledged write is lost and no request of a pool leaks
\* (LeafCache).
LeafSafe == Leaf!WritesKept /\ Leaf!PoolConserved

\* Changed-block tracking: no change goes unreported (ChangedBlocks).
ChangesLogged == Cbt!ChangesLogged

\* The cache of a shared parent: a cached sector is its own (BlockCache).
CacheRight == Reads!CacheRight

\* tapdisk-stream writes what was asked for, in order (Stream).
StreamExact == Stream!StreamExact

\* What is asked of each part is answered: every owner of a tiocb is called back, every
\* stored write is let through, every request of the guest to a cached disk is
\* answered, and tapdisk-stream ends.
DriversAnswer ==
    /\ Queue!AllCalledBack /\ Rate!StoredServed /\ Leaf!GuestAnswered /\ Stream!StreamEnds
=============================================================================
