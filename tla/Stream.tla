------------------------------- MODULE Stream -------------------------------
(***************************************************************************)
(* tapdisk-stream (drivers/tapdisk-stream.c) writes the sectors of an image*)
(* to its output.  It keeps several reads in flight, which the VBD may     *)
(* complete in any order, and writes what they return in order.            *)
(***************************************************************************)
EXTENDS Integers, Sequences, FiniteSets, FiniteSetsExt, SequencesExt

CONSTANTS
    Counts,      \* the sectors to stream
    Skip,        \* the first of them
    ReqSize,     \* TD_STREAM_REQ_SIZE, in sectors
    MaxReqs,     \* TD_STREAM_MAX_REQS
    ShortWrites  \* whether the output may take less than it is given

VARIABLES
    total,      \* the count asked for
    sec_in,     \* the next sector to read
    sec_out,    \* the next sector to write
    count,      \* the sectors left to read
    pending,    \* pending_list
    completed,  \* completed_list
    n_free,     \* the requests that are free
    err, open,  \* s->err; the image is open
    output      \* what has been written: sectors

vars == <<total, sec_in, sec_out, count, pending, completed, n_free, err, open, output>>

\* tapdisk_stream_queue_requests and tapdisk_stream_queue_request, on a record s of
\* sec_in, count, pending, n_free and err.
QueueRequests(s) ==
    LET n    == IF s.err THEN 0 ELSE Min({s.n_free, (s.count + ReqSize - 1) \div ReqSize})
        secs == Min({n * ReqSize, s.count})
        new  == {[sec |-> s.sec_in + i * ReqSize, secs |-> Min({ReqSize, s.count - i * ReqSize})] :
                    i \in 0 .. n - 1}
    IN [s EXCEPT !.n_free = @ - n, !.sec_in = @ + secs, !.count = @ - secs,
                 !.pending = @ \cup new]

SetStream(stream) ==
    \E s \in {stream} :
        /\ sec_in' = s.sec_in /\ sec_out' = s.sec_out /\ count' = s.count
        /\ pending' = s.pending /\ completed' = s.completed /\ n_free' = s.n_free
        /\ err' = s.err /\ output' = s.output

State == [sec_in |-> sec_in, sec_out |-> sec_out, count |-> count, pending |-> pending,
          completed |-> completed, n_free |-> n_free, err |-> err, output |-> output]

\* tapdisk_stream_open, and the first requests of tapdisk_stream_run.
Init ==
    /\ total \in Counts /\ open = TRUE
    /\ LET s == QueueRequests([sec_in |-> Skip, sec_out |-> Skip, count |-> total,
                               pending |-> {}, completed |-> << >>, n_free |-> MaxReqs,
                               err |-> FALSE, output |-> << >>])
       IN /\ sec_in = s.sec_in /\ sec_out = s.sec_out /\ count = s.count
          /\ pending = s.pending /\ completed = s.completed /\ n_free = s.n_free
          /\ err = s.err /\ output = s.output

\* Mutant: the list is in the order of completion.
QueueCompleted_mutant(list, req) == Append(list, req)

\* tapdisk_stream_queue_completed.
QueueCompleted(list, req) ==
    LET before == SelectSeq(list, LAMBDA r : r.sec <= req.sec)
    IN before \o <<req>> \o SubSeq(list, Len(before) + 1, Len(list))

\* tapdisk_stream_complete_request of one request, up to the test of final.
Completed(s, req, error) ==
    IF error THEN [s EXCEPT !.pending = @ \ {req}, !.err = TRUE, !.n_free = @ + 1]
    ELSE [s EXCEPT !.pending = @ \ {req}, !.completed = QueueCompleted(@, req)]

\* tapdisk_stream_write_data and tapdisk_stream_print_request: what follows the last
\* sector written.  The result of write is not looked at.
WriteData(s, short) ==
    LET due == {k \in 0 .. Len(s.completed) :
                   \A i \in 1 .. k : s.completed[i].sec =
                       s.sec_out + FoldLeft(LAMBDA n, r : n + r.secs, 0, SubSeq(s.completed, 1, i - 1))}
        n     == Max(due)
        put   == [i \in 1 .. n |-> [j \in 1 .. s.completed[i].secs |-> s.completed[i].sec + j - 1]]
        data  == FoldLeft(LAMBDA a, b : a \o b, << >>, put)
    IN [s EXCEPT !.sec_out = @ + Len(data), !.n_free = @ + n,
                 !.completed = SubSeq(@, n + 1, Len(@)),
                 !.output = @ \o IF short THEN SubSeq(data, 1, Len(data) - 1) ELSE data]

\* tapdisk_stream_stop.
Stop(s) == s.pending = {} /\ (s.count = 0 \/ s.err)

\* tapdisk_vbd_kick completes the requests of reqs, in their order; the last callback
\* is the final one.
Kick(reqs, errors) ==
    LET done[i \in 0 .. Len(reqs)] ==
            IF i = 0 THEN State ELSE Completed(done[i - 1], reqs[i], reqs[i] \in errors)
    IN /\ open
       /\ \E short \in BOOLEAN : \E s \in {WriteData(done[Len(reqs)], short)} :
             /\ short => ShortWrites /\ s.sec_out > sec_out
             /\ IF Stop(s) THEN open' = FALSE /\ SetStream(s)
                ELSE SetStream(QueueRequests(s)) /\ UNCHANGED open
       /\ UNCHANGED total

Orders(set) == {t \in [1 .. Cardinality(set) -> set] : Range(t) = set}

Next ==
    \E batch \in (SUBSET pending) \ {{}} : \E reqs \in Orders(batch), errors \in SUBSET batch :
        Kick(reqs, errors)

Spec == Init /\ [][Next]_vars

\* The VBD completes what is queued.
Fairness == WF_vars(Next)

FairSpec == Spec /\ Fairness

-----------------------------------------------------------------------------
(* Properties. *)

\* What has been written is the beginning of what was asked for, in order, however the
\* reads are completed; and all of it once the image is closed without an error.
StreamExact ==
    /\ output = [i \in 1 .. Len(output) |-> Skip + i - 1] /\ Len(output) <= total
    /\ ~open /\ ~err => Len(output) = total

\* tapdisk-stream ends.
StreamEnds == <>(~open)
=============================================================================
