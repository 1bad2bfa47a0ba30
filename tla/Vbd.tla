-------------------------------- MODULE Vbd --------------------------------
(***************************************************************************)
(* A virtual block device of tapdisk (drivers/tapdisk-vbd.c) in the event  *)
(* loop of the server (drivers/tapdisk-server.c) and under the control     *)
(* messages that pause, resume and close it (drivers/tapdisk-control.c):   *)
(* the four request queues, retries and timeouts, the chain of images with *)
(* its secondary image, and the nested runs of the loop inside a handler.  *)
(*                                                                         *)
(* "vbd" is struct td_vbd_handle with its requests and the td_requests the *)
(* drivers hold; operators that take a parameter v are the C functions and *)
(* return what they leave in it.  "srv" is where the loop stands.          *)
(***************************************************************************)
EXTENDS Integers, Sequences, FiniteSets

CONSTANTS
  Reqs,         \* td_vbd_request_t of one ring
  Iovs,         \* segments of a request
  ReqOps,       \* subset of {"read", "write"}
  Kinds,        \* secondary image: "none", "mirror", "nbd" (a mirror), "standby"
  FailRes,      \* errors a driver may answer: subset of {"EBUSY", "EIO"}
  EnospcKinds,  \* kinds whose leaf may run out of space
  Messages,     \* subset of {"pause", "resume", "close", "force"}
  Signals,      \* subset of {"SIGINT", "SIGXFSZ"}
  OpenFails,    \* how an attempt to open may fail: subset of {"image", "secondary", "info"}
  NoImage

Flags == {"DEAD", "CLOSED", "QUIESCE_REQUESTED", "QUIESCED", "PAUSE_REQUESTED",
          "PAUSED", "SHUTDOWN_REQUESTED", "RESUME_FAILED"}

\* The images of a chain: overlay, secondary and parent.
Images == {"leaf", "second", "base"}
Errors == {"ok", "EBUSY", "EAGAIN", "EIO", "ENOSPC", "ENOSYS", "ESHUTDOWN"}

ASSUME ConstantsAssumption ==
  /\ IsFiniteSet(Reqs)
  /\ Iovs \in Nat \ {0}
  /\ ReqOps \subseteq {"read", "write"}
  /\ Kinds \subseteq {"none", "mirror", "nbd", "standby"}
  /\ EnospcKinds \subseteq Kinds
  /\ FailRes \subseteq {"EBUSY", "EIO"}
  /\ Messages \subseteq {"pause", "resume", "close", "force"}
  /\ Signals \subseteq {"SIGINT", "SIGXFSZ"}
  /\ OpenFails \subseteq {"image", "secondary", "info"}
  /\ NoImage \notin Images \cup Reqs

VARIABLES
  vbd,      \* struct td_vbd_handle
  srv,      \* tapdisk_server_iterate: where it is, and its loop variables
  ctl,      \* the exclusive control message being served, if any
  signals   \* signals not yet delivered

vars == <<vbd, srv, ctl, signals>>

\* A request: st tells whose it is, secs how many segment I/Os are pending,
\* expired that req_timeout has passed, recent that last_try is less than
\* TD_VBD_RETRY_INTERVAL ago.
Vreq == [st : {"idle", "queued", "answered"}, op : {"read", "write"},
         error : Errors, secs : Nat, submitting : 0 .. 1,
         expired : BOOLEAN, recent : BOOLEAN]

Treq == [req : Reqs, iov : 1 .. Iovs, image : Images]

VbdState ==
  [state : SUBSET Flags, kind : Kinds, ring : {"up", "dead", "gone"},
   flags : SUBSET {"SECONDARY", "STANDBY"},
   images : Seq(Images), ignore_enospc : SUBSET Images,
   secondary : Images \cup {NoImage}, retired : Images \cup {NoImage},
   secondary_mode : {"DISABLED", "MIRROR", "STANDBY"},
   new : Seq(Reqs), pending : SUBSET Reqs, failed : Seq(Reqs), completed : Seq(Reqs),
   req : [Reqs -> Vreq], treqs : SUBSET Treq,
   served : SUBSET Treq]        \* history: segments an image has carried out

SrvState == [pc : {"events", "check", "reissue", "issue_new", "submit", "tail",
                   "kick", "recheck", "end", "exited"},
             after : {"events", "kick"},        \* where check_state returns to
             ret : {"tail", "recheck"},         \* where issue_requests returns to
             todo : Seq(Reqs), loop : {"reissue", "issue_new"},
             cur : Reqs \cup {NoImage}, image : Images \cup {NoImage}, iov : Nat]

Elems(s) == {s[i] : i \in 1 .. Len(s)}

(* The elements of s that are in S, in their order.                         *)
Only(s, S) ==
  LET only[i \in 0 .. Len(s)] ==
        IF i = 0 THEN <<>>
        ELSE IF s[i] \in S THEN Append(only[i - 1], s[i]) ELSE only[i - 1]
  IN  only[Len(s)]
Without(s, x) == Only(s, Elems(s) \ {x})
set(v, f)     == [v EXCEPT !.state = @ \cup {f}]
clear(v, f)   == [v EXCEPT !.state = @ \ {f}]

-----------------------------------------------------------------------------
(* The request queues.                                                      *)

list_del(v, r) ==
  [v EXCEPT !.new = Without(@, r), !.failed = Without(@, r),
            !.completed = Without(@, r), !.pending = @ \ {r}]

to_pending(v, r)   == [list_del(v, r) EXCEPT !.pending = @ \cup {r}]
to_failed(v, r)    == [list_del(v, r) EXCEPT !.failed = Append(@, r)]
to_completed(v, r) == [list_del(v, r) EXCEPT !.completed = Append(@, r)]

queue_ready(v) ==
  v.state \cap {"DEAD", "CLOSED", "QUIESCED", "QUIESCE_REQUESTED"} = {}

retry_needed(v) == v.failed # <<>> \/ v.new # <<>>

(* Operators named "_mutant" state a plausible slip in the definition that  *)
(* follows them; no specification uses them.                                *)
request_should_retry_mutant(v, r) ==
  /\ v.state \cap {"DEAD", "SHUTDOWN_REQUESTED"} = {}
  /\ v.req[r].error \in {"EAGAIN", "EBUSY"}
request_should_retry(v, r) ==
  /\ v.state \cap {"DEAD", "SHUTDOWN_REQUESTED"} = {}
  /\ ~v.req[r].expired
  /\ v.req[r].error \in {"EAGAIN", "EBUSY"}

complete_vbd_request(v, r) ==
  IF v.req[r].submitting # 0 \/ v.req[r].secs # 0 THEN v
  ELSE IF v.req[r].error # "ok" /\ request_should_retry(v, r) THEN to_failed(v, r)
  ELSE to_completed(v, r)

kill_requests(v) ==
  LET R == Elems(v.new) \cup Elems(v.failed)
  IN  [v EXCEPT !.new = <<>>, !.failed = <<>>,
                !.completed = @ \o v.new \o v.failed,
                !.req = [r \in Reqs |-> IF r \in R
                                        THEN [v.req[r] EXCEPT !.error = "ESHUTDOWN"]
                                        ELSE v.req[r]]]

-----------------------------------------------------------------------------
(* The chain of images.                                                     *)

is_last_image(v, i) == v.images # <<>> /\ v.images[Len(v.images)] = i
next_image(v, i)    == LET k == CHOOSE k \in 1 .. Len(v.images) : v.images[k] = i
                       IN  v.images[k + 1]

disable_secondary(v) == [v EXCEPT !.secondary = NoImage, !.secondary_mode = "DISABLED"]

(* ENOSPC on an image that ignores it: give up the leaf of a mirror, or put *)
(* the standby image in front of it.                                        *)
on_enospc(v) ==
  CASE v.secondary_mode = "MIRROR" ->
         disable_secondary([v EXCEPT !.images = Tail(@), !.retired = Head(v.images)])
    [] v.secondary_mode = "STANDBY" ->
         disable_secondary([v EXCEPT !.images = <<v.secondary>> \o @])
    [] OTHER -> v

(* An NBD mirror that fails is dropped.                                     *)
on_nbd_error_mutant(v, i) == [v EXCEPT !.images = Without(@, i), !.retired = i]
on_nbd_error(v, i) ==
  LET u == [v EXCEPT !.images = Without(@, i), !.retired = i]
  IN  IF v.secondary_mode # "DISABLED" THEN disable_secondary(u) ELSE u

__complete_td_request_mutant(v, t, e) ==
  complete_vbd_request(
    [v EXCEPT !.treqs = @ \ {t}, !.req[t.req].secs = @ - 1, !.req[t.req].error = e], t.req)
__complete_td_request(v, t, e) ==
  complete_vbd_request(
    [v EXCEPT !.treqs = @ \ {t}, !.req[t.req].secs = @ - 1,
              !.req[t.req].error = IF @ # "ok" THEN @ ELSE e], t.req)

complete_td_request(v, t, res) ==
  LET ignored == res = "ENOSPC" /\ t.image \in v.ignore_enospc
      w       == IF ignored THEN on_enospc(v) ELSE v
      nbd     == /\ res # "ok" /\ ~ignored /\ v.kind = "nbd" /\ t.image = "second"
                 /\ t.image \in {w.secondary, w.retired}
      u       == IF nbd THEN on_nbd_error(w, t.image) ELSE w
      h       == IF res = "ok" THEN [u EXCEPT !.served = @ \cup {t}] ELSE u
  IN  __complete_td_request(h, t, IF ignored \/ nbd THEN "ok" ELSE res)

(* Reads do not stop at an NBD secondary, which forwards them (block-nbd.c). *)
reads_through(v, i) == v.kind = "nbd" /\ i = "second"

(* A driver without the data passes a read on; below the last image it is   *)
(* answered with zeros.                                                     *)
parent_image(v, i) ==
  LET p == IF v.retired = i THEN Head(v.images) ELSE next_image(v, i)
  IN  IF reads_through(v, p) THEN next_image(v, p) ELSE p

reissue_td_request(v, t) ==
  LET u == [v EXCEPT !.req[t.req].recent = TRUE]
  IN  IF is_last_image(v, t.image) THEN complete_td_request(u, t, "ok")
      ELSE [u EXCEPT !.treqs = (@ \ {t}) \cup {[t EXCEPT !.image = parent_image(v, t.image)]}]

forward_request(v, t) ==
  IF queue_ready(v) THEN reissue_td_request(v, t) ELSE complete_td_request(v, t, "EBUSY")

(* td_queue_read and td_queue_write: the driver keeps t, answers at once or *)
(* passes it on.                                                            *)
td_queue(v, t, how) ==
  LET u == [v EXCEPT !.treqs = @ \cup {t}]
  IN  CASE how = "async"   -> u
        [] how = "forward" -> forward_request(u, t)
        [] OTHER           -> complete_td_request(u, t, how)

(* What a driver may answer to t.                                           *)
Results(v, t) ==
  {"ok"} \cup FailRes \cup
  {e \in {"ENOSPC"} : v.kind \in EnospcKinds /\ t.image = "leaf" /\ v.req[t.req].op = "write"}

Hows(v, t) ==
  IF v.req[t.req].op = "write" THEN {"async"} \cup Results(v, t)
  ELSE IF reads_through(v, t.image) THEN {"forward"}
  ELSE {"async", "forward"} \cup Results(v, t)

-----------------------------------------------------------------------------
(* Quiescing, pausing, opening and closing.                                 *)

quiesce_queue(v) ==
  IF v.pending # {} THEN set(v, "QUIESCE_REQUESTED")
  ELSE set(clear(v, "QUIESCE_REQUESTED"), "QUIESCED")

start_queue(v) == clear(clear(v, "QUIESCED"), "QUIESCE_REQUESTED")
kill_queue(v)  == set(quiesce_queue(v), "DEAD")

close_vdi(v) ==
  set([v EXCEPT !.images = <<>>, !.retired = NoImage, !.ignore_enospc = {},
                !.secondary = IF v.secondary_mode # "MIRROR" THEN NoImage ELSE @],
      "CLOSED")

(* tapdisk_vbd_pause, and whether it succeeds.                              *)
pauses_mutant(v) == v.pending = {} /\ v.failed = <<>>
pauses(v) == v.pending = {}
pause(v) ==
  LET q == quiesce_queue(set(v, "PAUSE_REQUESTED"))
  IN  IF v.pending # {} THEN q
      ELSE set(clear(close_vdi(q), "PAUSE_REQUESTED"), "PAUSED")

(* tapdisk_vbd_add_secondary, the attachment succeeding or not.             *)
add_secondary(v, ok) ==
  IF ~ok THEN disable_secondary(v)
  ELSE IF "STANDBY" \in v.flags
  THEN [v EXCEPT !.secondary = "second", !.ignore_enospc = {"leaf"},
                 !.secondary_mode = "STANDBY"]
  ELSE [v EXCEPT !.secondary = "second", !.ignore_enospc = {"leaf"},
                 !.secondary_mode = "MIRROR", !.images = <<"leaf", "second", "base">>]

(* tapdisk_vbd_open_vdi when it succeeds: a failed NBD secondary does no    *)
(* harm; and when it fails, at the images or at the secondary.              *)
open_vdi(v, attached) ==
  LET u == clear([v EXCEPT !.images = <<"leaf", "base">>], "CLOSED")
  IN  IF "SECONDARY" \in v.flags THEN add_secondary(u, attached) ELSE u

open_vdi_failed(v, f) ==
  [IF f = "secondary" THEN disable_secondary(v) ELSE v EXCEPT !.flags = {}]

(* tapdisk_vbd_shutdown: the VBD is freed.  tapdisk_vbd_close says whether. *)
may_shutdown(v) ==
  /\ v.pending = {}
  /\ queue_ready(v) => v.new = <<>> /\ v.failed = <<>> /\ v.completed = <<>>

-----------------------------------------------------------------------------
(* tapdisk_vbd_issue_request, one segment at a time; the loops around it    *)
(* run over the queue as it was when they began.                            *)

goto(pc) == [srv EXCEPT !.pc = pc, !.cur = NoImage, !.image = NoImage, !.iov = 0]

(* The end of issue_request, and what the loop does with its return value:  *)
(* a request that failed and was not completed ends the loop.               *)
issued(v, r) == complete_vbd_request([v EXCEPT !.req[r].submitting = 0], r)
backs_off(v, r) == v.req[r].error # "ok" /\ v.req[r].secs = 0 /\ r \notin Elems(v.completed)

loop_on(v, r) ==
  IF ~backs_off(v, r) THEN [goto(srv.loop) EXCEPT !.todo = Tail(srv.todo)]
  ELSE IF srv.loop = "reissue" THEN [goto("reissue") EXCEPT !.todo = <<>>]
  ELSE IF srv.ret = "tail" THEN [goto("tail") EXCEPT !.todo = <<>>]
  ELSE [goto("end") EXCEPT !.todo = <<>>]

(* Up to the loop over the segments.                                        *)
BeginIssue(v, r) ==
  LET u == to_pending([v EXCEPT !.req[r].submitting = 1, !.req[r].recent = TRUE], r)
      e == IF v.images = <<>> THEN "ENOSYS" ELSE "EAGAIN"
      f == issued([u EXCEPT !.req[r].error = e], r)
  IN  IF v.images # <<>> /\ queue_ready(v)
      THEN /\ vbd' = u
           /\ srv' = [srv EXCEPT !.pc = "submit", !.cur = r, !.iov = 1,
                                 !.image = Head(v.images)]
      ELSE vbd' = f /\ srv' = loop_on(f, r)

mirrored(v, r) == v.secondary_mode = "MIRROR" /\ v.req[r].op = "write"

(* One segment: the mirror is queued before the main image.                 *)
uncounted_mirror_mutant(v, t, how_mirror, how) ==
  LET m == [t EXCEPT !.image = v.secondary]
      u == [v EXCEPT !.req[t.req].secs = @ + 1]
  IN  td_queue(IF mirrored(v, t.req) THEN td_queue(u, m, how_mirror) ELSE u, t, how)
submit_iov(v, t, how_mirror, how) ==
  LET m == [t EXCEPT !.image = v.secondary]
      n == IF mirrored(v, t.req) THEN 2 ELSE 1
      u == [v EXCEPT !.req[t.req].secs = @ + n]
  IN  td_queue(IF n = 2 THEN td_queue(u, m, how_mirror) ELSE u, t, how)

SubmitIov ==
  LET r == srv.cur
      t == [req |-> r, iov |-> srv.iov, image |-> srv.image]
      m == [t EXCEPT !.image = vbd.secondary]
  IN  /\ srv.pc = "submit" /\ srv.iov <= Iovs
      /\ \E how \in Hows(vbd, t),
            how_mirror \in IF mirrored(vbd, r) THEN Hows(vbd, m) ELSE {"async"} :
           vbd' = submit_iov(vbd, t, how_mirror, how)
      /\ srv' = [srv EXCEPT !.iov = @ + 1]
      /\ UNCHANGED <<ctl, signals>>

EndIssue ==
  /\ srv.pc = "submit" /\ srv.iov > Iovs
  /\ vbd' = issued(vbd, srv.cur)
  /\ srv' = loop_on(vbd', srv.cur)
  /\ UNCHANGED <<ctl, signals>>

(* tapdisk_vbd_reissue_failed_requests.                                     *)
Reissue ==
  LET r == Head(srv.todo) IN
  /\ srv.pc = "reissue"
  /\ IF srv.todo = <<>>
     THEN /\ srv' = [goto("issue_new") EXCEPT !.todo = vbd.new, !.loop = "issue_new"]
          /\ UNCHANGED vbd
     ELSE CASE "SHUTDOWN_REQUESTED" \in vbd.state ->
                 /\ vbd' = complete_vbd_request(vbd, r)
                 /\ srv' = [srv EXCEPT !.todo = Tail(@)]
            [] /\ "SHUTDOWN_REQUESTED" \notin vbd.state
               /\ vbd.req[r].error # "EBUSY" /\ vbd.req[r].recent ->
                 srv' = [srv EXCEPT !.todo = Tail(@)] /\ UNCHANGED vbd
            [] OTHER -> BeginIssue([vbd EXCEPT !.req[r].error = "ok"], r)
  /\ UNCHANGED <<ctl, signals>>

(* tapdisk_vbd_issue_new_requests.                                          *)
IssueNew_mutant ==
  /\ srv.pc = "issue_new"
  /\ IF srv.todo = <<>>
     THEN srv' = goto(IF srv.ret = "tail" THEN "tail" ELSE "end") /\ UNCHANGED vbd
     ELSE BeginIssue(vbd, Head(srv.todo))
  /\ UNCHANGED <<ctl, signals>>
IssueNew ==
  /\ srv.pc = "issue_new"
  /\ IF srv.todo = <<>>
     THEN srv' = goto(IF srv.ret = "tail" THEN "tail" ELSE "kick") /\ UNCHANGED vbd
     ELSE BeginIssue(vbd, Head(srv.todo))
  /\ UNCHANGED <<ctl, signals>>

-----------------------------------------------------------------------------
(* tapdisk_vbd_check_state, recheck_state and kick.                         *)

(* complete_vbd_request for every failed request that has timed out.        *)
check_complete_requests(v) ==
  LET late  == {r \in Elems(v.failed) : v.req[r].expired}
      again == {r \in late : request_should_retry(v, r)}
  IN  [v EXCEPT !.failed    = Only(@, Elems(@) \ late) \o Only(@, again),
                !.completed = @ \o Only(v.failed, late \ again)]

(* tapdisk_vbd_issue_requests with the queue running: a dead VBD kills its  *)
(* requests, another starts with the failed ones.                           *)
IssueRequests(v, ret) ==
  IF "DEAD" \in v.state
  THEN /\ vbd' = kill_requests(v)
       /\ srv' = goto(IF ret = "tail" THEN "tail" ELSE "kick")
  ELSE /\ vbd' = v
       /\ srv' = [goto("reissue") EXCEPT !.todo = v.failed, !.loop = "reissue", !.ret = ret]

CheckState ==
  LET v == check_complete_requests(vbd) IN
  /\ srv.pc = "check"
  /\ CASE "QUIESCED" \in vbd.state -> srv' = goto(srv.after) /\ UNCHANGED vbd
       [] /\ vbd.state \cap {"QUIESCED", "QUIESCE_REQUESTED", "PAUSE_REQUESTED"} = {}
          /\ retry_needed(v) -> IssueRequests(v, "tail")
       [] OTHER -> srv' = goto("tail") /\ vbd' = v
  /\ UNCHANGED <<ctl, signals>>

(* The rest of check_state: quiesce, pause and close if they were asked for.*)
after_quiesce(v) == IF "QUIESCE_REQUESTED" \in v.state THEN quiesce_queue(v) ELSE v
after_pause(v)   == IF "PAUSE_REQUESTED" \in v.state THEN pause(v) ELSE v

CheckTail ==
  LET v == after_pause(after_quiesce(vbd)) IN
  /\ srv.pc = "tail"
  /\ IF "SHUTDOWN_REQUESTED" \in v.state /\ may_shutdown(v)
     THEN vbd' = close_vdi(v) /\ srv' = goto("exited")
     ELSE vbd' = v /\ srv' = goto(srv.after)
  /\ UNCHANGED <<ctl, signals>>

(* Every completed request is answered; with its last one a dead ring goes. *)
Kick ==
  LET R == Elems(vbd.completed)
      q == [r \in Reqs |-> IF r \in R THEN [vbd.req[r] EXCEPT !.st = "answered"]
                           ELSE vbd.req[r]]
  IN  /\ srv.pc = "kick"
      /\ vbd' = [vbd EXCEPT !.completed = <<>>, !.req = q,
                   !.ring = IF @ = "dead" /\ \A r \in Reqs : q[r].st # "queued"
                            THEN "gone" ELSE @]
      /\ srv' = goto("recheck")
      /\ UNCHANGED <<ctl, signals>>

RecheckState ==
  /\ srv.pc = "recheck"
  /\ IF vbd.new = <<>> \/ vbd.state \cap {"QUIESCED", "QUIESCE_REQUESTED"} # {}
     THEN srv' = goto("end") /\ UNCHANGED vbd
     ELSE IssueRequests(vbd, "recheck")
  /\ UNCHANGED <<ctl, signals>>

(* The end of tapdisk_server_iterate.  A control handler that called it     *)
(* goes on (see below); otherwise it is called again.                       *)
Iterate ==
  /\ srv.pc = "end" /\ ctl = "idle"
  /\ srv' = goto("events")
  /\ UNCHANGED <<vbd, ctl, signals>>

(* scheduler_wait_for_events returns.                                       *)
Wake ==
  /\ srv.pc = "events"
  /\ srv' = [goto("check") EXCEPT !.after = "kick"]
  /\ UNCHANGED <<vbd, ctl, signals>>

-----------------------------------------------------------------------------
(* Events: requests, I/O completions, time, signals, control messages.      *)

QueueRequest(r, op) ==
  /\ srv.pc = "events" /\ vbd.ring = "up" /\ vbd.req[r].st = "idle"
  /\ vbd' = [vbd EXCEPT !.new = Append(@, r), !.req[r].st = "queued", !.req[r].op = op]
  /\ UNCHANGED <<srv, ctl, signals>>

CompleteTreq(t) ==
  /\ srv.pc = "events"
  /\ \E res \in Results(vbd, t) : vbd' = complete_td_request(vbd, t, res)
  /\ UNCHANGED <<srv, ctl, signals>>

ForwardTreq(t) ==
  /\ srv.pc = "events" /\ vbd.req[t.req].op = "read"
  /\ vbd' = forward_request(vbd, t)
  /\ UNCHANGED <<srv, ctl, signals>>

(* req_timeout passes for r; TD_VBD_RETRY_INTERVAL has passed since r was   *)
(* tried last.                                                              *)
Expire(r) ==
  /\ srv.pc = "events" /\ vbd.req[r].st = "queued" /\ ~vbd.req[r].expired
  /\ vbd' = [vbd EXCEPT !.req[r].expired = TRUE]
  /\ UNCHANGED <<srv, ctl, signals>>

BackedOff(r) ==
  /\ srv.pc = "events" /\ vbd.req[r].recent
  /\ vbd' = [vbd EXCEPT !.req[r].recent = FALSE]
  /\ UNCHANGED <<srv, ctl, signals>>

(* tapdisk_server_signal_handler: SIGINT closes, SIGXFSZ kills the queue.   *)
Sigint ==
  /\ srv.pc = "events" /\ "SIGINT" \in signals
  /\ IF may_shutdown(vbd) THEN vbd' = close_vdi(vbd) /\ srv' = goto("exited")
     ELSE vbd' = set(vbd, "SHUTDOWN_REQUESTED") /\ UNCHANGED srv
  /\ signals' = signals \ {"SIGINT"}
  /\ UNCHANGED ctl

Sigxfsz ==
  /\ srv.pc \notin {"submit", "exited"} /\ "SIGXFSZ" \in signals
  /\ vbd' = kill_queue(vbd)
  /\ signals' = signals \ {"SIGXFSZ"}
  /\ UNCHANGED <<srv, ctl>>

(* tapdisk_control_pause_vbd.  A handler that must wait runs the loop; it   *)
(* tries again when its interval has passed, or gives up with its client.   *)
PauseMsg ==
  /\ srv.pc = "events" /\ ctl = "idle" /\ "pause" \in Messages /\ vbd.ring = "up"
  /\ vbd' = pause(vbd)
  /\ ctl' = IF pauses(vbd) THEN "idle" ELSE "pausing"
  /\ UNCHANGED <<srv, signals>>

PauseAgain ==
  /\ srv.pc = "end" /\ ctl = "pausing"
  /\ vbd' = pause(vbd)
  /\ ctl' = IF pauses(vbd) THEN "idle" ELSE "pausing"
  /\ srv' = goto("events")
  /\ UNCHANGED signals

PauseLater ==
  /\ srv.pc = "end" /\ ctl = "pausing"
  /\ srv' = goto("events")
  /\ ctl' \in {"pausing", "idle"}
  /\ UNCHANGED <<vbd, signals>>

(* tapdisk_control_resume_vbd.  Attempts to open fail as f says, if at all, *)
(* before the last one succeeds, or all of them do.                         *)
resumed(v, attached) ==
  clear(clear(clear(start_queue(open_vdi(v, attached)), "RESUME_FAILED"), "PAUSED"),
        "PAUSE_REQUESTED")

Attachments(v) == IF v.kind = "nbd" THEN BOOLEAN ELSE {TRUE}
Tried(v)       == {v} \cup {open_vdi_failed(v, f) : f \in
                             {g \in OpenFails \ {"info"} :
                                g = "secondary" => "SECONDARY" \in v.flags /\ v.kind # "nbd"}}

Resume ==
  /\ srv.pc = "events" /\ ctl = "idle" /\ "resume" \in Messages /\ vbd.ring = "up"
  /\ "PAUSED" \in vbd.state
  /\ \E v \in Tried(vbd), a \in Attachments(vbd) : vbd' = resumed(v, a)
  /\ srv' = [goto("check") EXCEPT !.after = "events"]
  /\ UNCHANGED <<ctl, signals>>

ResumeFails ==
  /\ srv.pc = "events" /\ ctl = "idle" /\ "resume" \in Messages /\ vbd.ring = "up"
  /\ "PAUSED" \in vbd.state
  /\ \E v \in (Tried(vbd) \ {vbd}) \cup
              {open_vdi(vbd, TRUE) : f \in OpenFails \cap {"info"}} :
       vbd' = close_vdi(set(v, "RESUME_FAILED"))
  /\ UNCHANGED <<srv, ctl, signals>>

(* tapdisk_control_close_image: the ring is disconnected; unless forced the *)
(* handler waits for the requests of a dead ring, and then for the pending  *)
(* requests.                                                                *)
CloseMsg(type) ==
  /\ srv.pc = "events" /\ ctl = "idle" /\ type \in Messages /\ vbd.ring = "up"
  /\ vbd' = [vbd EXCEPT !.ring = IF \E r \in Reqs : vbd.req[r].st = "queued"
                                 THEN "dead" ELSE "gone"]
  /\ ctl' = IF type = "close" THEN "closing" ELSE "closing_forced"
  /\ srv' = goto("end")
  /\ UNCHANGED signals

contains_dead_rings(v) == v.ring = "dead"

CloseWaits ==
  /\ srv.pc = "end"
  /\ \/ ctl = "closing" /\ contains_dead_rings(vbd)
     \/ ctl \in {"closing", "closing_forced"} /\ vbd.pending # {}
  /\ srv' = goto("events")
  /\ UNCHANGED <<vbd, ctl, signals>>

CloseImage ==
  /\ srv.pc = "end" /\ vbd.pending = {}
  /\ \/ ctl = "closing" /\ ~contains_dead_rings(vbd)
     \/ ctl = "closing_forced"
  /\ vbd' = close_vdi(vbd)
  /\ ctl' = "idle"
  /\ srv' = goto("events")
  /\ UNCHANGED signals

Init ==
  \E k \in Kinds :
  /\ vbd = open_vdi(
       [state |-> {"CLOSED"}, kind |-> k, ring |-> "up",
        flags |-> IF k = "none" THEN {} ELSE IF k = "standby" THEN {"SECONDARY", "STANDBY"}
                  ELSE {"SECONDARY"},
        images |-> <<>>, ignore_enospc |-> {}, secondary |-> NoImage, retired |-> NoImage,
        secondary_mode |-> "DISABLED",
        new |-> <<>>, pending |-> {}, failed |-> <<>>, completed |-> <<>>,
        req |-> [r \in Reqs |-> [st |-> "idle", op |-> "read", error |-> "ok", secs |-> 0,
                                 submitting |-> 0, expired |-> FALSE, recent |-> FALSE]],
        treqs |-> {}, served |-> {}], TRUE)
  /\ srv = [pc |-> "events", after |-> "kick", ret |-> "tail", todo |-> <<>>,
            loop |-> "reissue", cur |-> NoImage, image |-> NoImage, iov |-> 0]
  /\ ctl = "idle"
  /\ signals = Signals

ServerStep == \/ SubmitIov \/ EndIssue \/ Reissue \/ IssueNew
              \/ CheckState \/ CheckTail \/ Kick \/ RecheckState \/ Iterate
              \/ CloseWaits \/ CloseImage \/ PauseAgain \/ PauseLater

Next ==
  \/ ServerStep \/ Wake
  \/ \E r \in Reqs : \/ \E op \in ReqOps : QueueRequest(r, op)
                     \/ Expire(r) \/ BackedOff(r)
  \/ \E t \in vbd.treqs : CompleteTreq(t) \/ ForwardTreq(t)
  \/ Sigint \/ Sigxfsz
  \/ PauseMsg \/ Resume \/ ResumeFails
  \/ \E type \in {"close", "force"} : CloseMsg(type)

Spec == Init /\ [][Next]_vars


(* The loop runs on; drivers answer what they hold, and select reports it   *)
(* in some later iteration (strong fairness: events are only dispatched     *)
(* while the loop waits); time passes; the pause handler's 10 ms interval   *)
(* is over in some later iteration.                                         *)
Fairness ==
  /\ WF_vars(ServerStep \/ Wake)
  /\ SF_vars(PauseAgain)
  /\ SF_vars(\E t \in vbd.treqs : CompleteTreq(t))
  /\ SF_vars(\E r \in Reqs : Expire(r))

FairSpec == Spec /\ Fairness

-----------------------------------------------------------------------------
(* Properties.                                                              *)

(* Every variable has its type.                                             *)
TypeOK ==
  /\ vbd \in VbdState
  /\ srv \in SrvState
  /\ ctl \in {"idle", "pausing", "closing", "closing_forced"}
  /\ signals \subseteq Signals

(* Once the queue is quiesced (and so whenever a pause has closed the       *)
(* images), no request is pending and no driver holds an I/O of this VBD,   *)
(* and whatever a driver still holds refers to an image that is open: in    *)
(* the chain, or retired from it.                                           *)
ClosedImagesIdle ==
  /\ "QUIESCED" \in vbd.state \/ vbd.images = <<>> => vbd.pending = {} /\ vbd.treqs = {}
  /\ \A t \in vbd.treqs : t.image \in Elems(vbd.images) \cup {vbd.retired}

(* secs_pending counts the I/Os in flight, whatever the mirror, ENOSPC and  *)
(* the order of completions; a pending request always has one, or is being  *)
(* submitted: none waits for an answer that will not come.                  *)
SecsPendingExact ==
  \A r \in Reqs :
     LET n == Cardinality({t \in vbd.treqs : t.req = r})
     IN  /\ vbd.req[r].secs = n
         /\ r \in vbd.pending <=> n > 0 \/ srv.cur = r

(* A queued request is in exactly one of the four queues, once; an answered *)
(* or idle one in none: none is lost or answered twice.                     *)
OneQueue ==
  \A r \in Reqs :
     LET at(s) == Cardinality({i \in 1 .. Len(s) : s[i] = r})
     IN  at(vbd.new) + at(vbd.failed) + at(vbd.completed)
           + Cardinality(vbd.pending \cap {r})
         = IF vbd.req[r].st = "queued" THEN 1 ELSE 0

(* An answer without error is true: every segment of a write is in an image *)
(* of the chain that serves reads, every segment of a read was delivered by *)
(* a driver or lies below the chain (the ENOSPC and NBD cases of            *)
(* tapdisk_vbd_complete_td_request).                                        *)
AckedServed ==
  \A r \in Reqs :
     vbd.req[r].st = "answered" /\ vbd.req[r].error = "ok" =>
       \A i \in 1 .. Iovs : \E t \in vbd.served :
          /\ t.req = r /\ t.iov = i
          /\ vbd.req[r].op = "write" /\ vbd.images # <<>> =>
               t.image \in Elems(vbd.images) /\ ~reads_through(vbd, t.image)

(* A mirror that writes go to is an open image, in the chain.               *)
SecondaryInChain ==
  queue_ready(vbd) /\ vbd.secondary_mode = "MIRROR" => vbd.secondary \in Elems(vbd.images)

(* tapdisk_server_iterate does not return, to be called again and sleep,    *)
(* with finished requests unanswered, except for the one second that        *)
(* tapdisk_server_set_retry_timeout lets it sleep.                          *)
NoSleepOnAnswers ==
  [][Iterate => vbd.completed = <<>> \/ retry_needed(vbd)]_vars

(* Unless the VBD is quiesced, dead or closed, a request is answered:       *)
(* EBUSY retries end with req_timeout at the latest.                        *)
Answered ==
  \A r \in Reqs : vbd.req[r].st = "queued" ~> vbd.req[r].st = "answered" \/ ~queue_ready(vbd)

(* A pause message is answered, however many I/Os were in flight.           *)
PauseEnds == ctl = "pausing" ~> ctl # "pausing"

(* A close message is answered, except on a quiesced VBD (see CloseCompletes). *)
CloseEnds == ctl \in {"closing", "closing_forced"} ~> ctl = "idle" \/ "QUIESCED" \in vbd.state

(* "Wait for requests against dead rings to complete": the wait ends.       *)
CloseCompletes == ctl = "closing" ~> ctl = "idle"

(* The queues of the VBD agree with each other, with the I/O the drivers    *)
(* hold and with the images that are open.                                  *)
QueuesSound == TypeOK /\ OneQueue /\ SecsPendingExact /\ ClosedImagesIdle

(* The waits of the pause and close messages end.                           *)
ControlEnds == PauseEnds /\ CloseEnds
=============================================================================
