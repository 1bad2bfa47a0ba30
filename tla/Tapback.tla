------------------------------ MODULE Tapback ------------------------------
(***************************************************************************)
(* tapback, the daemon that runs the XenBus protocol between a guest's     *)
(* block front-end and the tapdisk that serves it (tapback/backend.c,      *)
(* frontend.c, tapback.c).  A master watches the back-end directory of     *)
(* XenStore and forks a slave for each domain; the slave keeps a record    *)
(* for each VBD and moves it along as watches fire.                        *)
(*                                                                         *)
(* One guest domain is modelled.  A watch event only names a path: the     *)
(* handler reads XenStore as it is by then, so what it sees may be newer   *)
(* than its event, and the values cached in the record older than both.    *)
(* tapback's own writes fire its watches too.  A handler is one step; the  *)
(* toolstack, the guest and the tapdisks are external.                     *)
(***************************************************************************)
EXTENDS Integers, Sequences, FiniteSets, FiniteSetsExt, SequencesExt

CONSTANTS
    Devices,      \* VBDs of the domain
    PhysKeys,     \* keys that may name the tapdisk: "physical-device", "physical-device-path"
    MaxQueue,     \* the others wait while as many events are queued
    MaxPlugs,     \* bound on the times a VBD is plugged
    MaxRings,     \* bound on the rings the front-ends publish
    MaxRestarts,  \* bound on the times the slave is killed and started again
    DomainLives,  \* bound on the times the domain's directory is created
    BackendAlone, \* whether the toolstack may remove a back-end and leave its front-end
    FastReplug,   \* whether it may plug a VBD again before tapback has let go of it
    Deaths,       \* how a tapdisk may die: "exit" (its socket is removed) or "kill"
    DieServing    \* whether it may die while it serves a ring

Keys == {"physical-device", "physical-device-path"}

ASSUME ConstantsAssumption ==
    /\ IsFiniteSet(Devices)
    /\ PhysKeys \subseteq Keys /\ PhysKeys # {}
    /\ {MaxQueue, MaxPlugs, MaxRings, MaxRestarts, DomainLives} \subseteq Nat
    /\ BackendAlone \in BOOLEAN /\ FastReplug \in BOOLEAN /\ DieServing \in BOOLEAN
    /\ Deaths \subseteq {"exit", "kill"}

VARIABLES
    xs,      \* XenStore, by device: the back-end's and the front-end's keys
    dom,     \* backend/vbd3/<domid> exists
    tapd,    \* the tapdisks
    dev,     \* the slave's records (vbd_t)
    slave,   \* the slave process: "none", "started" or "run"
    reg,     \* the master has the slave on its list
    mev,     \* the master has watch events to handle
    queue,   \* the slave's watch events
    panic,   \* an ASSERT has failed
    plugs, rings, restarts, lives

bounds == <<plugs, rings, restarts, lives>>
vars == <<xs, dom, tapd, dev, slave, reg, mev, queue, panic, bounds>>

\* Keys of one VBD.  key names the tapdisk, hp is hotplug-status = connected,
\* st the back-end's state, fst the front-end's and ring what it published.
NoNode == [there |-> FALSE, front |-> FALSE, key |-> "none", hp |-> FALSE, st |-> "none",
           fst |-> "none", ring |-> 0]

\* vbd_t.  phys stands for major and minor, fp for frontend_path and the watch
\* on the front-end's state; fst and st are the states last seen and written.
NoDev  == [there |-> FALSE, phys |-> "none", tap |-> FALSE, conn |-> FALSE, hp |-> FALSE,
           fp |-> FALSE, fst |-> "none", st |-> "none"]
NewDev == [NoDev EXCEPT !.there = TRUE]

\* ring: what the tapdisk is connected to; mine: the running slave did it;
\* dead: a ring that was disconnected with requests pending is still mapped.
NoTap  == [up |-> "no", ring |-> 0, mine |-> FALSE, dead |-> FALSE]

Init ==
    /\ xs = [d \in Devices |-> NoNode] /\ dom = FALSE
    /\ tapd = [d \in Devices |-> NoTap]
    /\ dev = [d \in Devices |-> NoDev]
    /\ slave = "none" /\ reg = FALSE /\ mev = FALSE /\ queue = << >> /\ panic = FALSE
    /\ plugs = [d \in Devices |-> 0] /\ rings = 0 /\ restarts = 0 /\ lives = 0

\* An event equal to the last one in the queue changes nothing more.
Fire(q, e) == IF q # << >> /\ Last(q) = e THEN q ELSE Append(q, e)

-----------------------------------------------------------------------------
(* The handlers work on what belongs to one device: its keys x, its record *)
(* v, its tapdisk t and the events out that they cause.  busy says whether  *)
(* the tapdisk has requests of its ring pending when it is told to let go.  *)

World(d, busy) == [d |-> d, x |-> xs[d], v |-> dev[d], t |-> tapd[d], out |-> << >>,
                   err |-> "0", panic |-> FALSE, busy |-> busy]

\* Op applied to the outcome w of what came before.
Then(w, Op(_)) == CHOOSE r \in {Op(u) : u \in {w}} : TRUE

Ok(w) == [w EXCEPT !.err = "0"]
Fail(w, e) == [w EXCEPT !.err = e]
Emit(w, e) == [w EXCEPT !.out = Fire(@, e)]

\* tapback_device_printf: a write creates the directory if it is not there.
Printf(w) == Emit([w EXCEPT !.x.there = TRUE], <<"back", w.d, "other">>)

\* xenbus_switch_state.
Switch(w, s) == Printf([w EXCEPT !.x.st = s, !.v.st = s, !.err = "0"])

\* tapdisk_xenblkif_disconnect: with requests pending the ring is marked dead
\* and stays mapped until the last of them completes.
DisconnectRing(t, busy) == [t EXCEPT !.ring = 0, !.mine = FALSE, !.dead = t.dead \/ busy]

\* tap_ctl_disconnect_xenblkif and its errors, by the fate of the tapdisk.
Disconnect(w) ==
    CASE w.t.up = "no" \/ w.t.up = "exit" -> Fail(w, "ENOENT")
      [] w.t.up = "kill"                  -> Fail(w, "ECONNREFUSED")
      [] w.t.ring = 0                     -> Fail(w, "ENODEV")
      [] OTHER -> [w EXCEPT !.t = DisconnectRing(w.t, w.busy), !.err = "0"]

\* connect_tap.  A tapdisk that is connected already answers EALREADY, which
\* is taken for success.
ConnectTap(w) ==
    IF w.v.conn THEN [w EXCEPT !.panic = TRUE]
    ELSE CASE ~w.v.tap         -> Fail(w, "ESRCH")
           [] w.x.ring = 0     -> Fail(w, "ENOENT")
           [] w.t.up # "yes"   -> Fail(w, IF w.t.up = "kill" THEN "ECONNREFUSED" ELSE "ENOENT")
           [] w.t.ring # 0     -> [w EXCEPT !.v.conn = TRUE, !.err = "0"]
           [] OTHER            -> [w EXCEPT !.v.conn = TRUE, !.t.ring = w.x.ring,
                                            !.t.mine = TRUE, !.err = "0"]

\* connect_frontend: the size of the disk, then the state.
ConnectFrontend(w) == Switch(Printf(w), "Connected")

XenbusConnect(w) ==
    Then(ConnectTap(w),
         LAMBDA u : IF u.err = "0" /\ ~u.panic THEN ConnectFrontend(u) ELSE u)

\* Mutant: the state is written without disconnecting.
BackendClose_mutant(w) == Switch([w EXCEPT !.v.conn = FALSE], "Closed")

\* backend_close.  Only ESRCH, which the calls do not return, is let through.
BackendClose(w) ==
    IF ~w.v.conn THEN Switch(w, "Closed")
    ELSE IF ~w.v.tap THEN [w EXCEPT !.panic = TRUE]
    ELSE Then(Disconnect(w),
              LAMBDA u : IF u.err # "0" THEN u
                         ELSE Switch([u EXCEPT !.v.conn = FALSE], "Closed"))

\* Mutant: Initialised is only acted upon when the back-end waits for it.
FrontendChanged_mutant(w, s) ==
    Then([w EXCEPT !.v.fst = s, !.err = "0"],
         LAMBDA u :
             CASE s = "Initialising" -> IF u.v.hp THEN Switch(u, "InitWait") ELSE u
               [] s \in {"Initialised", "Connected"} ->
                     IF u.v.hp /\ u.v.st = "InitWait" THEN XenbusConnect(u) ELSE u
               [] s = "Closing" -> Switch(u, "Closing")
               [] s = "Closed"  -> BackendClose(u)
               [] OTHER         -> u)

\* frontend_changed.
FrontendChanged(w, s) ==
    Then([w EXCEPT !.v.fst = s, !.err = "0"],
         LAMBDA u :
             CASE s = "Initialising" -> IF u.v.hp THEN Switch(u, "InitWait") ELSE u
               [] s \in {"Initialised", "Connected"} ->
                     IF u.v.hp /\ u.v.st # "Connected" THEN XenbusConnect(u) ELSE u
               [] s = "Closing" -> Switch(u, "Closing")
               [] s = "Closed"  -> BackendClose(u)
               [] OTHER         -> u)

\* tapback_backend_handle_otherend_watch.  A front-end that is gone takes the
\* back-end's directory with it.
HandleOtherend(w) ==
    IF ~w.v.fp THEN Fail(w, "ENODEV")
    ELSE IF w.x.fst # "none" THEN FrontendChanged(w, w.x.fst)
    ELSE IF ~w.x.there THEN Ok(w)
    ELSE Emit([w EXCEPT !.x = NoNode, !.err = "0"], <<"back", w.d, "none">>)

-----------------------------------------------------------------------------
(* backend.c *)

\* tapback_backend_destroy_device.  When the tapdisk has gone it returns 0 and
\* leaves the record where it is.
DestroyDevice(w) ==
    IF w.v.tap /\ w.v.conn
    THEN Then(Disconnect(w),
              LAMBDA u : CASE u.err = "0"      -> [u EXCEPT !.v = NoDev]
                           [] u.err = "ENOENT" -> Ok(u)
                           [] OTHER            -> u)
    ELSE [w EXCEPT !.v = NoDev, !.err = "0"]

\* tapback_backend_create_device.
CreateDevice(w) == Printf([w EXCEPT !.v = NewDev])

\* find_tapdisk and find_tapdisk_by_pid, then tap_ctl_info.
FindTapdisk(w) == IF w.t.up = "yes" THEN "0" ELSE "ESRCH"

\* What both handlers of a new tapdisk end with; a failure to connect is ignored.
FoundTapdisk(w) ==
    Then(Printf([w EXCEPT !.v.tap = TRUE]),
         LAMBDA u : Ok(FrontendChanged(u, u.v.fst)))

NotFound(w, e) == Fail([w EXCEPT !.v.tap = FALSE], e)

\* physical_device_changed.
PhysicalDeviceChanged(w) ==
    LET u == [w EXCEPT !.v.phys = "physical-device"]
    IN CASE w.x.key # "physical-device"                  -> NotFound(w, "ENOENT")
         [] w.v.phys \notin {"none", "physical-device"}  -> NotFound(w, "ENOSYS")
         [] FindTapdisk(w) # "0"                         -> NotFound(u, FindTapdisk(w))
         [] OTHER                                        -> FoundTapdisk(u)

\* physical_device_path_changed: only the minor is set.
PhysicalDevicePathChanged(w) ==
    LET u == [w EXCEPT !.v.phys = IF @ = "none" THEN "physical-device-path" ELSE @]
    IN CASE w.x.key # "physical-device-path" -> NotFound(w, "ENOENT")
         [] FindTapdisk(w) # "0"             -> NotFound(w, FindTapdisk(w))
         [] OTHER                            -> FoundTapdisk(u)

\* frontend: a new watch fires at once.
Frontend(w) ==
    CASE w.v.fp       -> Ok(w)
      [] ~w.x.front   -> Fail(w, "ENOENT")
      [] OTHER        -> Emit([w EXCEPT !.v.fp = TRUE, !.err = "0"], <<"front", w.d>>)

\* Mutant: it connects whatever the state of the back-end.
HotplugStatusChanged_mutant(w) ==
    IF w.v.fp /\ w.x.hp /\ w.v.fst \in {"Initialised", "Connected"}
    THEN Ok(XenbusConnect([w EXCEPT !.v.hp = TRUE]))
    ELSE Ok([w EXCEPT !.v.hp = w.x.hp])

\* hotplug_status_changed; device-type is a key of the front-end.
HotplugStatusChanged(w) ==
    CASE ~w.v.fp -> Fail(w, "EINVAL")
      [] ~w.x.hp -> Fail(w, "ENOENT")
      [] OTHER   ->
            Then([w EXCEPT !.v.hp = TRUE],
                 LAMBDA u : IF u.x.fst = "none" THEN Fail(u, "ENOENT")
                            ELSE Ok(FrontendChanged(u, u.v.fst)))

\* reconnect goes on after ENOENT and stops at any other error.
Unless(w, Op(_)) == IF w.err \in {"0", "ENOENT"} THEN Then(w, Op) ELSE w

\* reconnect.  The key physical-device-path is not looked at.
Reconnect(w) ==
    Then(Frontend(w),
         LAMBDA u :
             IF u.err = "ENOENT" THEN Ok(u)
             ELSE Unless(Unless(Unless(Unless(u, PhysicalDeviceChanged),
                                       HotplugStatusChanged),
                                HandleOtherend),
                         Ok))

\* The end of tapback_backend_probe_device: the key the watch fired on.
Despatch(w, comp) ==
    CASE comp = "physical-device"      -> PhysicalDeviceChanged(w)
      [] comp = "physical-device-path" -> PhysicalDevicePathChanged(w)
      [] comp = "frontend"             -> Frontend(w)
      [] comp = "hotplug-status"       -> HotplugStatusChanged(w)
      [] OTHER                         -> w

\* tapback_backend_probe_device.  A device that could not be set up when it was
\* created is destroyed; the event of its first write tries again.
ProbeDevice(w, comp) ==
    CASE w.v.there /\ ~w.x.there -> DestroyDevice(w)
      [] ~w.v.there /\ w.x.there ->
            Then(Despatch(Reconnect(CreateDevice(w)), comp),
                 LAMBDA u : IF u.err = "0" THEN u ELSE Fail(DestroyDevice(u), u.err))
      [] w.v.there /\ w.x.there  -> Despatch(Ok(w), comp)
      [] OTHER                   -> Ok(w)

\* tapback_probe_domain and tapback_domain_scan: the records there are, then
\* the directories there are.
ProbeDomain(busy) == [d \in Devices |-> ProbeDevice(World(d, busy), "none")]

OneDevice(d, w) == [[other \in Devices |-> World(other, FALSE)] EXCEPT ![d] = w]

-----------------------------------------------------------------------------
(* The slave *)

\* What a handler leaves behind.
Apply(ws) ==
    /\ xs' = [d \in Devices |-> ws[d].x]
    /\ dom' = (dom \/ \E d \in Devices : ws[d].x.there)
    /\ tapd' = [d \in Devices |-> ws[d].t]
    /\ panic' = (panic \/ \E d \in Devices : ws[d].panic)
    /\ mev' = (mev \/ \E d \in Devices : ws[d].x # xs[d])

Continue(ws) ==
    /\ dev' = [d \in Devices |-> ws[d].v]
    /\ queue' = FoldLeft(Fire, Tail(queue),
                         FoldSet(LAMBDA d, out : out \o ws[d].out, << >>, Devices))
    /\ UNCHANGED slave

Running == slave = "run" /\ queue # << >> /\ ~panic

\* tapback_backend_handle_backend_watch in the slave: the domain has gone, and
\* the slave with it.
SlaveLeaves ==
    /\ Running /\ Head(queue)[1] # "front" /\ ~dom
    /\ \E busy \in BOOLEAN : \E ws \in {ProbeDomain(busy)} : Apply(ws)
    /\ slave' = "none" /\ queue' = << >> /\ dev' = [d \in Devices |-> NoDev]
    /\ UNCHANGED <<reg, bounds>>

\* The same: the event of the watch itself, or of the domain's directory.
SlaveDomainWatch ==
    /\ Running /\ Head(queue)[1] = "domain" /\ dom
    /\ \E busy \in BOOLEAN : \E ws \in {ProbeDomain(busy)} : Apply(ws) /\ Continue(ws)
    /\ UNCHANGED <<reg, bounds>>

\* The same: a device or one of its keys.
SlaveDeviceWatch ==
    /\ Running /\ Head(queue)[1] = "back" /\ dom
    /\ LET d == Head(queue)[2]
       IN \E busy \in BOOLEAN :
             \E ws \in {OneDevice(d, ProbeDevice(World(d, busy), Head(queue)[3]))} :
                Apply(ws) /\ Continue(ws)
    /\ UNCHANGED <<reg, bounds>>

\* tapback_read_watch with the token of the front-ends.
SlaveFrontWatch ==
    /\ Running /\ Head(queue)[1] = "front"
    /\ LET d == Head(queue)[2]
       IN \E busy \in BOOLEAN :
             \E ws \in {OneDevice(d, HandleOtherend(World(d, busy)))} :
                Apply(ws) /\ Continue(ws)
    /\ UNCHANGED <<reg, bounds>>

\* tapback_backend_create: the watch of the domain's directory fires at once.
SlaveStart ==
    /\ slave = "started"
    /\ slave' = "run" /\ queue' = <<<<"domain">>>>
    /\ UNCHANGED <<xs, dom, tapd, dev, reg, mev, panic, bounds>>

\* The slave is killed and started again by hand: the master does not watch it.
SlaveRestarts ==
    /\ slave = "run" /\ restarts < MaxRestarts /\ ~panic
    /\ slave' = "started" /\ queue' = << >>
    /\ dev' = [d \in Devices |-> NoDev]
    /\ tapd' = [d \in Devices |-> [tapd[d] EXCEPT !.mine = FALSE]]
    /\ restarts' = restarts + 1
    /\ UNCHANGED <<xs, dom, reg, mev, panic, plugs, rings, lives>>

\* tapback_backend_handle_backend_watch in the master.
MasterWatch ==
    /\ mev /\ mev' = FALSE
    /\ reg' = dom
    /\ slave' = IF dom /\ ~reg THEN "started" ELSE slave
    /\ UNCHANGED <<xs, dom, tapd, dev, queue, panic, bounds>>

-----------------------------------------------------------------------------
(* The toolstack, the guest and the tapdisks (external) *)

Outside == Len(queue) < MaxQueue /\ ~panic

\* Watches fire in a slave that runs; those of front-ends where there is one.
Changed(e) ==
    IF slave = "run" /\ (e[1] = "front" => dev[e[2]].fp) THEN Fire(queue, e) ELSE queue

\* A VBD is plugged: its tapdisk runs, and both directories are made at once.
Plug(d) ==
    /\ Outside /\ ~xs[d].there /\ xs[d].fst = "none" /\ plugs[d] < MaxPlugs
    /\ dom \/ (slave = "none" /\ lives < DomainLives)
    /\ FastReplug \/ ~dev[d].there
    /\ plugs' = [plugs EXCEPT ![d] = @ + 1]
    /\ lives' = IF dom THEN lives ELSE lives + 1
    /\ xs' = [xs EXCEPT ![d] = [NoNode EXCEPT !.there = TRUE, !.front = TRUE,
                                              !.fst = "Initialising"]]
    /\ tapd' = [tapd EXCEPT ![d] = IF @.up = "yes" THEN @ ELSE [NoTap EXCEPT !.up = "yes"]]
    /\ dom' = TRUE /\ mev' = TRUE
    /\ queue' = Changed(<<"back", d, "frontend">>)
    /\ UNCHANGED <<dev, slave, reg, panic, rings, restarts>>

WriteKey(d, key) ==
    /\ Outside /\ xs[d].there /\ xs[d].front /\ xs[d].key = "none"
    /\ xs' = [xs EXCEPT ![d].key = key]
    /\ mev' = TRUE /\ queue' = Changed(<<"back", d, key>>)
    /\ UNCHANGED <<dom, tapd, dev, slave, reg, panic, bounds>>

WriteHotplug(d) ==
    /\ Outside /\ xs[d].there /\ xs[d].front /\ ~xs[d].hp
    /\ xs' = [xs EXCEPT ![d].hp = TRUE]
    /\ mev' = TRUE /\ queue' = Changed(<<"back", d, "hotplug-status">>)
    /\ UNCHANGED <<dom, tapd, dev, slave, reg, panic, bounds>>

\* The front-end is removed, and tapback left to remove the back-end.
RemoveFront(d) ==
    /\ Outside /\ xs[d].fst # "none"
    /\ xs' = [xs EXCEPT ![d].fst = "none", ![d].ring = 0]
    /\ queue' = Changed(<<"front", d>>)
    /\ UNCHANGED <<dom, tapd, dev, slave, reg, mev, panic, bounds>>

\* Both are removed in one transaction, or the back-end alone.
Unplug(d) ==
    /\ Outside /\ xs[d].there
    /\ \/ /\ xs' = [xs EXCEPT ![d] = NoNode]
          /\ queue' = IF slave # "run" THEN queue
                      ELSE Fire(Changed(<<"front", d>>), <<"back", d, "none">>)
       \/ /\ BackendAlone
          /\ xs' = [xs EXCEPT ![d] = [NoNode EXCEPT !.fst = xs[d].fst, !.ring = xs[d].ring]]
          /\ queue' = Changed(<<"back", d, "none">>)
    /\ mev' = TRUE
    /\ UNCHANGED <<dom, tapd, dev, slave, reg, panic, bounds>>

\* The domain is destroyed and its whole directory removed.
RemoveDomain ==
    /\ Outside /\ dom
    /\ dom' = FALSE /\ xs' = [d \in Devices |-> NoNode]
    /\ mev' = TRUE /\ queue' = Changed(<<"domain">>)
    /\ UNCHANGED <<tapd, dev, slave, reg, panic, bounds>>

FrontTo(d, s, ring) ==
    /\ Outside
    /\ xs' = [xs EXCEPT ![d].fst = s, ![d].ring = ring]
    /\ queue' = Changed(<<"front", d>>)
    /\ UNCHANGED <<dom, tapd, dev, slave, reg, mev, panic, plugs, restarts, lives>>

\* The driver need not wait for InitWait the first time, when the back-end has
\* no state yet; once reopened it does.
FrontInitialises(d) ==
    /\ xs[d].fst = "Initialising" /\ rings < MaxRings /\ xs[d].st # "Closed"
    /\ rings' = rings + 1
    /\ FrontTo(d, "Initialised", rings + 1)

FrontConnects(d) ==
    /\ xs[d].fst = "Initialised" /\ xs[d].st = "Connected"
    /\ FrontTo(d, "Connected", xs[d].ring) /\ UNCHANGED rings

FrontCloses(d) ==
    /\ \/ xs[d].fst \in {"Initialised", "Connected"} /\ FrontTo(d, "Closing", xs[d].ring)
       \/ /\ xs[d].fst \in {"Initialising", "Initialised", "Connected", "Closing"}
          /\ FrontTo(d, "Closed", xs[d].ring)
    /\ UNCHANGED rings

\* The driver is loaded again: it waits for the back-end to be closed.
FrontReopens(d) ==
    /\ xs[d].fst = "Closed" /\ xs[d].st = "Closed"
    /\ FrontTo(d, "Initialising", xs[d].ring) /\ UNCHANGED rings

\* tapdisk_xenblkif_complete_request: the last request of the dead rings, which
\* are unmapped.
DeadRingEnds(d) ==
    /\ tapd[d].dead
    /\ tapd' = [tapd EXCEPT ![d].dead = FALSE]
    /\ UNCHANGED <<xs, dom, dev, slave, reg, mev, queue, panic, bounds>>

TapdiskDies(d) ==
    /\ tapd[d].up = "yes" /\ (tapd[d].ring = 0 \/ DieServing)
    /\ \E how \in Deaths : tapd' = [tapd EXCEPT ![d] = [NoTap EXCEPT !.up = how]]
    /\ UNCHANGED <<xs, dom, dev, slave, reg, mev, queue, panic, bounds>>

-----------------------------------------------------------------------------

SlaveStep == SlaveLeaves \/ SlaveDomainWatch \/ SlaveDeviceWatch \/ SlaveFrontWatch

Next ==
    \/ SlaveStep \/ SlaveStart \/ SlaveRestarts \/ MasterWatch \/ RemoveDomain
    \/ \E d \in Devices :
          \/ Plug(d) \/ WriteHotplug(d) \/ RemoveFront(d) \/ Unplug(d)
          \/ \E key \in PhysKeys : WriteKey(d, key)
          \/ FrontInitialises(d) \/ FrontConnects(d) \/ FrontCloses(d) \/ FrontReopens(d)
          \/ TapdiskDies(d) \/ DeadRingEnds(d)

Spec == Init /\ [][Next]_vars

\* The processes of tapback run: tapback reads its watches in a loop.
FairSpec == Spec /\ WF_vars(SlaveStep) /\ WF_vars(SlaveStart) /\ WF_vars(MasterWatch)

-----------------------------------------------------------------------------
(* Properties *)

\* No ASSERT of connect_tap or backend_close fails, in whatever order the keys
\* are written and the watches fire.
NoPanic == ~panic

\* What the back-end's state tells the front-end is true of the tapdisk, if the
\* running slave has connected it: Connected, and the tapdisk serves the ring
\* the front-end has published; Closed or InitWait, and it has been told to let
\* go of every ring and takes no more requests from any.
RingFresh ==
    \A d \in Devices : tapd[d].mine /\ xs[d].there =>
        /\ xs[d].st = "Connected" /\ xs[d].fst # "none" => tapd[d].ring = xs[d].ring
        /\ xs[d].st \notin {"InitWait", "Closed"}

\* More than tapback ensures: when the back-end says Closed or InitWait no ring
\* is mapped any more, so that the guest may take its pages back.
PagesBack ==
    \A d \in Devices : xs[d].there /\ xs[d].st \in {"InitWait", "Closed"} => ~tapd[d].dead

\* The same as RingFresh, whoever connected the tapdisk: what connect_tap expects of EALREADY.
RingMatches ==
    \A d \in Devices : xs[d].there /\ tapd[d].ring # 0 =>
        /\ xs[d].st = "Connected" /\ xs[d].fst # "none" => tapd[d].ring = xs[d].ring
        /\ xs[d].st \notin {"InitWait", "Closed"}

\* When the slave has handled every event, a VBD that is not in XenStore has no
\* record and its tapdisk no live ring; and a slave whose domain has gone has
\* left none behind.
RemovedReleased ==
    \A d \in Devices :
        /\ slave = "run" /\ queue = << >> /\ ~xs[d].there => ~dev[d].there /\ ~tapd[d].mine
        /\ slave = "none" => ~tapd[d].mine

\* A VBD with all of its keys whose front-end waits for the back-end is
\* connected in the end, unless one of them changes its mind.
Waiting(d) == /\ xs[d].there /\ xs[d].key = "physical-device" /\ xs[d].hp
              /\ xs[d].fst = "Initialised" /\ tapd[d].up = "yes"
PlugsConnect ==
    \A d \in Devices : Waiting(d) ~> (xs[d].st = "Connected" \/ ~Waiting(d))

\* A domain with devices is served by a slave, however its directory came about.
DomainServed == dom ~> (slave = "run" \/ ~dom)

\* What tapback tells the two ends is true of them, and it lets go of what is gone.
BackendTrue == RingFresh /\ RemovedReleased

\* Everybody who waits for tapback is served: a front-end and a whole domain.
FrontendsServed == PlugsConnect /\ DomainServed
=============================================================================
