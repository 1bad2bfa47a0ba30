---------------------------- MODULE MCTapCtl ----------------------------
(* Instances of TapCtl for TLC. *)
EXTENDS TapCtl

CONSTANTS c1, c2, c3, m1, m2

Cmd(op, m) == [op |-> op, minor |-> m]

Three(p1, p2, p3) == (c1 :> p1) @@ (c2 :> p2) @@ (c3 :> p3)

\* A create against a destroy of the same minor; a pause and a destroy of one
\* VBD while a third client lists; a forced and an orderly close.  Of m2 there is no
\* ioctl: a forced close waits for its requests, against a pause whose client may give
\* up, and a destroy that ends the process.
MCPrograms ==
    { Three(<<Cmd("create", m1)>>, <<Cmd("destroy", m1)>>, << >>),
      Three(<<Cmd("pause", m1)>>, <<Cmd("destroy", m1)>>, <<Cmd("list", m1)>>),
      Three(<<Cmd("force", m1)>>, <<Cmd("pause", m1), Cmd("unpause", m1)>>, << >>),
      Three(<<Cmd("pause", m2)>>, <<Cmd("force", m2)>>, <<Cmd("destroy", m2)>>) }
MCStarts == {{}, {m1}, {m2}}

\* A forced close where there is no ioctl, and an orderly one, that their client gives up.
MCForced ==
    { Three(<<Cmd("force", m2)>>, <<Cmd("list", m1)>>, <<Cmd("list", m1)>>) }
MCClosed ==
    { Three(<<Cmd("destroy", m1)>>, <<Cmd("list", m1)>>, <<Cmd("list", m1)>>) }

\* Three clients whose commands are exclusive.
MCThree ==
    { Three(<<Cmd("pause", m1)>>, <<Cmd("destroy", m1)>>, <<Cmd("pause", m2)>>) }
MCBoth == {{m1, m2}}

\* A pause that its client gives up, a pause that is woken on top of it, and a client that
\* comes back for the entry.
MCGivenUp ==
    { Three(<<Cmd("pause", m1)>>, <<Cmd("pause", m2), Cmd("list", m1)>>, <<Cmd("pause", m1)>>) }
=============================================================================
