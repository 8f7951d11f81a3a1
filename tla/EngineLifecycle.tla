-------------------------- MODULE EngineLifecycle --------------------------
(***************************************************************************)
(* What a LiveEngine promises to the host that starts and stops it: it is  *)
(* closed until it is started, it closes once a stop() has waited for its  *)
(* parts, it speaks only while it is open, and a stop() that raises leaves *)
(* it broken for good.  LiveEngine.tla implements it, and RoomReload.tla   *)
(* is a host that keeps to it.                                             *)
(***************************************************************************)
EXTENDS Naturals

VARIABLES
    phase,   \* "closed", "starting", "open", "stopping" or "broken"
    said     \* how many suggestions were made

vars == <<phase, said>>

Init == phase = "closed" /\ said = 0

Move(from, to) == phase \in from /\ phase' = to /\ UNCHANGED said

StartRequested == Move({"closed"}, "starting")

Refused == Move({"starting"}, "closed")

Opened == Move({"starting"}, "open")

StopRequested == Move({"closed", "open"}, "stopping")

Stopped == Move({"stopping"}, "closed")

StopRaises == Move({"open"}, "broken")

Say == phase = "open" /\ said' = said + 1 /\ UNCHANGED phase

Next ==
    \/ StartRequested \/ Refused \/ Opened
    \/ StopRequested \/ Stopped \/ StopRaises
    \/ Say

Spec == Init /\ [][Next]_vars
=============================================================================
