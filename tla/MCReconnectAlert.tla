-------------------------- MODULE MCReconnectAlert --------------------------
(* Instances of ReconnectAlert for TLC.                                    *)
EXTENDS ReconnectAlert

\* The documented defaults in small numbers, a tighter one, and alerts off.
SmallConfigs == {[enabled |-> TRUE, threshold |-> 3, cooldown |-> 2],
                 [enabled |-> TRUE, threshold |-> 2, cooldown |-> 1],
                 [enabled |-> FALSE, threshold |-> 3, cooldown |-> 2]}
=============================================================================
