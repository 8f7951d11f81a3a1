------------------------ MODULE ConnectionLifecycle ------------------------
(***************************************************************************)
(* What a LiveConnection promises to those who start and stop it and to    *)
(* whoever watches its states: there is one link, it is open or not; a     *)
(* report follows the previous one in the order of the state diagram; once *)
(* a stop is requested nothing is opened until it is answered by           *)
(* "offline".  Calls that cross void the promise.  LiveConnection.tla      *)
(* implements it.                                                          *)
(***************************************************************************)

VARIABLES
    reported,   \* the last state handed to the observer
    open,       \* a websocket is open
    stopping,   \* a stop waits for the link to be torn down
    crossed     \* two calls have crossed

vars == <<reported, open, stopping, crossed>>

Init == reported = "offline" /\ open = FALSE /\ stopping = FALSE /\ crossed = FALSE

\* The first round of a new task.
Opening ==
    /\ reported = "offline" /\ ~stopping /\ ~open
    /\ reported' = "connecting"
    /\ UNCHANGED <<open, stopping>>

Opened ==
    /\ reported \in {"connecting", "reconnecting"} /\ ~stopping /\ ~open
    /\ reported' = "authenticating"
    /\ open' = TRUE
    /\ UNCHANGED stopping

Authenticated ==
    /\ open /\ ~stopping
    /\ reported \in {"authenticating", "live"}
    /\ reported' = "live"
    /\ UNCHANGED <<open, stopping>>

\* A failure to connect, or an open link that breaks.
Broken ==
    /\ reported \in {"connecting", "reconnecting", "authenticating", "live"}
    /\ open \/ ~stopping
    /\ open' = FALSE
    /\ reported' = "error"
    /\ UNCHANGED stopping

\* The link is closed in good order; the next report tells why.
Closed ==
    /\ open
    /\ open' = FALSE
    /\ UNCHANGED <<reported, stopping>>

Retrying ==
    /\ reported \in {"error", "authenticating", "live"} /\ ~stopping /\ ~open
    /\ reported' = "reconnecting"
    /\ UNCHANGED <<open, stopping>>

StopRequested ==
    /\ stopping' = TRUE
    /\ UNCHANGED <<reported, open>>

\* A stop is answered, at once if there is nothing to tear down.
Stopped ==
    /\ ~open
    /\ reported' = "offline"
    /\ stopping' = FALSE
    /\ UNCHANGED open

\* Nothing is promised from here on.
Crossing == crossed'

Next ==
    \/ /\ crossed' = crossed
       /\ \/ Opening \/ Opened \/ Authenticated \/ Broken \/ Closed \/ Retrying
          \/ StopRequested \/ Stopped
    \/ Crossing

Spec == Init /\ [][Next]_vars
=============================================================================
