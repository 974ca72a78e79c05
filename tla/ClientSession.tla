--------------------------- MODULE ClientSession ----------------------------
(***************************************************************************)
(* What the connection of a client promises to the rest of the system: it  *)
(* has at most one socket, every socket is new, a client that was closed   *)
(* (stopped, revoked or superseded) stays so until it is started again,    *)
(* and it never goes from one socket to the next without having given the  *)
(* first one up.                                                           *)
(***************************************************************************)
CONSTANTS Sockets, NoSock

VARIABLES
    mode,    \* "off", "waiting" or "connected"
    socket,  \* the current socket
    used     \* the sockets opened so far

vars == <<mode, socket, used>>

Init == mode = "off" /\ socket = NoSock /\ used = {}

\* From "off" by start(), from "waiting" by the reconnect timer.
Dial(s) ==
    /\ mode \in {"off", "waiting"}
    /\ s \notin used
    /\ mode' = "connected"
    /\ socket' = s
    /\ used' = used \cup {s}

Drop ==
    /\ mode = "connected"
    /\ mode' = "waiting"
    /\ socket' = NoSock
    /\ UNCHANGED used

Close ==
    /\ mode' = "off"
    /\ socket' = NoSock
    /\ UNCHANGED used

Next == Drop \/ Close \/ \E s \in Sockets : Dial(s)

Spec == Init /\ [][Next]_vars
=============================================================================
