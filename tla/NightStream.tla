----------------------------- MODULE NightStream -----------------------------
(***************************************************************************)
(* What sending a response promises: the client sees a growing prefix of   *)
(* the response and nothing else, and the sender's result tells the truth  *)
(* about it: NIGHT_OK when all of it has been passed to the socket,        *)
(* NIGHT_AGAIN when some of it has not.                                    *)
(***************************************************************************)
EXTENDS Naturals, Sequences

CONSTANT MaxTotal       \* bound: bytes of a response

VARIABLES total,    \* length of the response; its bytes are 1 .. total
          wire,     \* the bytes passed to the socket, in order
          rc        \* "none", "busy" or how the response ended

svars == <<total, wire, rc>>

Prefix(n) == [i \in 1..n |-> i]

Init == total = 0 /\ wire = <<>> /\ rc = "none"

Begin == /\ rc # "busy" /\ rc' = "busy"
         /\ total' \in 0..MaxTotal /\ wire' = <<>>

Deliver == /\ rc = "busy"
           /\ \E n \in Len(wire) + 1..total : wire' = Prefix(n)
           /\ UNCHANGED <<total, rc>>

Finish == /\ rc = "busy"
          /\ \/ rc' = "OK" /\ Len(wire) = total
             \/ rc' = "AGAIN" /\ Len(wire) < total
             \/ rc' = "ERROR"
          /\ UNCHANGED <<total, wire>>

Next == Begin \/ Deliver \/ Finish

StreamSpec == Init /\ [][Next]_svars
=============================================================================
