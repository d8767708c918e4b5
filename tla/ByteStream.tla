----------------------------- MODULE ByteStream -----------------------------
(***************************************************************************)
(* What one direction of a relayed session promises, whatever carries it.  *)
(* Units (writes in UpChannel, bytes in DownChannel) are numbered as they   *)
(* are sent.  The receiver gets 1, 2, 3, ... with none repeated and none    *)
(* left out.  A stream that ends by itself ends after everything sent,      *)
(* unless the sender has been told that something failed; one that is cut   *)
(* may end anywhere, and nothing arrives after an end.                      *)
(***************************************************************************)
EXTENDS Integers, Sequences

VARIABLES
    sent,    \* how many units have been sent
    got,     \* the units that arrived, in order
    end,     \* "open", "eof" or "cut"
    failed   \* the sender knows that something did not arrive

sv == <<sent, got, end, failed>>

Init == sent = 0 /\ got = << >> /\ end = "open" /\ failed = FALSE

Send == /\ end # "eof"
        /\ sent' \in Nat /\ sent' > sent
        /\ UNCHANGED <<got, end, failed>>

\* The next m units arrive.
Arrive == /\ end = "open"
          /\ \E m \in 1..(sent - Len(got)) :
                got' = got \o [i \in 1..m |-> Len(got) + i]
          /\ UNCHANGED <<sent, end, failed>>

Fail == failed' = TRUE /\ UNCHANGED <<sent, got, end>>

Eof == /\ end = "open"
       /\ Len(got) = sent \/ failed
       /\ end' = "eof"
       /\ UNCHANGED <<sent, got, failed>>

Cut == end = "open" /\ end' = "cut" /\ UNCHANGED <<sent, got, failed>>

Next == Send \/ Arrive \/ Fail \/ Eof \/ Cut

Spec == Init /\ [][Next]_sv
=============================================================================
