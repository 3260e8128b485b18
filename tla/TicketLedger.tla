---------------------------- MODULE TicketLedger ----------------------------
(***************************************************************************)
(* What the ticketing of an event promises, whatever happens around it:    *)
(* numbers are handed out 1, 2, 3, ... and a number that was revoked is    *)
(* never valid again.                                                      *)
(***************************************************************************)
EXTENDS Naturals

VARIABLES issued,   \* how many numbers were handed out
          live      \* those that still open the door

Init == issued = 0 /\ live = {}

\* one transaction hands out the next numbers, one or several
Issue ==
    /\ issued' \in Nat /\ issued' > issued
    /\ live' = live \cup (issued + 1) .. issued'

Revoke(S) ==
    /\ S \subseteq live
    /\ live' = live \ S
    /\ UNCHANGED issued

Next ==
    \/ Issue
    \/ \E S \in SUBSET live : Revoke(S)

Spec == Init /\ [][Next]_<<issued, live>>
=============================================================================
