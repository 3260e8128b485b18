------------------------------- MODULE PlusOnes -------------------------------
(***************************************************************************)
(* What the +1 of an invite promises: it goes to one person, never to the  *)
(* host, and once taken back it is gone.                                   *)
(***************************************************************************)
CONSTANTS Hosts, Users, Nobody

VARIABLES holder,   \* whom each host's +1 went to
          void      \* the hosts whose +1 was taken back

Init == holder = [h \in Hosts |-> Nobody] /\ void = {}

Give(h, u) ==
    /\ holder[h] = Nobody /\ u # h
    /\ holder' = [holder EXCEPT ![h] = u]
    /\ UNCHANGED void

TakeBack(h) ==
    /\ holder[h] # Nobody
    /\ void' = void \cup {h}
    /\ UNCHANGED holder

Next == \E h \in Hosts : TakeBack(h) \/ \E u \in Users : Give(h, u)

Spec == Init /\ [][Next]_<<holder, void>>
=============================================================================
