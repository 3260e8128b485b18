-------------------------- MODULE MCRegistrations --------------------------
(***************************************************************************)
(* Small instances of Registrations for TLC.                               *)
(***************************************************************************)
EXTENDS Registrations, TLC

\* Guests and workers are interchangeable: for runs without liveness.
Symmetry == Permutations(Guests) \cup Permutations(Workers)

Body(c, m, s) == [capacity |-> c, model |-> m, status |-> s]

\* raise the capacity, lower it, take it away, close the event
CapacityPatches ==
    {Body(c, Keep, Keep) : c \in Capacities} \cup {Body(None, Keep, Keep), Body(Keep, Keep, "closed")}
\* switch the model
ModelPatches == {Body(Keep, m, Keep) : m \in Models}
\* the form of the edit page: a capacity for the capacity model, none otherwise
FormPatches ==
    {Body(c, "capacity", Keep) : c \in Capacities} \cup {Body(None, m, Keep) : m \in Models \ {"capacity"}}
AllPatches == CapacityPatches \cup ModelPatches \cup FormPatches
\* the organizer only ever sets the larger capacity
RaisePatches == {Body(c, Keep, Keep) : c \in {d \in Capacities : \A e \in Capacities : d >= e}}

\* Liveness runs start from an open event with the smallest capacity.
OpenInit ==
    /\ Init
    /\ event.status = "published"
    /\ event.capacity # None /\ \A c \in Capacities : event.capacity <= c

OpenFairSpec == OpenInit /\ [][Next]_vars /\ Fairness
=============================================================================
