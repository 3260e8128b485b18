------------------------ MODULE RegistrationsProofs ------------------------
(***************************************************************************)
(* What Registrations keeps for every set of guests, workers, capacities   *)
(* and PATCH bodies, and every bound: types, the numbering of the tickets, *)
(* that live tickets and approved signups match, the seats, the order of   *)
(* the waitlist, and that a signup made again is there.                    *)
(***************************************************************************)
EXTENDS Registrations, FiniteSetTheorems, TLAPS

Inv == TypeOK /\ Bookkeeping /\ NumbersRunOn /\ LiveTicketIsApproved

-----------------------------------------------------------------------------
\* The maximum that issueTicketTx reads is the length of the numbering.
LEMMA LastOfRun ==
    ASSUME NEW T, NEW k \in Nat, {t.number : t \in T} = 1 .. k
    PROVE  LastNumber(T) = k
<1>1. \A t \in T : t.number \in 1 .. k
  OBVIOUS
<1>2. CASE k = 0
  <2>1. T = {}
    BY <1>1, <1>2
  <2> QED BY <1>2, <2>1 DEF LastNumber
<1>3. CASE k > 0
  <2>1. PICK t \in T : t.number = k
    BY <1>3, k \in 1 .. k
  <2>2. \A n \in {u.number : u \in T} : (\A u \in T : u.number <= n) <=> n = k
    BY <1>1, <2>1
  <2>3. T # {} /\ k \in {u.number : u \in T}
    BY <2>1
  <2> QED BY <2>2, <2>3 DEF LastNumber
<1> QED BY <1>2, <1>3

-----------------------------------------------------------------------------
\* A request that only moved on, touching no row, keeps the bookkeeping as soon
\* as it keeps its own part of it and takes the lock from nobody.
LEMMA OthersKeep ==
    ASSUME TypeOK, Bookkeeping, NEW w \in Processes, NEW r \in Requests,
           req' = [req EXCEPT ![w] = r],
           UNCHANGED <<regs, tickets, clock>>,
           \A v \in Processes : v # w /\ lock = v => lock' = v,
           InFlight(w)',
           r.pc \in {"enter", "create"} => req[w].pc = "enter" /\ r.reg = req[w].reg
    PROVE  Bookkeeping'
<1>1. \A v \in Processes : v # w => req'[v] = req[v]
  BY DEF TypeOK
<1>2. req'[w] = r
  BY DEF TypeOK
<1>3. \A v \in Processes : InFlight(v)'
  <2> SUFFICES ASSUME NEW v \in Processes, v # w PROVE InFlight(v)'
    OBVIOUS
  <2>1. InFlight(v) /\ req'[v] = req[v] /\ (lock = v => lock' = v)
    BY <1>1 DEF Bookkeeping
  <2> QED BY <2>1 DEF InFlight
<1>4. \A v, u \in Processes :
        v # u /\ req'[v].pc \in {"enter", "create"} /\ req'[u].pc \in {"enter", "create"}
          => req'[v].reg # req'[u].reg
  BY <1>1, <1>2 DEF Bookkeeping
<1> QED BY <1>3, <1>4 DEF Bookkeeping

\* The lock holder commits: nobody else is past the lock, so what it does to the
\* rows and the tickets concerns nobody else as long as no fresh id is used.
LEMMA CommitKeeps ==
    ASSUME TypeOK, Bookkeeping, NEW w \in Processes, NEW r \in Requests,
           req' = [req EXCEPT ![w] = r], req[w].pc \in Holds,
           r.pc \in {"idle", "vacancy"}, clock' = clock,
           \A d \in Signups : /\ regs'[d].status # "absent" => regs'[d].guest \in Guests
                              /\ regs[d].status = "absent" =>
                                   \/ regs'[d].status = "absent"
                                   \/ req[w].pc = "create" /\ d = req[w].reg,
           \A t \in tickets' : t.reg # 0 => regs'[t.reg].status # "absent",
           LastNumber(tickets') \in Nat
    PROVE  Bookkeeping'
<1>1. \A v \in Processes : v # w => req'[v] = req[v]
  BY DEF TypeOK
<1>2. req'[w] = r
  BY DEF TypeOK
<1>3. lock = w /\ \A v \in Processes : v # w => req[v].pc \notin Holds
  BY DEF Bookkeeping, InFlight
<1>4. \A v \in Processes : InFlight(v)'
  <2> SUFFICES ASSUME NEW v \in Processes PROVE InFlight(v)'
    OBVIOUS
  <2>1. CASE v = w
    BY <1>2, <2>1 DEF InFlight, Opening, Holds
  <2>2. CASE v # w
    <3>1. InFlight(v) /\ req'[v] = req[v] /\ req[v].pc \notin Holds
      BY <1>1, <1>3, <2>2 DEF Bookkeeping
    <3>2. req[v].pc = "enter" => regs'[req[v].reg].status = "absent"
      BY <3>1, <2>2 DEF Bookkeeping, InFlight
    <3> QED BY <3>1, <3>2 DEF InFlight, Holds
  <2> QED BY <2>1, <2>2
<1>5. \A v, u \in Processes :
        v # u /\ req'[v].pc \in {"enter", "create"} /\ req'[u].pc \in {"enter", "create"}
          => req'[v].reg # req'[u].reg
  BY <1>1, <1>2 DEF Bookkeeping
<1>6. \A d \in Signups : regs'[d].status # "absent" => d <= clock'
  BY DEF Bookkeeping, InFlight
<1> QED BY <1>4, <1>5, <1>6 DEF Bookkeeping

-----------------------------------------------------------------------------
LEMMA IdleIsRequest == Idle \in Requests
BY DEF Idle, Requests, Pcs, SeenEvents, Bodies

\* Updating fields of a request within their types gives a request.
LEMMA RequestUpdates ==
    ASSUME NEW r \in Requests, NEW p \in Pcs
    PROVE  /\ [r EXCEPT !.pc = p] \in Requests
           /\ \A d \in Signups : [r EXCEPT !.pc = p, !.reg = d] \in Requests
           /\ \A n \in Nat : [r EXCEPT !.pc = p, !.last = n] \in Requests
           /\ \A b \in BOOLEAN : [r EXCEPT !.pc = p, !.was = b] \in Requests
           /\ \A e \in SeenEvents : [r EXCEPT !.pc = p, !.ev = e] \in Requests
           /\ \A g \in Guests, e \in SeenEvents :
                [r EXCEPT !.pc = p, !.guest = g, !.ev = e] \in Requests
           /\ \A d \in Signups, s \in Statuses : [r EXCEPT !.pc = p, !.reg = d, !.to = s] \in Requests
           /\ \A body \in Bodies, e \in SeenEvents :
                [r EXCEPT !.pc = p, !.patch = body, !.ev = e] \in Requests
           /\ \A s \in Statuses, n \in Nat, e \in SeenEvents :
                [r EXCEPT !.pc = p, !.to = s, !.last = n, !.ev = e] \in Requests
           /\ \A S \in SUBSET Signups, n \in Nat :
                [r EXCEPT !.pc = p, !.seats = S, !.last = n] \in Requests
BY DEF Requests

LEMMA PcsAre ==
    /\ {"idle", "lookup", "unlink", "wipe", "begin", "patch", "requeue", "vacancy"} \subseteq Pcs
    /\ {"enter", "approving", "removing", "lineup", "create", "approve", "remove", "promote"}
         \subseteq Pcs
BY DEF Pcs, Waits, Holds, Unlocked

\* Types are kept by every action.  The numbers need the bookkeeping: the last
\* number is a natural, and the guest of a ticket comes from a row or a request.
LEMMA TypesKept ==
    ASSUME TypeOK, Bookkeeping, Next
    PROVE  TypeOK'
<1> USE ConstantsAssumption, IdleIsRequest, PcsAre
<1>1. \A w \in Processes : req[w] \in Requests
  BY DEF TypeOK
<1>2. ASSUME NEW w \in Workers, NEW g \in Guests, RegisterRead(w, g) PROVE TypeOK'
  <2>1. event \in SeenEvents
    BY DEF TypeOK, SeenEvents
  <2>2. [Idle EXCEPT !.pc = "lookup", !.guest = g, !.ev = event] \in Requests
    BY <2>1, RequestUpdates
  <2> QED BY <1>2, <2>2 DEF TypeOK, RegisterRead, db, Become
<1>3. ASSUME NEW w \in Workers, NEW d \in Signups, ApproveRead(w, d) PROVE TypeOK'
  <2>1. [Idle EXCEPT !.pc = "approving", !.reg = d] \in Requests
    BY RequestUpdates
  <2> QED BY <1>3, <2>1 DEF TypeOK, ApproveRead, db, Become
<1>4. ASSUME NEW w \in Workers, NEW d \in Signups, NEW to \in Removed, RemoveRead(w, d, to)
      PROVE  TypeOK'
  <2>1. [Idle EXCEPT !.pc = "removing", !.reg = d, !.to = to] \in Requests
    BY RequestUpdates DEF Statuses
  <2> QED BY <1>4, <2>1 DEF TypeOK, RemoveRead, db, Become
<1>5. ASSUME NEW w \in Workers, NEW p \in Patches, PatchRead(w, p) PROVE TypeOK'
  <2>1. [Idle.ev EXCEPT !.model = event.model] \in SeenEvents /\ p \in Bodies
    BY DEF TypeOK, Idle, Events, SeenEvents, Bodies
  <2>2. [Idle EXCEPT !.pc = "patch", !.patch = p, !.ev = [Idle.ev EXCEPT !.model = event.model]]
          \in Requests
    BY <2>1, RequestUpdates
  <2>3. patches' \in 0 .. MaxPatches
    BY <1>5 DEF TypeOK, PatchRead
  <2> QED BY <1>5, <2>2, <2>3 DEF TypeOK, PatchRead, db, Become
<1>6. [Idle EXCEPT !.pc = "vacancy"] \in Requests /\ [Idle EXCEPT !.pc = "requeue"] \in Requests
  BY RequestUpdates
<1>7. ASSUME SweepStart PROVE TypeOK'
  BY <1>6, <1>7 DEF TypeOK, SweepStart, db, Become
<1>8. ASSUME NEW w \in Processes, RegisterLookup(w) PROVE TypeOK'
  <2>1. /\ [req[w] EXCEPT !.pc = "begin"] \in Requests
        /\ \A d \in Signups : [req[w] EXCEPT !.pc = "unlink", !.reg = d] \in Requests
    BY <1>1, RequestUpdates
  <2>2. \E r \in Requests : req' = [req EXCEPT ![w] = r]
    BY <1>8, <2>1 DEF RegisterLookup, Become, Finish, RowsOf
  <2> QED BY <1>8, <2>2 DEF TypeOK, RegisterLookup, db
<1>9. ASSUME NEW w \in Processes, RegisterUnlink(w) PROVE TypeOK'
  <2>1. [req[w] EXCEPT !.pc = "wipe"] \in Requests
    BY <1>1, RequestUpdates
  <2>2. tickets' \subseteq Tickets
    BY <1>9 DEF TypeOK, RegisterUnlink, Tickets
  <2> QED BY <1>9, <2>1, <2>2 DEF TypeOK, RegisterUnlink, Become
<1>10. ASSUME NEW w \in Processes, RegisterWipe(w) PROVE TypeOK'
  <2>1. [req[w] EXCEPT !.pc = "begin"] \in Requests
    BY <1>1, RequestUpdates
  <2>2. NoRow \in Rows
    BY DEF Rows, NoRow
  <2> QED BY <1>10, <2>1, <2>2 DEF TypeOK, RegisterWipe, Become, Finish
<1>11. ASSUME NEW w \in Processes, RegisterBegin(w) PROVE TypeOK'
  <2>1. clock + 1 \in Signups
    BY <1>11 DEF TypeOK, RegisterBegin, Signups
  <2>2. [req[w] EXCEPT !.pc = "enter", !.reg = clock + 1] \in Requests
    BY <1>1, <2>1, RequestUpdates
  <2> QED BY <1>11, <2>1, <2>2 DEF TypeOK, RegisterBegin, Become, Signups
<1>12. LastNumber(tickets) \in Nat
  BY DEF Bookkeeping
<1>13. ASSUME NEW w \in Processes, Enter(w) PROVE TypeOK'
  <2>1. CASE RegisterEnter(w)
    <3>1. Outcome(req[w].ev) \in Statuses /\ Idle.ev \in SeenEvents
      BY DEF Outcome, Statuses, Deciding, SeenEvents
    <3>2. [req[w] EXCEPT !.pc = "create", !.to = Outcome(req[w].ev),
                         !.last = LastNumber(tickets), !.ev = Idle.ev] \in Requests
      BY <1>1, <1>12, <3>1, RequestUpdates
    <3> QED BY <2>1, <3>2 DEF TypeOK, RegisterEnter, Lock, Become, db
  <2>2. CASE ApproveEnter(w)
    <3>1. [req[w] EXCEPT !.pc = "approve", !.last = LastNumber(tickets)] \in Requests
      BY <1>1, <1>12, RequestUpdates
    <3> QED BY <2>2, <3>1 DEF TypeOK, ApproveEnter, Lock, Become, db
  <2>3. CASE RemoveEnter(w)
    <3>1. (regs[req[w].reg].status = "approved") \in BOOLEAN
      OBVIOUS
    <3>2. [req[w] EXCEPT !.pc = "remove", !.was = regs[req[w].reg].status = "approved"]
            \in Requests
      BY <1>1, <3>1, RequestUpdates
    <3> QED BY <2>3, <3>2 DEF TypeOK, RemoveEnter, Lock, Become, db
  <2>4. CASE PromoteEnter(w)
    <3>1. Admitted(req[w].ev.capacity) \in SUBSET Signups
      BY DEF Admitted, WithStatus
    <3>2. [req[w] EXCEPT !.pc = "promote", !.seats = Admitted(req[w].ev.capacity),
                         !.last = LastNumber(tickets)] \in Requests
      BY <1>1, <1>12, <3>1, RequestUpdates
    <3> QED BY <2>4, <3>2 DEF TypeOK, PromoteEnter, Lock, Become, db
  <2> QED BY <1>13, <2>1, <2>2, <2>3, <2>4 DEF Enter
<1>14. ASSUME NEW w \in Processes, PromoteRead(w) PROVE TypeOK'
  <2>1. event \in SeenEvents
    BY DEF TypeOK, SeenEvents
  <2>2. [req[w] EXCEPT !.pc = "lineup", !.ev = event] \in Requests
    BY <1>1, <2>1, RequestUpdates
  <2> QED BY <1>14, <2>2 DEF TypeOK, PromoteRead, Become, db
<1>16. ASSUME NEW w \in Processes, RegisterCreate(w) PROVE TypeOK'
  <2>1. /\ req[w].guest \in Guests /\ req[w].reg \in Signups
        /\ req[w].to \in Statuses /\ req[w].last + 1 \in Nat \ {0}
    BY <1>1, <1>16 DEF RegisterCreate, At, Bookkeeping, InFlight, Requests, Statuses
  <2>2. /\ NewTicket(req[w].last + 1, req[w].guest, req[w].reg) \in Tickets
        /\ [guest |-> req[w].guest, status |-> req[w].to, by |-> "model"] \in Rows
    BY <2>1 DEF NewTicket, Tickets, Rows
  <2> QED BY <1>16, <2>1, <2>2 DEF TypeOK, RegisterCreate, Unlock, Finish, Become
<1>17. ASSUME NEW w \in Processes, ApproveCommit(w) PROVE TypeOK'
  <2>1. req[w].reg \in Signups /\ req[w].last + 1 \in Nat \ {0}
    BY <1>1, <1>17 DEF ApproveCommit, At, Bookkeeping, InFlight, Requests
  <2>2. regs' \in [Signups -> Rows]
    BY <1>17, <2>1 DEF TypeOK, ApproveCommit, Rows, Statuses
  <2>3. CASE Ticketable(req[w].reg)
    <3>1. NewTicket(req[w].last + 1, regs[req[w].reg].guest, req[w].reg) \in Tickets
      BY <2>1, <2>3 DEF Ticketable, Bookkeeping, NewTicket, Tickets
    <3> QED BY <1>17, <2>2, <2>3, <3>1 DEF TypeOK, ApproveCommit, Unlock, Finish, Become
  <2>4. CASE ~ Ticketable(req[w].reg)
    BY <1>17, <2>2, <2>4 DEF TypeOK, ApproveCommit, Unlock, Finish, Become
  <2> QED BY <2>3, <2>4
<1>18. ASSUME NEW w \in Processes, RemoveCommit(w) PROVE TypeOK'
  <2>1. req[w].reg \in Signups /\ req[w].to \in Statuses
    BY <1>1, <1>18 DEF RemoveCommit, At, Bookkeeping, InFlight, Statuses
  <2>2. regs' \in [Signups -> Rows]
    BY <1>18, <2>1 DEF TypeOK, RemoveCommit, Rows
  <2>3. tickets' \subseteq Tickets
    <3>1. \A t \in Tickets : [t EXCEPT !.revoked = @ \/ t.reg = req[w].reg] \in Tickets
      BY DEF Tickets
    <3> QED BY <1>18, <3>1 DEF TypeOK, RemoveCommit, RevokeTickets
  <2> QED BY <1>6, <1>18, <2>2, <2>3 DEF TypeOK, RemoveCommit, Unlock, Finish, Become
<1>19. ASSUME NEW w \in Processes, PromoteCommit(w) PROVE TypeOK'
  <2>1. req[w].seats \subseteq Signups /\ req[w].last \in Nat
    BY <1>1 DEF Requests
  <2>2. regs' \in [Signups -> Rows]
    <3>1. \A r \in Rows : [r EXCEPT !.status = "approved", !.by = "model"] \in Rows
      BY DEF Rows, Statuses
    <3> QED BY <1>19, <3>1 DEF TypeOK, PromoteCommit
  <2>3. tickets' \subseteq Tickets
    <3>1. ASSUME \A d \in req[w].seats : Ticketable(d),
                 NEW number \in Numberings(req[w].seats, req[w].last),
                 NEW d \in req[w].seats
          PROVE  NewTicket(number[d], regs[d].guest, d) \in Tickets
      <4>1. number[d] \in (req[w].last + 1) .. (req[w].last + Cardinality(req[w].seats))
        BY <3>1 DEF Numberings
      <4>2. number[d] \in Nat \ {0}
        BY <2>1, <4>1
      <4> QED BY <2>1, <3>1, <4>2 DEF Ticketable, Bookkeeping, NewTicket, Tickets
    <3>2. CASE \A d \in req[w].seats : Ticketable(d)
      <4>1. PICK number \in Numberings(req[w].seats, req[w].last) :
              tickets' = tickets \cup {NewTicket(number[d], regs[d].guest, d) : d \in req[w].seats}
        BY <1>19, <3>2 DEF PromoteCommit
      <4> QED BY <3>1, <3>2, <4>1 DEF TypeOK
    <3>3. CASE ~ \A d \in req[w].seats : Ticketable(d)
      BY <1>19, <3>3 DEF TypeOK, PromoteCommit
    <3> QED BY <3>2, <3>3
  <2> QED BY <1>19, <2>2, <2>3 DEF TypeOK, PromoteCommit, Unlock, Finish, Become
<1>20. ASSUME NEW w \in Processes, PatchWrite(w) PROVE TypeOK'
  <2>1. req[w].patch \in PatchBodies
    BY <1>1 DEF Requests, Bodies, Idle, PatchBodies
  <2>2. event' \in Events
    BY <1>20, <2>1 DEF TypeOK, PatchWrite, Patched, Events, PatchBodies
  <2>3. peak' \in Nat \cup {None}
    BY <1>20, <2>2 DEF TypeOK, PatchWrite, Larger, Events
  <2>4. req' \in [Processes -> Requests]
    BY <1>6, <1>20 DEF TypeOK, PatchWrite, Finish, Become
  <2> QED BY <1>20, <2>2, <2>3, <2>4 DEF TypeOK, PatchWrite
<1>21. ASSUME NEW w \in Processes, Requeue(w) PROVE TypeOK'
  BY <1>21 DEF TypeOK, Requeue, Finish, Become, Rows, Statuses, Deciding
<1>22. ASSUME NEW w \in Processes, Abort(w) PROVE TypeOK'
  BY <1>22 DEF TypeOK, Abort, Finish, Become, Unlock, db
<1> QED
  BY <1>2, <1>3, <1>4, <1>5, <1>7, <1>8, <1>9, <1>10, <1>11, <1>13, <1>14, <1>16, <1>17, <1>18, <1>19, <1>20, <1>21, <1>22
     DEF Next, Arrive, Proceed

-----------------------------------------------------------------------------
\* A numbering: 1, 2, 3, ... with every number on one ticket.
Numbered(T) ==
    /\ LastNumber(T) \in Nat
    /\ {t.number : t \in T} = 1 .. LastNumber(T)
    /\ \A t, u \in T : t.number = u.number => t = u

\* Tickets that continue a numbering extend it.
LEMMA AddRun ==
    ASSUME NEW T, Numbered(T), NEW New, NEW k \in Nat,
           {t.number : t \in New} = (LastNumber(T) + 1) .. (LastNumber(T) + k),
           \A t, u \in New : t.number = u.number => t = u
    PROVE  Numbered(T \cup New) /\ LastNumber(T \cup New) = LastNumber(T) + k
<1> DEFINE n == LastNumber(T)
<1>1. n \in Nat /\ n + k \in Nat
  BY DEF Numbered
<1>2. {t.number : t \in T \cup New} = {t.number : t \in T} \cup {t.number : t \in New}
  OBVIOUS
<1>3. 1 .. n \cup (n + 1) .. (n + k) = 1 .. (n + k)
  BY <1>1
<1>4. {t.number : t \in T \cup New} = 1 .. (n + k)
  BY <1>2, <1>3 DEF Numbered
<1>5. LastNumber(T \cup New) = n + k
  BY <1>1, <1>4, LastOfRun
<1>6. \A t \in T : t.number \in 1 .. n
  BY DEF Numbered
<1>7. \A t \in New : t.number \in (n + 1) .. (n + k)
  OBVIOUS
<1>8. \A t \in T, u \in New : t.number # u.number
  BY <1>1, <1>6, <1>7
<1>9. \A t, u \in T \cup New : t.number = u.number => t = u
  BY <1>8 DEF Numbered
<1> HIDE DEF n
<1> QED BY <1>1, <1>4, <1>5, <1>9 DEF Numbered, n

\* One ticket that takes the next number extends the numbering by one.
LEMMA AddOne ==
    ASSUME NEW T, Numbered(T), NEW new, new.number = LastNumber(T) + 1
    PROVE  Numbered(T \cup {new}) /\ LastNumber(T \cup {new}) = LastNumber(T) + 1
<1>1. LastNumber(T) + 1 \in Int /\ (LastNumber(T) + 1) .. (LastNumber(T) + 1) = {LastNumber(T) + 1}
  BY DEF Numbered
<1>2. {t.number : t \in {new}} = {new.number}
  OBVIOUS
<1> DEFINE New == {new}
<1>3. {t.number : t \in New} = (LastNumber(T) + 1) .. (LastNumber(T) + 1)
  BY <1>1, <1>2
<1>4. \A t, u \in New : t.number = u.number => t = u
  OBVIOUS
<1> HIDE DEF New
<1>5. Numbered(T \cup New) /\ LastNumber(T \cup New) = LastNumber(T) + 1
  BY <1>3, <1>4, AddRun, 1 \in Nat
<1> QED BY <1>5 DEF New

\* There are finitely many signups.
LEMMA SeatsAreFinite ==
    ASSUME NEW S \in SUBSET Signups
    PROVE  Cardinality(S) \in Nat
<1>1. IsFiniteSet(Signups)
  BY FS_Interval, ConstantsAssumption DEF Signups
<1> QED BY <1>1, FS_Subset, FS_CardinalityType

\* A promotion numbers its tickets from the last number on, one after the other.
LEMMA NumberingsAreRuns ==
    ASSUME NEW n \in Nat, NEW S \in SUBSET Signups, NEW number \in Numberings(S, n)
    PROVE  /\ {number[d] : d \in S} = (n + 1) .. (n + Cardinality(S))
           /\ \A d, e \in S : number[d] = number[e] => d = e
<1>1. Cardinality(S) \in Nat
  BY SeatsAreFinite
<1>2. /\ \A d \in S : d \in Nat /\ number[d] \in (n + 1) .. (n + Cardinality(S))
      /\ \A d, e \in S : d < e => number[d] < number[e]
      /\ \A m \in (n + 1) .. (n + Cardinality(S)) : \E d \in S : number[d] = m
  BY DEF Numberings, Signups
<1> QED BY <1>1, <1>2

\* Changing tickets in place, numbers kept, keeps the numbering.
LEMMA SameNumbers ==
    ASSUME NEW T, Numbered(T), NEW U, NEW f, U = {f[t] : t \in T}, \A t \in T : f[t].number = t.number
    PROVE  Numbered(U) /\ LastNumber(U) = LastNumber(T)
<1>1. {u.number : u \in U} = {t.number : t \in T}
  OBVIOUS
<1>2. LastNumber(U) = LastNumber(T)
  BY <1>1, LastOfRun DEF Numbered
<1>3. \A u, v \in U : u.number = v.number => u = v
  BY DEF Numbered
<1> QED BY <1>1, <1>2, <1>3 DEF Numbered

-----------------------------------------------------------------------------
\* A step as the ledger sees it.
Live(T) == {t.number : t \in {u \in T : ~ u.revoked}}
LedgerStep == Ledger!Next \/ UNCHANGED <<LastNumber(tickets), Live(tickets)>>

\* Tickets changed in place, none brought back to life: the ledger sees a
\* revocation.
LEMMA RevocationStep ==
    ASSUME Numbered(tickets), NEW f, tickets' = {f[t] : t \in tickets},
           \A t \in tickets : f[t].number = t.number /\ (t.revoked => f[t].revoked)
    PROVE  Numbered(tickets') /\ LedgerStep
<1>1. Numbered(tickets') /\ LastNumber(tickets') = LastNumber(tickets)
  BY SameNumbers
<1>2. Live(tickets') \subseteq Live(tickets)
  BY DEF Live
<1> DEFINE S == Live(tickets) \ Live(tickets')
<1>3. S \in SUBSET Live(tickets) /\ Live(tickets') = Live(tickets) \ S
  BY <1>2
<1>4. \E R \in SUBSET Live(tickets) : Live(tickets') = Live(tickets) \ R
  BY <1>3
<1>5. Ledger!Next
  <2>1. Ledger!Next <=>
          Ledger!Issue \/ \E R \in SUBSET Live(tickets) :
                            /\ R \subseteq Live(tickets) /\ Live(tickets') = Live(tickets) \ R
                            /\ LastNumber(tickets') = LastNumber(tickets)
    BY DEF Ledger!Next, Ledger!Revoke, Live
  <2> QED BY <1>1, <1>4, <2>1
<1> QED BY <1>1, <1>5 DEF LedgerStep

\* Tickets added to the numbering: the ledger sees numbers handed out.
LEMMA IssueStep ==
    ASSUME Numbered(tickets), NEW New, tickets' = tickets \cup New,
           \A t \in New : ~ t.revoked, NEW k \in Nat,
           Numbered(tickets'), LastNumber(tickets') = LastNumber(tickets) + k
    PROVE  LedgerStep
<1> DEFINE n == LastNumber(tickets)
<1>1. n \in Nat /\ {t.number : t \in tickets} = 1 .. n
      /\ {t.number : t \in tickets'} = 1 .. (n + k)
  BY DEF Numbered
<1>2. \A t, u \in tickets' : t.number = u.number => t = u
  BY DEF Numbered
<1>3. Live(tickets') = Live(tickets) \cup {t.number : t \in New}
  BY DEF Live
<1>4. Live(tickets') = Live(tickets) \cup (n + 1) .. (n + k)
  <2>1. (n + 1) .. (n + k) \subseteq Live(tickets')
    <3> SUFFICES ASSUME NEW m \in (n + 1) .. (n + k) PROVE m \in Live(tickets')
      OBVIOUS
    <3>1. m \in 1 .. (n + k) /\ m \notin 1 .. n
      BY <1>1
    <3>2. PICK t \in tickets' : t.number = m
      BY <1>1, <3>1
    <3>3. t \in New
      BY <1>1, <3>1, <3>2
    <3> QED BY <1>3, <3>2, <3>3
  <2>2. Live(tickets') \subseteq Live(tickets) \cup (n + 1) .. (n + k)
    <3> SUFFICES ASSUME NEW t \in New, t.number \notin (n + 1) .. (n + k)
                 PROVE  t.number \in Live(tickets)
      BY <1>3
    <3>1. t.number \in 1 .. (n + k)
      BY <1>1
    <3>2. t.number \in 1 .. n
      BY <1>1, <3>1
    <3>3. PICK u \in tickets : u.number = t.number
      BY <1>1, <3>2
    <3>4. u = t
      BY <1>2, <3>3
    <3> QED BY <3>3, <3>4 DEF Live
  <2>3. Live(tickets) \subseteq Live(tickets')
    BY <1>3
  <2> QED BY <2>1, <2>2, <2>3
<1>5. CASE k = 0
  <2>1. (n + 1) .. (n + k) = {} /\ LastNumber(tickets') = n
    BY <1>1, <1>5
  <2> QED BY <1>4, <2>1 DEF LedgerStep
<1>6. CASE k > 0
  <2>1. LastNumber(tickets') \in Nat /\ LastNumber(tickets') > n
    BY <1>1, <1>6
  <2>2. Ledger!Issue
    BY <1>4, <2>1 DEF Ledger!Issue, Live
  <2> QED BY <2>2 DEF LedgerStep, Ledger!Next
<1> QED BY <1>5, <1>6

\* Every action keeps the numbering and makes a step of the ledger.
LEMMA TicketsKept ==
    ASSUME TypeOK, Bookkeeping, NumbersRunOn, Next
    PROVE  Numbered(tickets') /\ LedgerStep
<1>1. Numbered(tickets)
  BY DEF NumbersRunOn, Bookkeeping, Numbered
<1>2. \A w \in Processes : req[w].pc \in {"create", "approve", "promote"} =>
                              req[w].last = LastNumber(tickets)
  BY DEF Bookkeeping, InFlight
<1>3. CASE tickets' = tickets
  <2>1. Live(tickets') = Live(tickets) /\ LastNumber(tickets') = LastNumber(tickets)
    BY <1>3
  <2> QED BY <1>1, <1>3, <2>1 DEF LedgerStep
<1>4. ASSUME NEW w \in Processes, RegisterUnlink(w) PROVE Numbered(tickets') /\ LedgerStep
  <2> DEFINE f == [t \in tickets |-> [t EXCEPT !.reg = IF @ = req[w].reg THEN 0 ELSE @]]
  <2>1. tickets' = {f[t] : t \in tickets}
    BY <1>4 DEF RegisterUnlink
  <2>2. \A t \in tickets : f[t].number = t.number /\ (t.revoked => f[t].revoked)
    BY DEF TypeOK, Tickets
  <2> HIDE DEF f
  <2> QED BY <1>1, <2>1, <2>2, RevocationStep
<1>5. ASSUME NEW w \in Processes, RemoveCommit(w), req[w].was
      PROVE  Numbered(tickets') /\ LedgerStep
  <2> DEFINE f == [t \in tickets |-> [t EXCEPT !.revoked = @ \/ t.reg = req[w].reg]]
  <2>1. tickets' = {f[t] : t \in tickets}
    BY <1>5 DEF RemoveCommit, RevokeTickets
  <2>2. \A t \in tickets : f[t].number = t.number /\ (t.revoked => f[t].revoked)
    BY DEF TypeOK, Tickets
  <2> HIDE DEF f
  <2> QED BY <1>1, <2>1, <2>2, RevocationStep
<1>6. ASSUME NEW w \in Processes, req[w].last = LastNumber(tickets), NEW g, NEW d,
             tickets' = tickets \cup {NewTicket(req[w].last + 1, g, d)}
      PROVE  Numbered(tickets') /\ LedgerStep
  <2> DEFINE new == NewTicket(req[w].last + 1, g, d)
  <2>1. new.number = LastNumber(tickets) + 1 /\ ~ new.revoked
    BY <1>6 DEF NewTicket
  <2> HIDE DEF new
  <2>2. Numbered(tickets \cup {new}) /\ LastNumber(tickets \cup {new}) = LastNumber(tickets) + 1
    BY <1>1, <2>1, AddOne
  <2>3. tickets' = tickets \cup {new}
    BY <1>6 DEF new
  <2> DEFINE New == {new}
  <2>4. \A t \in New : ~ t.revoked
    BY <2>1
  <2>5. tickets' = tickets \cup New /\ Numbered(tickets')
        /\ LastNumber(tickets') = LastNumber(tickets) + 1
    BY <2>2, <2>3
  <2> HIDE DEF New
  <2>6. LedgerStep
    BY <1>1, <2>4, <2>5, IssueStep, 1 \in Nat
  <2> QED BY <2>5, <2>6
<1>7. ASSUME NEW w \in Processes, RegisterCreate(w), tickets' # tickets
      PROVE  Numbered(tickets') /\ LedgerStep
  <2>1. tickets' = tickets \cup {NewTicket(req[w].last + 1, req[w].guest, req[w].reg)}
    BY <1>7 DEF RegisterCreate
  <2> QED BY <1>2, <1>6, <1>7, <2>1 DEF RegisterCreate, At
<1>8. ASSUME NEW w \in Processes, ApproveCommit(w), tickets' # tickets
      PROVE  Numbered(tickets') /\ LedgerStep
  <2>1. tickets' = tickets \cup {NewTicket(req[w].last + 1, regs[req[w].reg].guest, req[w].reg)}
    BY <1>8 DEF ApproveCommit
  <2> QED BY <1>2, <1>6, <1>8, <2>1 DEF ApproveCommit, At
<1>9. ASSUME NEW w \in Processes, PromoteCommit(w), tickets' # tickets
      PROVE  Numbered(tickets') /\ LedgerStep
  <2>1. /\ req[w].seats \in SUBSET Signups /\ req[w].last = LastNumber(tickets)
        /\ LastNumber(tickets) \in Nat
    BY <1>1, <1>2, <1>9 DEF PromoteCommit, At, TypeOK, Requests, Numbered
  <2>2. PICK number \in Numberings(req[w].seats, LastNumber(tickets)) :
          tickets' = tickets \cup {NewTicket(number[d], regs[d].guest, d) : d \in req[w].seats}
    BY <1>9, <2>1 DEF PromoteCommit
  <2> DEFINE New == {NewTicket(number[d], regs[d].guest, d) : d \in req[w].seats}
             k == Cardinality(req[w].seats)
  <2>3. /\ {number[d] : d \in req[w].seats} = (LastNumber(tickets) + 1) .. (LastNumber(tickets) + k)
        /\ \A d, e \in req[w].seats : number[d] = number[e] => d = e
    BY <2>1, <2>2, NumberingsAreRuns
  <2>4. \A d \in req[w].seats : /\ NewTicket(number[d], regs[d].guest, d).number = number[d]
                               /\ ~ NewTicket(number[d], regs[d].guest, d).revoked
    BY DEF NewTicket
  <2>5. /\ \A t \in New : ~ t.revoked
        /\ {t.number : t \in New} = (LastNumber(tickets) + 1) .. (LastNumber(tickets) + k)
        /\ \A t, u \in New : t.number = u.number => t = u
    BY <2>3, <2>4
  <2>6. tickets' = tickets \cup New /\ k \in Nat
    BY <2>1, <2>2, SeatsAreFinite
  <2> HIDE DEF New, k
  <2>7. Numbered(tickets') /\ LastNumber(tickets') = LastNumber(tickets) + k
    BY <1>1, <2>5, <2>6, AddRun
  <2>8. LedgerStep
    BY <1>1, <2>5, <2>6, <2>7, IssueStep
  <2> QED BY <2>7, <2>8
<1>10. tickets' = tickets
       \/ \E w \in Processes : \/ RegisterUnlink(w) \/ RegisterCreate(w) \/ ApproveCommit(w)
                               \/ (RemoveCommit(w) /\ req[w].was) \/ PromoteCommit(w)
  BY DEF Next, Arrive, Proceed, Enter, RegisterRead, ApproveRead, RemoveRead, PatchRead,
         SweepStart, RegisterLookup, RegisterWipe, RegisterBegin, RegisterEnter, ApproveEnter,
         RemoveEnter, RemoveCommit, PromoteRead, PromoteEnter, PatchWrite, Requeue, Abort, db
<1> QED BY <1>3, <1>4, <1>5, <1>7, <1>8, <1>9, <1>10

-----------------------------------------------------------------------------
\* The steps before the lock and the reads under it: no row changes.
LEMMA ReadsKeepBookkeeping ==
    ASSUME TypeOK, Bookkeeping, NEW w \in Processes,
           \/ \E g \in Guests : RegisterRead(w, g)
           \/ \E d \in Signups : ApproveRead(w, d)
           \/ \E d \in Signups, to \in Removed : RemoveRead(w, d, to)
           \/ \E p \in Patches : PatchRead(w, p)
           \/ w = Scheduler /\ SweepStart
           \/ RegisterLookup(w) \/ PromoteRead(w) \/ PatchWrite(w) \/ Enter(w) \/ Abort(w),
           TypeOK'
    PROVE  Bookkeeping'
<1> USE IdleIsRequest
<1>1. UNCHANGED <<regs, tickets, clock>>
  BY DEF RegisterRead, ApproveRead, RemoveRead, PatchRead, SweepStart, RegisterLookup, PromoteRead,
         PatchWrite, Enter, RegisterEnter, ApproveEnter, RemoveEnter, PromoteEnter, Abort, db
<1>2. \A v \in Processes : v # w /\ lock = v => lock' = v
  BY ConstantsAssumption
     DEF RegisterRead, ApproveRead, RemoveRead, PatchRead, SweepStart, RegisterLookup, PromoteRead,
         PatchWrite, Enter, RegisterEnter, ApproveEnter, RemoveEnter, PromoteEnter, Abort, Lock, Unlock, db
<1>3. PICK r : req' = [req EXCEPT ![w] = r]
  BY DEF RegisterRead, ApproveRead, RemoveRead, PatchRead, SweepStart, RegisterLookup, PromoteRead,
         PatchWrite, Enter, RegisterEnter, ApproveEnter, RemoveEnter, PromoteEnter, Abort, Become, Finish
<1>4. r = req'[w] /\ r \in Requests /\ req[w] \in Requests /\ InFlight(w)
  BY <1>3 DEF TypeOK, Bookkeeping
<1> DEFINE Own == /\ InFlight(w)'
                  /\ r.pc \in {"enter", "create"} => req[w].pc = "enter" /\ r.reg = req[w].reg
<1>5. req[w] \in Requests /\ Idle.pc = "idle" /\ req'[w] = r
  BY <1>4 DEF Idle
<1>6. ASSUME r.pc \in {"idle", "patch", "requeue", "vacancy", "lineup"} PROVE Own
  BY <1>5, <1>6 DEF InFlight, Opening, Holds
<1>7. ASSUME NEW g \in Guests, RegisterRead(w, g) PROVE Own
  <2>1. r.pc = "lookup" /\ r.guest = g
    BY <1>5, <1>7 DEF RegisterRead, Become, Idle, TypeOK
  <2> QED BY <1>5, <2>1 DEF InFlight, Opening, Holds
<1>8. ASSUME NEW d \in Signups, ApproveRead(w, d) PROVE Own
  <2>1. r.pc = "approving" /\ r.reg = d
    BY <1>5, <1>8 DEF ApproveRead, Become, Idle, TypeOK
  <2> QED BY <1>5, <2>1 DEF InFlight, Opening, Holds
<1>9. ASSUME NEW d \in Signups, NEW to \in Removed, RemoveRead(w, d, to) PROVE Own
  <2>1. r.pc = "removing" /\ r.reg = d /\ r.to = to
    BY <1>5, <1>9 DEF RemoveRead, Become, Idle, TypeOK
  <2> QED BY <1>5, <2>1 DEF InFlight, Opening, Holds
<1>10. ASSUME \/ \E p \in Patches : PatchRead(w, p)
              \/ w = Scheduler /\ SweepStart
              \/ PromoteRead(w) \/ PatchWrite(w) \/ Abort(w)
       PROVE  Own
  <2>1. r.pc \in {"idle", "patch", "requeue", "vacancy", "lineup"}
    <3>1. ASSUME NEW p \in Patches, PatchRead(w, p) PROVE r.pc = "patch"
      BY <1>5, <3>1 DEF PatchRead, Become, Idle, TypeOK
    <3>2. ASSUME w = Scheduler, SweepStart PROVE r.pc = "vacancy"
      BY <1>5, <3>2 DEF SweepStart, Become, Idle, TypeOK
    <3>3. ASSUME PromoteRead(w) PROVE r.pc = "lineup"
      BY <1>5, <3>3 DEF PromoteRead, Become, TypeOK, Requests
    <3>4. ASSUME PatchWrite(w) PROVE r.pc \in {"idle", "requeue", "vacancy"}
      <4>1. \/ req' = [req EXCEPT ![w] = Idle]
            \/ req' = [req EXCEPT ![w] = [Idle EXCEPT !.pc = "requeue"]]
            \/ req' = [req EXCEPT ![w] = [Idle EXCEPT !.pc = "vacancy"]]
        BY <3>4 DEF PatchWrite, Finish, Become
      <4> QED BY <1>5, <4>1 DEF Idle, TypeOK
    <3>5. ASSUME Abort(w) PROVE r.pc = "idle"
      BY <1>5, <3>5 DEF Abort, Finish, Become, Idle, TypeOK
    <3> QED BY <1>10, <3>1, <3>2, <3>3, <3>4, <3>5
  <2> QED BY <1>6, <2>1
<1>11. ASSUME RegisterLookup(w) PROVE Own
  <2>1. req[w].pc = "lookup" /\ req[w].guest \in Guests
    BY <1>4, <1>11 DEF RegisterLookup, At, InFlight, Opening
  <2>2. \/ r.pc = "idle"
        \/ r.pc = "begin" /\ r.guest = req[w].guest
        \/ r.pc = "unlink" /\ r.guest = req[w].guest /\ r.reg \in Signups
    <3>1. \/ req' = [req EXCEPT ![w] = Idle]
          \/ req' = [req EXCEPT ![w] = [req[w] EXCEPT !.pc = "begin"]]
          \/ \E d \in Signups : req' = [req EXCEPT ![w] = [req[w] EXCEPT !.pc = "unlink", !.reg = d]]
      BY <1>11 DEF RegisterLookup, RowsOf, Become, Finish
    <3>2. /\ [req[w] EXCEPT !.pc = "begin"].pc = "begin"
          /\ [req[w] EXCEPT !.pc = "begin"].guest = req[w].guest
      BY <1>5 DEF Requests
    <3>3. \/ r = Idle
          \/ r = [req[w] EXCEPT !.pc = "begin"]
          \/ \E d \in Signups : r = [req[w] EXCEPT !.pc = "unlink", !.reg = d]
      BY <1>5, <3>1 DEF TypeOK
    <3>4. CASE r = Idle
      BY <1>5, <3>4
    <3>5. CASE r = [req[w] EXCEPT !.pc = "begin"]
      BY <3>2, <3>5
    <3>6. ASSUME NEW d \in Signups, r = [req[w] EXCEPT !.pc = "unlink", !.reg = d]
          PROVE  r.pc = "unlink" /\ r.guest = req[w].guest /\ r.reg \in Signups
      BY <1>5, <3>6 DEF Requests
    <3> QED BY <3>3, <3>4, <3>5, <3>6
  <2> QED BY <1>5, <1>6, <2>1, <2>2 DEF InFlight, Opening, Holds
<1>12. ASSUME RegisterEnter(w) PROVE Own
  <2>1. r.pc = "create" /\ r.guest = req[w].guest /\ r.reg = req[w].reg
        /\ r.to = Outcome(req[w].ev) /\ r.last = LastNumber(tickets) /\ lock' = w
    BY <1>5, <1>12 DEF RegisterEnter, Become, Lock, TypeOK, Requests
  <2>2. Outcome(req[w].ev) \in Deciding \cup {"approved"}
    BY DEF Outcome, Deciding
  <2>3. /\ req[w].guest \in Guests /\ req[w].reg \in Signups /\ req[w].pc = "enter"
        /\ req[w].reg <= clock /\ regs[req[w].reg].status = "absent"
    BY <1>4, <1>12 DEF RegisterEnter, At, InFlight
  <2> QED BY <1>1, <1>5, <2>1, <2>2, <2>3 DEF InFlight, Opening, Holds
<1>13. ASSUME ApproveEnter(w) PROVE Own
  <2>1. r.pc = "approve" /\ r.reg = req[w].reg /\ r.last = LastNumber(tickets) /\ lock' = w
    BY <1>5, <1>13 DEF ApproveEnter, Become, Lock, TypeOK, Requests
  <2>2. req[w].reg \in Signups
    BY <1>4, <1>13 DEF ApproveEnter, At, InFlight
  <2> QED BY <1>1, <1>5, <2>1, <2>2 DEF InFlight, Opening, Holds
<1>14. ASSUME RemoveEnter(w) PROVE Own
  <2>1. r.pc = "remove" /\ r.reg = req[w].reg /\ r.to = req[w].to
        /\ r.was = (regs[req[w].reg].status = "approved") /\ lock' = w
    BY <1>5, <1>14 DEF RemoveEnter, Become, Lock, TypeOK, Requests
  <2>2. req[w].reg \in Signups /\ req[w].to \in Removed
    BY <1>4, <1>14 DEF RemoveEnter, At, InFlight
  <2> QED BY <1>1, <1>5, <2>1, <2>2 DEF InFlight, Opening, Holds
<1>15. ASSUME PromoteEnter(w) PROVE Own
  <2>1. r.pc = "promote" /\ r.last = LastNumber(tickets) /\ lock' = w
    BY <1>5, <1>15 DEF PromoteEnter, Become, Lock, TypeOK, Requests
  <2> QED BY <1>1, <1>5, <2>1 DEF InFlight, Opening, Holds
<1>16. Own
  BY <1>7, <1>8, <1>9, <1>10, <1>11, <1>12, <1>13, <1>14, <1>15 DEF Enter
<1> QED BY <1>1, <1>2, <1>3, <1>4, <1>16, OthersKeep

\* Clearing an old signup, the stamp of a new one and the requeue: unlocked
\* statements that do change rows.
LEMMA UnlockedKeepBookkeeping ==
    ASSUME TypeOK, Bookkeeping, NEW w \in Processes, TypeOK', LastNumber(tickets') \in Nat,
           LastNumber(tickets') = LastNumber(tickets),
           RegisterUnlink(w) \/ RegisterWipe(w) \/ RegisterBegin(w) \/ Requeue(w)
    PROVE  Bookkeeping'
<1>1. \A v \in Processes : v # w => req'[v] = req[v]
  BY DEF RegisterUnlink, RegisterWipe, RegisterBegin, Requeue, Become, Finish, TypeOK
<1>2. lock' = lock /\ clock' \in Nat /\ clock \in Nat /\ clock <= clock'
  BY DEF RegisterUnlink, RegisterWipe, RegisterBegin, Requeue, TypeOK
<1>3. req[w] \in Requests /\ InFlight(w)
  BY DEF TypeOK, Bookkeeping
<1>4. \A d \in Signups :
        /\ regs[d].status = "absent" => regs'[d].status = "absent"
        /\ regs'[d].status # "absent" =>
             regs[d].status # "absent" /\ regs'[d].guest = regs[d].guest
        /\ regs'[d].status = "approved" => regs[d].status = "approved"
  <2>1. CASE UNCHANGED regs
    BY <2>1
  <2>2. CASE regs' = [regs EXCEPT ![req[w].reg] = NoRow]
    BY <2>2 DEF NoRow, TypeOK
  <2>3. CASE Requeue(w)
    <3> SUFFICES ASSUME NEW d \in Signups
                 PROVE  /\ regs[d].status = "absent" => regs'[d].status = "absent"
                        /\ regs'[d].status # "absent" =>
                             regs[d].status # "absent" /\ regs'[d].guest = regs[d].guest
                        /\ regs'[d].status = "approved" => regs[d].status = "approved"
      OBVIOUS
    <3>1. regs[d] \in Rows
      BY DEF TypeOK
    <3>2. \/ regs'[d] = regs[d]
          \/ regs[d].status = "waitlisted" /\ regs'[d] = [regs[d] EXCEPT !.status = "pending"]
      BY <2>3 DEF Requeue
    <3> QED BY <3>1, <3>2 DEF Rows
  <2> QED BY <2>1, <2>2, <2>3 DEF RegisterUnlink, RegisterWipe, RegisterBegin
<1>5. \A t \in tickets' : t.reg # 0 => regs'[t.reg].status # "absent"
  <2>1. \A t \in tickets : t.reg # 0 => t.reg \in Signups /\ regs[t.reg].status # "absent"
    BY DEF Bookkeeping, TypeOK, Tickets
  <2>2. CASE RegisterUnlink(w)
    <3>1. \A t \in tickets' : t.reg # 0 => \E u \in tickets : u.reg = t.reg
      BY <2>2 DEF RegisterUnlink, TypeOK, Tickets
    <3> QED BY <2>1, <2>2, <3>1 DEF RegisterUnlink
  <2>3. CASE RegisterWipe(w)
    BY <2>1, <2>3 DEF RegisterWipe, Linked, TypeOK
  <2>4. CASE RegisterBegin(w)
    BY <2>1, <2>4 DEF RegisterBegin
  <2>5. CASE Requeue(w)
    <3>1. tickets' = tickets
      BY <2>5 DEF Requeue
    <3>2. \A d \in Signups : regs[d].status # "absent" => regs'[d].status # "absent"
      <4> SUFFICES ASSUME NEW d \in Signups, regs[d].status # "absent"
                   PROVE  regs'[d].status # "absent"
        OBVIOUS
      <4>1. regs[d] \in Rows
        BY DEF TypeOK
      <4>2. regs'[d] = regs[d] \/ regs'[d] = [regs[d] EXCEPT !.status = "pending"]
        BY <2>5 DEF Requeue
      <4> QED BY <4>1, <4>2 DEF Rows
    <3> QED BY <2>1, <3>1, <3>2
  <2> QED BY <2>2, <2>3, <2>4, <2>5
<1>6. /\ req'[w].pc \notin {"create", "approve", "promote", "remove", "approving", "removing"}
      /\ req'[w].pc \notin Holds
      /\ req'[w].pc \in Opening \cup {"enter"} => req'[w].guest \in Guests
      /\ req'[w].pc = "wipe" => req'[w].reg \in Signups
      /\ req'[w].pc # "unlink"
      /\ req'[w].pc = "enter" => req'[w].reg = clock' /\ clock' = clock + 1
  <2>1. CASE RegisterUnlink(w)
    BY <1>3, <2>1 DEF RegisterUnlink, At, Become, TypeOK, Requests, InFlight, Opening, Holds
  <2>2. CASE RegisterWipe(w)
    <3>1. req'[w] = Idle \/ req'[w] = [req[w] EXCEPT !.pc = "begin"]
      BY <2>2 DEF RegisterWipe, Become, Finish, TypeOK
    <3>2. req[w].guest \in Guests
      BY <1>3, <2>2 DEF RegisterWipe, At, InFlight, Opening
    <3> QED BY <1>3, <3>1, <3>2 DEF Idle, Requests, Opening, Holds
  <2>3. CASE RegisterBegin(w)
    <3>1. req'[w] = [req[w] EXCEPT !.pc = "enter", !.reg = clock + 1] /\ clock' = clock + 1
      BY <2>3 DEF RegisterBegin, Become, TypeOK
    <3>2. req[w].guest \in Guests
      BY <1>3, <2>3 DEF RegisterBegin, At, InFlight, Opening
    <3> QED BY <1>3, <3>1, <3>2 DEF Requests, Opening, Holds
  <2>4. CASE Requeue(w)
    BY <2>4 DEF Requeue, Finish, Become, Idle, TypeOK, Opening, Holds
  <2> QED BY <2>1, <2>2, <2>3, <2>4
<1>7. req'[w].pc = "enter" => req'[w].reg \in Signups /\ regs'[req'[w].reg].status = "absent"
  <2> SUFFICES ASSUME req'[w].pc = "enter" PROVE regs'[clock + 1].status = "absent" /\ clock + 1 \in Signups
    BY <1>6
  <2>1. clock + 1 \in Signups
    BY <1>2, <1>6 DEF TypeOK, Signups
  <2>2. regs[clock + 1].status = "absent"
    BY <1>2, <2>1 DEF Bookkeeping
  <2> QED BY <1>4, <2>1, <2>2
<1>8. \A v \in Processes : InFlight(v)'
  <2> SUFFICES ASSUME NEW v \in Processes PROVE InFlight(v)'
    OBVIOUS
  <2>1. CASE v = w
    BY <1>2, <1>6, <1>7, <2>1 DEF InFlight, Opening
  <2>2. CASE v # w
    <3>1. InFlight(v) /\ req'[v] = req[v] /\ req[v] \in Requests
      BY <1>1, <2>2 DEF Bookkeeping, TypeOK
    <3>2. req[v].pc \in {"enter", "create"} => req[v].reg <= clock'
      BY <1>2, <3>1 DEF InFlight, Signups
    <3> QED BY <1>2, <1>4, <3>1, <3>2 DEF InFlight
  <2> QED BY <2>1, <2>2
<1>9. \A v, u \in Processes :
        v # u /\ req'[v].pc \in {"enter", "create"} /\ req'[u].pc \in {"enter", "create"}
          => req'[v].reg # req'[u].reg
  <2>1. \A v \in Processes : v # w /\ req'[v].pc \in {"enter", "create"}
          => req'[v].reg \in Nat /\ req'[v].reg <= clock
    BY <1>1 DEF Bookkeeping, InFlight, Signups
  <2>2. \A v \in Processes : v # w /\ req'[v].pc \in {"enter", "create"}
           /\ req'[w].pc \in {"enter", "create"} => req'[v].reg # req'[w].reg
    BY <1>2, <1>6, <2>1
  <2> QED BY <1>1, <2>2 DEF Bookkeeping
<1>10. \A d \in Signups : regs'[d].status # "absent" => regs'[d].guest \in Guests /\ d <= clock'
  BY <1>2, <1>4 DEF Bookkeeping, Signups
<1> QED BY <1>5, <1>8, <1>9, <1>10 DEF Bookkeeping

\* The four commits under the lock.
LEMMA CommitsKeepBookkeeping ==
    ASSUME TypeOK, Bookkeeping, NEW w \in Processes, TypeOK', LastNumber(tickets') \in Nat,
           RegisterCreate(w) \/ ApproveCommit(w) \/ RemoveCommit(w) \/ PromoteCommit(w)
    PROVE  Bookkeeping'
<1> USE IdleIsRequest
<1>1. PICK r : r \in Requests /\ r.pc \in {"idle", "vacancy"} /\ req' = [req EXCEPT ![w] = r]
  <2>1. [Idle EXCEPT !.pc = "vacancy"].pc = "vacancy" /\ Idle.pc = "idle"
        /\ [Idle EXCEPT !.pc = "vacancy"] \in Requests
    BY RequestUpdates, PcsAre DEF Idle
  <2>2. req' = [req EXCEPT ![w] = Idle] \/ req' = [req EXCEPT ![w] = [Idle EXCEPT !.pc = "vacancy"]]
    BY DEF RegisterCreate, ApproveCommit, RemoveCommit, PromoteCommit, Become, Finish
  <2> QED BY <2>1, <2>2
<1>2. req[w].pc \in Holds /\ clock' = clock /\ InFlight(w) /\ req[w] \in Requests
  BY DEF RegisterCreate, ApproveCommit, RemoveCommit, PromoteCommit, At, Holds, Bookkeeping, TypeOK
<1>3. \A t \in tickets : t.reg # 0 => t.reg \in Signups /\ regs[t.reg].status # "absent"
  BY DEF Bookkeeping, TypeOK, Tickets
<1>4. \A d \in Signups : regs[d] \in Rows /\ (regs[d].status # "absent" => regs[d].guest \in Guests)
  BY DEF Bookkeeping, TypeOK
<1> DEFINE RowsFit == \A d \in Signups :
             /\ regs'[d].status # "absent" => regs'[d].guest \in Guests
             /\ regs[d].status = "absent" => \/ regs'[d].status = "absent"
                                             \/ req[w].pc = "create" /\ d = req[w].reg
             /\ regs[d].status # "absent" => regs'[d].status # "absent"
           TicketsFit == \A t \in tickets' : t.reg # 0 => regs'[t.reg].status # "absent"
<1>5. ASSUME RegisterCreate(w) PROVE RowsFit /\ TicketsFit
  <2>1. /\ req[w].pc = "create" /\ req[w].guest \in Guests /\ req[w].reg \in Signups
        /\ req[w].to # "absent"
    BY <1>2, <1>5 DEF RegisterCreate, At, InFlight, Deciding
  <2>2. \/ regs' = regs /\ tickets' = tickets
        \/ /\ regs' = [regs EXCEPT ![req[w].reg] =
                         [guest |-> req[w].guest, status |-> req[w].to, by |-> "model"]]
           /\ \/ tickets' = tickets
              \/ tickets' = tickets \cup {NewTicket(req[w].last + 1, req[w].guest, req[w].reg)}
    BY <1>5 DEF RegisterCreate
  <2>3. RowsFit
    BY <1>4, <2>1, <2>2 DEF TypeOK
  <2>4. \A t \in tickets' :
          t \in tickets \/ (t.reg = req[w].reg /\ regs'[req[w].reg].status # "absent")
    <3>1. NewTicket(req[w].last + 1, req[w].guest, req[w].reg).reg = req[w].reg
      BY DEF NewTicket
    <3> QED BY <2>1, <2>2, <3>1 DEF TypeOK
  <2> QED BY <1>3, <2>1, <2>3, <2>4
<1>6. ASSUME ApproveCommit(w) PROVE RowsFit /\ TicketsFit
  <2>1. req[w].reg \in Signups
    BY <1>2, <1>6 DEF ApproveCommit, At, InFlight
  <2>2. \/ regs' = regs /\ tickets' = tickets
        \/ /\ regs[req[w].reg].status # "absent"
           /\ regs' = [regs EXCEPT ![req[w].reg].status = "approved", ![req[w].reg].by = "organizer"]
           /\ tickets' = tickets \cup
                {NewTicket(req[w].last + 1, regs[req[w].reg].guest, req[w].reg)}
    BY <1>6 DEF ApproveCommit, Ticketable
  <2>3. RowsFit
    BY <1>4, <2>1, <2>2 DEF TypeOK, Rows
  <2>4. \A t \in tickets' : t \in tickets \/ (t.reg = req[w].reg /\ regs[req[w].reg].status # "absent")
    <3>1. NewTicket(req[w].last + 1, regs[req[w].reg].guest, req[w].reg).reg = req[w].reg
      BY DEF NewTicket
    <3> QED BY <2>2, <3>1
  <2> QED BY <1>3, <2>1, <2>3, <2>4
<1>7. ASSUME RemoveCommit(w) PROVE RowsFit /\ TicketsFit
  <2>1. req[w].reg \in Signups /\ req[w].to # "absent"
    BY <1>2, <1>7 DEF RemoveCommit, At, InFlight, Removed
  <2>2. \/ regs' = regs
        \/ /\ regs[req[w].reg].status # "absent"
           /\ regs' = [regs EXCEPT ![req[w].reg].status = req[w].to, ![req[w].reg].by = "nobody"]
    BY <1>7 DEF RemoveCommit
  <2>3. RowsFit
    BY <1>4, <2>1, <2>2 DEF TypeOK, Rows
  <2>4. \A t \in tickets' : \E u \in tickets : u.reg = t.reg
    BY <1>7 DEF RemoveCommit, RevokeTickets, TypeOK, Tickets
  <2> QED BY <1>3, <2>3, <2>4
<1>8. ASSUME PromoteCommit(w) PROVE RowsFit /\ TicketsFit
  <2>1. req[w].seats \subseteq Signups
    BY <1>2 DEF Requests
  <2>2. CASE regs' = regs /\ tickets' = tickets
    BY <1>3, <1>4, <2>2
  <2>3. CASE \A d \in req[w].seats : Ticketable(d)
    <3>1. /\ regs' = [d \in Signups |->
                        IF d \in req[w].seats
                        THEN [regs[d] EXCEPT !.status = "approved", !.by = "model"] ELSE regs[d]]
          /\ \E number \in Numberings(req[w].seats, req[w].last) :
               tickets' = tickets \cup {NewTicket(number[d], regs[d].guest, d) : d \in req[w].seats}
      BY <1>8, <2>3 DEF PromoteCommit
    <3>2. \A d \in req[w].seats : regs[d].status # "absent"
      BY <2>3 DEF Ticketable
    <3>3. RowsFit
      <4> SUFFICES ASSUME NEW d \in Signups
                   PROVE  /\ regs'[d].status # "absent" => regs'[d].guest \in Guests
                          /\ regs[d].status = "absent" => regs'[d].status = "absent"
                          /\ regs[d].status # "absent" => regs'[d].status # "absent"
        OBVIOUS
      <4>1. CASE d \in req[w].seats
        <5>1. regs'[d] = [regs[d] EXCEPT !.status = "approved", !.by = "model"]
          BY <3>1, <4>1
        <5> QED BY <1>4, <3>2, <4>1, <5>1 DEF Rows
      <4>2. CASE d \notin req[w].seats
        BY <1>4, <3>1, <4>2
      <4> QED BY <4>1, <4>2
    <3>4. \A t \in tickets' : t \in tickets \/ t.reg \in req[w].seats
      <4>1. \A n, g, d : NewTicket(n, g, d).reg = d
        BY DEF NewTicket
      <4>2. PICK number :
              tickets' = tickets \cup {NewTicket(number[d], regs[d].guest, d) : d \in req[w].seats}
        BY <3>1
      <4> QED BY <4>1, <4>2
    <3> QED BY <1>3, <2>1, <3>2, <3>3, <3>4
  <2> QED BY <1>8, <2>2, <2>3 DEF PromoteCommit
<1>9. RowsFit /\ TicketsFit
  BY <1>5, <1>6, <1>7, <1>8
<1> QED BY <1>1, <1>2, <1>9, CommitKeeps

\* Every action keeps the bookkeeping.
LEMMA BookkeepingKept ==
    ASSUME TypeOK, Bookkeeping, NumbersRunOn, Next
    PROVE  Bookkeeping'
<1>1. TypeOK' /\ LastNumber(tickets') \in Nat
  BY TypesKept, TicketsKept DEF Numbered
<1>2. ASSUME NEW w \in Processes,
             RegisterUnlink(w) \/ RegisterWipe(w) \/ RegisterBegin(w) \/ Requeue(w)
      PROVE  Bookkeeping'
  <2>1. {t.number : t \in tickets'} = {t.number : t \in tickets}
    <3>1. CASE tickets' = tickets
      BY <3>1
    <3>2. CASE RegisterUnlink(w)
      <4> DEFINE unlinked(t) == [t EXCEPT !.reg = IF @ = req[w].reg THEN 0 ELSE @]
      <4>1. tickets' = {unlinked(t) : t \in tickets}
        BY <3>2 DEF RegisterUnlink
      <4>2. \A t \in tickets : unlinked(t).number = t.number
        BY DEF TypeOK, Tickets
      <4> HIDE DEF unlinked
      <4> QED BY <4>1, <4>2
    <3> QED BY <1>2, <3>1, <3>2 DEF RegisterWipe, RegisterBegin, Requeue
  <2>2. LastNumber(tickets') = LastNumber(tickets)
    <3>1. Numbered(tickets)
      BY DEF Numbered, NumbersRunOn, Bookkeeping
    <3> QED BY <2>1, <3>1, LastOfRun DEF Numbered
  <2> QED BY <1>1, <1>2, <2>2, UnlockedKeepBookkeeping
<1>3. ASSUME NEW w \in Processes,
             RegisterCreate(w) \/ ApproveCommit(w) \/ RemoveCommit(w) \/ PromoteCommit(w)
      PROVE  Bookkeeping'
  BY <1>1, <1>3, CommitsKeepBookkeeping
<1>4. Scheduler \in Processes /\ Workers \subseteq Processes
  BY DEF Processes
<1>5. \/ \E w \in Processes :
          RegisterUnlink(w) \/ RegisterWipe(w) \/ RegisterBegin(w) \/ Requeue(w)
      \/ \E w \in Processes :
          RegisterCreate(w) \/ ApproveCommit(w) \/ RemoveCommit(w) \/ PromoteCommit(w)
      \/ \E w \in Processes :
          \/ \E g \in Guests : RegisterRead(w, g)
          \/ \E d \in Signups : ApproveRead(w, d)
          \/ \E d \in Signups, to \in Removed : RemoveRead(w, d, to)
          \/ \E p \in Patches : PatchRead(w, p)
          \/ w = Scheduler /\ SweepStart
          \/ RegisterLookup(w) \/ PromoteRead(w) \/ PatchWrite(w) \/ Enter(w) \/ Abort(w)
  BY <1>4 DEF Next, Arrive, Proceed
<1> QED BY <1>1, <1>2, <1>3, <1>5, ReadsKeepBookkeeping

-----------------------------------------------------------------------------
\* Every action keeps live tickets on approved signups.
LEMMA LiveKept ==
    ASSUME TypeOK, Bookkeeping, LiveTicketIsApproved, Next
    PROVE  LiveTicketIsApproved'
<1>1. \A t \in tickets : t.reg # 0 =>
        /\ t.reg \in Signups /\ regs[t.reg].status # "absent"
        /\ ~ t.revoked => regs[t.reg].status = "approved"
  BY DEF Bookkeeping, LiveTicketIsApproved, TypeOK, Tickets
<1>2. \A d \in Signups : regs[d] \in Rows
  BY DEF TypeOK
<1>3. \A w \in Processes : InFlight(w) /\ req[w] \in Requests
  BY DEF Bookkeeping, TypeOK
<1>4. \A n, g, d : NewTicket(n, g, d).reg = d
  BY DEF NewTicket
<1>5. CASE UNCHANGED <<regs, tickets>>
  BY <1>1, <1>5 DEF LiveTicketIsApproved
<1>6. ASSUME NEW w \in Processes, RegisterUnlink(w) PROVE LiveTicketIsApproved'
  <2>1. regs' = regs /\ \A t \in tickets' : t.reg # 0 => \E u \in tickets : u.reg = t.reg /\ u.revoked = t.revoked
    BY <1>6 DEF RegisterUnlink, TypeOK, Tickets
  <2> QED BY <1>1, <2>1 DEF LiveTicketIsApproved
<1>7. ASSUME NEW w \in Processes, RegisterWipe(w) PROVE LiveTicketIsApproved'
  <2>1. CASE UNCHANGED regs
    BY <1>5, <1>7, <2>1 DEF RegisterWipe
  <2>2. CASE regs' = [regs EXCEPT ![req[w].reg] = NoRow] /\ Linked(req[w].reg) = {}
    <3>1. tickets' = tickets /\ \A t \in tickets : t.reg # req[w].reg
      BY <1>7, <2>2 DEF RegisterWipe, Linked
    <3> QED BY <1>1, <2>2, <3>1 DEF LiveTicketIsApproved, TypeOK
  <2> QED BY <1>7, <2>1, <2>2 DEF RegisterWipe
<1>8. ASSUME NEW w \in Processes, RegisterCreate(w) PROVE LiveTicketIsApproved'
  <2>1. CASE UNCHANGED <<regs, tickets>>
    BY <1>5, <2>1
  <2>2. CASE RowsOf(req[w].guest) = {}
    <3>1. req[w].reg \in Signups /\ regs[req[w].reg].status = "absent"
      BY <1>3, <1>8 DEF RegisterCreate, At, InFlight
    <3>2. regs' = [regs EXCEPT ![req[w].reg] =
                     [guest |-> req[w].guest, status |-> req[w].to, by |-> "model"]]
      BY <1>8, <2>2 DEF RegisterCreate
    <3>3. \A t \in tickets' : t \in tickets \/ (t.reg = req[w].reg /\ req[w].to = "approved")
      <4>1. \/ tickets' = tickets
            \/ /\ req[w].to = "approved"
               /\ tickets' = tickets \cup {NewTicket(req[w].last + 1, req[w].guest, req[w].reg)}
        BY <1>8, <2>2 DEF RegisterCreate
      <4>2. NewTicket(req[w].last + 1, req[w].guest, req[w].reg).reg = req[w].reg
        BY DEF NewTicket
      <4> QED BY <4>1, <4>2
    <3> QED BY <1>1, <3>1, <3>2, <3>3 DEF LiveTicketIsApproved, TypeOK
  <2> QED BY <1>8, <2>1, <2>2 DEF RegisterCreate
<1>9. ASSUME NEW w \in Processes, ApproveCommit(w) PROVE LiveTicketIsApproved'
  <2>1. CASE UNCHANGED <<regs, tickets>>
    BY <1>5, <2>1
  <2>2. CASE Ticketable(req[w].reg)
    <3>1. req[w].reg \in Signups
      BY <1>3, <1>9 DEF ApproveCommit, At, InFlight
    <3>2. regs' = [regs EXCEPT ![req[w].reg].status = "approved", ![req[w].reg].by = "organizer"]
      BY <1>9, <2>2 DEF ApproveCommit
    <3>3. \A t \in tickets' : t \in tickets \/ t.reg = req[w].reg
      BY <1>4, <1>9, <2>2 DEF ApproveCommit
    <3>4. /\ regs'[req[w].reg].status = "approved"
          /\ \A d \in Signups : d # req[w].reg => regs'[d] = regs[d]
      BY <1>2, <3>1, <3>2 DEF TypeOK, Rows
    <3> QED BY <1>1, <3>1, <3>3, <3>4 DEF LiveTicketIsApproved
  <2> QED BY <1>9, <2>1, <2>2 DEF ApproveCommit
<1>10. ASSUME NEW w \in Processes, RemoveCommit(w) PROVE LiveTicketIsApproved'
  <2>1. /\ req[w].reg \in Signups
        /\ regs[req[w].reg].status = "approved" => req[w].was
    BY <1>3, <1>10 DEF RemoveCommit, At, InFlight
  <2>2. \A d \in Signups : d # req[w].reg => regs'[d] = regs[d]
    BY <1>10, <2>1 DEF RemoveCommit, TypeOK
  <2>3. CASE req[w].was
    <3>1. \A t \in tickets' : ~ t.revoked => t \in tickets /\ t.reg # req[w].reg
      <4>1. \A t \in tickets : /\ [t EXCEPT !.revoked = @ \/ t.reg = req[w].reg].revoked
                                    = (t.revoked \/ t.reg = req[w].reg)
                               /\ ~ (t.revoked \/ t.reg = req[w].reg) =>
                                    [t EXCEPT !.revoked = @ \/ t.reg = req[w].reg] = t
        BY DEF TypeOK, Tickets
      <4>2. tickets' = {[t EXCEPT !.revoked = @ \/ t.reg = req[w].reg] : t \in tickets}
        BY <1>10, <2>3 DEF RemoveCommit, RevokeTickets
      <4> QED BY <4>1, <4>2
    <3> QED BY <1>1, <2>2, <3>1 DEF LiveTicketIsApproved
  <2>4. CASE ~ req[w].was
    <3>1. tickets' = tickets /\ regs[req[w].reg].status # "approved"
      BY <1>10, <2>1, <2>4 DEF RemoveCommit
    <3> QED BY <1>1, <2>2, <3>1 DEF LiveTicketIsApproved
  <2> QED BY <2>3, <2>4
<1>11. ASSUME NEW w \in Processes, PromoteCommit(w) PROVE LiveTicketIsApproved'
  <2>1. CASE UNCHANGED <<regs, tickets>>
    BY <1>5, <2>1
  <2>2. CASE \A d \in req[w].seats : Ticketable(d)
    <3>1. req[w].seats \subseteq Signups
      BY <1>3 DEF Requests
    <3>2. \A d \in Signups : IF d \in req[w].seats THEN regs'[d].status = "approved"
                             ELSE regs'[d] = regs[d]
      BY <1>2, <1>11, <2>2 DEF PromoteCommit, Rows
    <3>3. \A t \in tickets' : t \in tickets \/ t.reg \in req[w].seats
      <4>1. PICK number :
              tickets' = tickets \cup {NewTicket(number[d], regs[d].guest, d) : d \in req[w].seats}
        BY <1>11, <2>2 DEF PromoteCommit
      <4> QED BY <1>4, <4>1
    <3> QED BY <1>1, <3>1, <3>2, <3>3 DEF LiveTicketIsApproved
  <2> QED BY <1>11, <2>1, <2>2 DEF PromoteCommit
<1>12. ASSUME NEW w \in Processes, Requeue(w) PROVE LiveTicketIsApproved'
  <2>1. tickets' = tickets
        /\ \A d \in Signups : regs[d].status = "approved" => regs'[d] = regs[d]
    BY <1>12 DEF Requeue
  <2> QED BY <1>1, <2>1 DEF LiveTicketIsApproved
<1>13. \/ UNCHANGED <<regs, tickets>>
       \/ \E w \in Processes : \/ RegisterUnlink(w) \/ RegisterWipe(w) \/ RegisterCreate(w)
                               \/ ApproveCommit(w) \/ RemoveCommit(w) \/ PromoteCommit(w)
                               \/ Requeue(w)
  BY DEF Next, Arrive, Proceed, Enter, RegisterRead, ApproveRead, RemoveRead, PatchRead,
         SweepStart, RegisterLookup, RegisterBegin, RegisterEnter, ApproveEnter,
         RemoveEnter, PromoteRead, PromoteEnter, PatchWrite, Abort, db
<1> QED BY <1>5, <1>6, <1>7, <1>8, <1>9, <1>10, <1>11, <1>12, <1>13

-----------------------------------------------------------------------------
LEMMA InitHolds == Init => Inv
<1> SUFFICES ASSUME Init PROVE Inv
  OBVIOUS
<1>1. TypeOK
  <2>1. NoRow \in Rows /\ None \in Processes \cup {None}
    BY DEF NoRow, Rows
  <2>2. event.capacity \in Nat \cup {None}
    BY ConstantsAssumption DEF Init, Events
  <2> QED BY <2>1, <2>2, ConstantsAssumption, IdleIsRequest DEF Init, TypeOK
<1>2. LastNumber(tickets) = 0
  BY DEF Init, LastNumber
<1>3. NumbersRunOn /\ LiveTicketIsApproved
  BY <1>2 DEF Init, NumbersRunOn, LiveTicketIsApproved
<1>4. \A w \in Processes : req[w] = Idle /\ Idle.pc = "idle"
  BY DEF Init, Idle
<1>5. \A w \in Processes : InFlight(w)
  BY <1>4 DEF InFlight, Opening, Holds
<1>6. \A d \in Signups : regs[d].status = "absent"
  BY DEF Init, NoRow
<1>7. Bookkeeping
  BY <1>2, <1>4, <1>5, <1>6 DEF Bookkeeping, Init
<1> QED BY <1>1, <1>3, <1>7 DEF Inv

LEMMA StepKeeps == Inv /\ [Next]_vars => Inv'
<1> SUFFICES ASSUME Inv, [Next]_vars PROVE Inv'
  OBVIOUS
<1>1. CASE Next
  <2>1. TypeOK' /\ Bookkeeping' /\ LiveTicketIsApproved'
    BY <1>1, TypesKept, BookkeepingKept, LiveKept DEF Inv
  <2>2. NumbersRunOn'
    BY <1>1, TicketsKept DEF Inv, Numbered, NumbersRunOn
  <2> QED BY <2>1, <2>2 DEF Inv
<1>2. CASE UNCHANGED vars
  BY <1>2 DEF vars, Inv, TypeOK, Bookkeeping, InFlight, NumbersRunOn, LiveTicketIsApproved
<1> QED BY <1>1, <1>2

LEMMA InvHolds == Spec => []Inv
BY InitHolds, StepKeeps, PTL DEF Spec

\* Types of the variables, in every reachable state.
THEOREM TypeCorrect == Spec => []TypeOK
<1>1. Inv => TypeOK
  BY DEF Inv
<1> QED BY <1>1, InvHolds, PTL

\* What each request in flight knows of the rows, the tickets and the lock stays
\* true: stamps are fresh, the lock is held by whoever is past it, and what was
\* read under it is current.
THEOREM BookkeepingHolds == Spec => []Bookkeeping
<1>1. Inv => Bookkeeping
  BY DEF Inv
<1> QED BY <1>1, InvHolds, PTL

\* However many signups, approvals, promotions, cancellations and crashes
\* interleave, ticket numbers run 1, 2, 3, ... and none is given twice.
THEOREM NumbersAreARun == Spec => []NumbersRunOn
<1>1. Inv => NumbersRunOn
  BY DEF Inv
<1> QED BY <1>1, InvHolds, PTL

\* A ticket that opens the door always hangs on an approved signup.
THEOREM LiveTicketsApproved == Spec => []LiveTicketIsApproved
<1>1. Inv => LiveTicketIsApproved
  BY DEF Inv
<1> QED BY <1>1, InvHolds, PTL

\* The tickets implement the abstract ledger: numbers are issued in order, in
\* runs, and a revoked number never opens the door again.
THEOREM LedgerImplemented == Spec => LedgerKept
<1>1. Init => Ledger!Init
  BY DEF Init, Ledger!Init, LastNumber
<1>2. Inv /\ [Next]_vars => [Ledger!Next]_<<LastNumber(tickets), Live(tickets)>>
  <2> SUFFICES ASSUME Inv, [Next]_vars
               PROVE  LedgerStep
    BY DEF LedgerStep
  <2>1. CASE Next
    BY <2>1, TicketsKept DEF Inv
  <2>2. CASE UNCHANGED vars
    BY <2>2 DEF vars, LedgerStep, Live
  <2> QED BY <2>1, <2>2
<1>3. Inv /\ [Next]_vars =>
        [Ledger!Next]_<<LastNumber(tickets), {t.number : t \in {u \in tickets : ~ u.revoked}}>>
  BY <1>2 DEF Live
<1> QED BY <1>1, <1>3, InvHolds, PTL DEF Spec, LedgerKept, Ledger!Spec
-----------------------------------------------------------------------------
\* A ticket of a guest that opens the door and hangs on the signup or on none.
HasTicket(T, g, d) == \E t \in T : t.guest = g /\ ~ t.revoked /\ t.reg \in {0, d}

\* A new ticket is its guest's, live, and hangs on its signup.
LEMMA NewTickets ==
    ASSUME NEW T, NEW n, NEW g, NEW d, NewTicket(n, g, d) \in T
    PROVE  HasTicket(T, g, d)
BY DEF NewTicket, HasTicket

\* Clearing detaches tickets and leaves them live, a removal revokes the tickets
\* of the signup it removes only, and whoever approves issues one.
LEMMA HeldKept ==
    ASSUME TypeOK, Bookkeeping, ApprovedHoldsTicket, Next
    PROVE  ApprovedHoldsTicket'
<1>1. \A d \in Signups : regs[d].status = "approved" => HasTicket(tickets, regs[d].guest, d)
  BY DEF ApprovedHoldsTicket, HasTicket
<1>2. ASSUME \A d \in Signups : regs'[d].status = "approved" => HasTicket(tickets', regs'[d].guest, d)
      PROVE  ApprovedHoldsTicket'
  BY <1>2 DEF ApprovedHoldsTicket, HasTicket
<1>3. ASSUME tickets \subseteq tickets',
             \A d \in Signups : regs'[d].status = "approved" =>
                 \/ regs[d].status = "approved" /\ regs'[d].guest = regs[d].guest
                 \/ HasTicket(tickets', regs'[d].guest, d)
      PROVE  ApprovedHoldsTicket'
  <2>1. \A g, d : HasTicket(tickets, g, d) => HasTicket(tickets', g, d)
    BY <1>3 DEF HasTicket
  <2> QED BY <1>1, <1>2, <1>3, <2>1
<1>4. \A d \in Signups : regs[d] \in Rows
  BY DEF TypeOK
<1>5. \A w \in Processes : InFlight(w) /\ req[w] \in Requests
  BY DEF Bookkeeping, TypeOK
<1>6. CASE UNCHANGED <<regs, tickets>>
  BY <1>3, <1>6
<1>7. ASSUME NEW w \in Processes, RegisterUnlink(w) PROVE ApprovedHoldsTicket'
  <2>1. regs' = regs /\ tickets' = {[t EXCEPT !.reg = IF @ = req[w].reg THEN 0 ELSE @] : t \in tickets}
    BY <1>7 DEF RegisterUnlink
  <2>2. ASSUME NEW d \in Signups, NEW g, HasTicket(tickets, g, d) PROVE HasTicket(tickets', g, d)
    <3>1. PICK t \in tickets : t.guest = g /\ ~ t.revoked /\ t.reg \in {0, d}
      BY <2>2 DEF HasTicket
    <3>2. PICK u \in tickets' : u = [t EXCEPT !.reg = IF @ = req[w].reg THEN 0 ELSE @]
      BY <2>1
    <3>3. u.guest = t.guest /\ u.revoked = t.revoked /\ u.reg \in {0, t.reg}
      BY <3>2 DEF TypeOK, Tickets
    <3> QED BY <3>1, <3>3 DEF HasTicket
  <2> QED BY <1>1, <1>2, <2>1, <2>2
<1>8. ASSUME NEW w \in Processes, RegisterWipe(w) PROVE ApprovedHoldsTicket'
  <2>1. tickets' = tickets /\ req[w].reg \in Signups
    BY <1>5, <1>8 DEF RegisterWipe, At, InFlight
  <2>2. regs' = regs \/ regs' = [regs EXCEPT ![req[w].reg] = NoRow]
    BY <1>8 DEF RegisterWipe
  <2>3. \A d \in Signups : regs'[d] = regs[d] \/ regs'[d].status = "absent"
    BY <2>1, <2>2 DEF NoRow, TypeOK
  <2> QED BY <1>3, <2>1, <2>3
<1>9. ASSUME NEW w \in Processes, RegisterCreate(w) PROVE ApprovedHoldsTicket'
  <2>1. CASE UNCHANGED <<regs, tickets>>
    BY <1>6, <2>1
  <2>2. CASE RowsOf(req[w].guest) = {}
    <3>1. req[w].reg \in Signups
      BY <1>5, <1>9 DEF RegisterCreate, At, InFlight
    <3>2. /\ regs' = [regs EXCEPT ![req[w].reg] =
                        [guest |-> req[w].guest, status |-> req[w].to, by |-> "model"]]
          /\ tickets' = IF req[w].to = "approved"
                        THEN tickets \cup {NewTicket(req[w].last + 1, req[w].guest, req[w].reg)}
                        ELSE tickets
      BY <1>9, <2>2 DEF RegisterCreate
    <3>3. req[w].to = "approved" => HasTicket(tickets', req[w].guest, req[w].reg)
      <4>1. req[w].to = "approved" => NewTicket(req[w].last + 1, req[w].guest, req[w].reg) \in tickets'
        BY <3>2
      <4> QED BY <4>1, NewTickets
    <3>4. /\ regs'[req[w].reg].status = req[w].to /\ regs'[req[w].reg].guest = req[w].guest
          /\ \A d \in Signups : d # req[w].reg => regs'[d] = regs[d]
      BY <3>1, <3>2 DEF TypeOK
    <3>5. tickets \subseteq tickets'
      BY <3>2
    <3> QED BY <1>3, <3>3, <3>4, <3>5
  <2> QED BY <1>9, <2>1, <2>2 DEF RegisterCreate
<1>10. ASSUME NEW w \in Processes, ApproveCommit(w) PROVE ApprovedHoldsTicket'
  <2>1. CASE UNCHANGED <<regs, tickets>>
    BY <1>6, <2>1
  <2>2. CASE Ticketable(req[w].reg)
    <3>1. req[w].reg \in Signups
      BY <1>5, <1>10 DEF ApproveCommit, At, InFlight
    <3>2. /\ regs' = [regs EXCEPT ![req[w].reg].status = "approved", ![req[w].reg].by = "organizer"]
          /\ tickets' = tickets \cup {NewTicket(req[w].last + 1, regs[req[w].reg].guest, req[w].reg)}
      BY <1>10, <2>2 DEF ApproveCommit
    <3>3. /\ regs'[req[w].reg].guest = regs[req[w].reg].guest
          /\ \A d \in Signups : d # req[w].reg => regs'[d] = regs[d]
      BY <1>4, <3>1, <3>2 DEF TypeOK, Rows
    <3>4. HasTicket(tickets', regs[req[w].reg].guest, req[w].reg)
      BY <3>2, NewTickets
    <3>5. tickets \subseteq tickets'
      BY <3>2
    <3> QED BY <1>3, <3>3, <3>4, <3>5
  <2> QED BY <1>10, <2>1, <2>2 DEF ApproveCommit
<1>11. ASSUME NEW w \in Processes, RemoveCommit(w) PROVE ApprovedHoldsTicket'
  <2>1. req[w].reg \in Signups /\ req[w].to \in Removed
    BY <1>5, <1>11 DEF RemoveCommit, At, InFlight
  <2>2. \A d \in Signups : regs'[d].status = "approved" => d # req[w].reg /\ regs'[d] = regs[d]
    <3>1. CASE regs[req[w].reg].status # "absent"
      <4>1. regs' = [regs EXCEPT ![req[w].reg].status = req[w].to, ![req[w].reg].by = "nobody"]
        BY <1>11, <3>1 DEF RemoveCommit
      <4>2. /\ regs'[req[w].reg].status = req[w].to
            /\ \A d \in Signups : d # req[w].reg => regs'[d] = regs[d]
        BY <1>4, <2>1, <4>1 DEF TypeOK, Rows
      <4> QED BY <2>1, <4>2 DEF Removed
    <3>2. CASE regs[req[w].reg].status = "absent"
      BY <1>11, <3>2 DEF RemoveCommit
    <3> QED BY <3>1, <3>2
  <2>3. \A t \in tickets : t.reg # req[w].reg => t \in tickets'
    <3>1. CASE req[w].was
      <4>1. tickets' = {[t EXCEPT !.revoked = @ \/ t.reg = req[w].reg] : t \in tickets}
        BY <1>11, <3>1 DEF RemoveCommit, RevokeTickets
      <4>2. \A t \in tickets : t.reg # req[w].reg => [t EXCEPT !.revoked = @ \/ t.reg = req[w].reg] = t
        BY DEF TypeOK, Tickets
      <4> QED BY <4>1, <4>2
    <3>2. CASE ~ req[w].was
      BY <1>11, <3>2 DEF RemoveCommit
    <3> QED BY <3>1, <3>2
  <2>4. \A d \in Signups : regs'[d].status = "approved" => HasTicket(tickets', regs'[d].guest, d)
    <3> SUFFICES ASSUME NEW d \in Signups, regs'[d].status = "approved"
                 PROVE  HasTicket(tickets', regs'[d].guest, d)
      OBVIOUS
    <3>1. PICK t \in tickets : t.guest = regs[d].guest /\ ~ t.revoked /\ t.reg \in {0, d}
      BY <1>1, <2>2 DEF HasTicket
    <3>2. t.reg # req[w].reg /\ regs'[d] = regs[d]
      BY <2>1, <2>2, <3>1, ConstantsAssumption DEF Signups
    <3> QED BY <2>3, <3>1, <3>2 DEF HasTicket
  <2> QED BY <1>2, <2>4
<1>12. ASSUME NEW w \in Processes, PromoteCommit(w) PROVE ApprovedHoldsTicket'
  <2>1. CASE UNCHANGED <<regs, tickets>>
    BY <1>6, <2>1
  <2>2. CASE \A d \in req[w].seats : Ticketable(d)
    <3>1. \A d \in Signups : IF d \in req[w].seats THEN regs'[d].guest = regs[d].guest
                             ELSE regs'[d] = regs[d]
      BY <1>4, <1>12, <2>2 DEF PromoteCommit, Rows
    <3>2. PICK number :
            tickets' = tickets \cup {NewTicket(number[d], regs[d].guest, d) : d \in req[w].seats}
      BY <1>12, <2>2 DEF PromoteCommit
    <3>3. \A d \in req[w].seats : HasTicket(tickets', regs[d].guest, d)
      <4> SUFFICES ASSUME NEW d \in req[w].seats PROVE HasTicket(tickets', regs[d].guest, d)
        OBVIOUS
      <4>1. NewTicket(number[d], regs[d].guest, d) \in tickets'
        BY <3>2
      <4> QED BY <4>1, NewTickets
    <3>4. tickets \subseteq tickets'
      BY <3>2
    <3> QED BY <1>3, <3>1, <3>3, <3>4
  <2> QED BY <1>12, <2>1, <2>2 DEF PromoteCommit
<1>13. ASSUME NEW w \in Processes, Requeue(w) PROVE ApprovedHoldsTicket'
  <2>1. tickets' = tickets
        /\ \A d \in Signups : regs'[d].status = "approved" => regs'[d] = regs[d]
    BY <1>4, <1>13 DEF Requeue, Rows
  <2> QED BY <1>3, <2>1
<1>14. \/ UNCHANGED <<regs, tickets>>
       \/ \E w \in Processes : \/ RegisterUnlink(w) \/ RegisterWipe(w) \/ RegisterCreate(w)
                               \/ ApproveCommit(w) \/ RemoveCommit(w) \/ PromoteCommit(w)
                               \/ Requeue(w)
  BY DEF Next, Arrive, Proceed, Enter, RegisterRead, ApproveRead, RemoveRead, PatchRead,
         SweepStart, RegisterLookup, RegisterBegin, RegisterEnter, ApproveEnter,
         RemoveEnter, PromoteRead, PromoteEnter, PatchWrite, Abort, db
<1> QED BY <1>6, <1>7, <1>8, <1>9, <1>10, <1>11, <1>12, <1>13, <1>14

\* Whoever is approved can enter: for any number of guests and requests, no
\* overlap of approvals, removals, second signups and crashes leaves an approved
\* signup whose guest has no live ticket.
THEOREM ApprovedGuestsHoldTickets == Spec => []ApprovedHoldsTicket
<1>1. Init => ApprovedHoldsTicket
  BY DEF Init, ApprovedHoldsTicket, NoRow
<1>2. Inv /\ ApprovedHoldsTicket /\ [Next]_vars => ApprovedHoldsTicket'
  <2> SUFFICES ASSUME Inv, ApprovedHoldsTicket, [Next]_vars PROVE ApprovedHoldsTicket'
    OBVIOUS
  <2>1. CASE Next
    BY <2>1, HeldKept DEF Inv
  <2>2. CASE UNCHANGED vars
    BY <2>2 DEF vars, ApprovedHoldsTicket
  <2> QED BY <2>1, <2>2
<1> QED BY <1>1, <1>2, InvHolds, PTL DEF Spec

\* The tickets that open the door and the approved signups match, both ways.
THEOREM TicketsMatchSignups == Spec => []TicketsMatch
<1>1. LiveTicketIsApproved /\ ApprovedHoldsTicket => TicketsMatch
  BY DEF TicketsMatch
<1> QED BY <1>1, LiveTicketsApproved, ApprovedGuestsHoldTickets, PTL

-----------------------------------------------------------------------------
(***************************************************************************)
(* Seats: who gets one, in which order, and how many there are.            *)
(***************************************************************************)
\* the seats that signups and promotions gave, without an organizer
Given == {d \in WithStatus("approved") : regs[d].by = "model"}

\* A step that seats nobody, puts nobody on the waitlist and brings no row into
\* being, except by an organizer's approval.
Thins ==
    \A d \in Signups :
        \/ regs'[d] = regs[d]
        \/ regs'[d].status = "absent"
        \/ /\ regs[d].status # "absent" /\ regs'[d].guest = regs[d].guest
           /\ \/ regs'[d].status \in Removed \cup {"pending"}
              \/ regs'[d].status = "approved" /\ regs'[d].by = "organizer"

LEMMA RowSteps ==
    ASSUME TypeOK, Bookkeeping, Next
    PROVE  \/ Thins
           \/ \E w \in Processes : RegisterCreate(w) /\ RowsOf(req[w].guest) = {}
           \/ \E w \in Processes : PromoteCommit(w) /\ \A d \in req[w].seats : Ticketable(d)
<1>1. \A d \in Signups : regs[d] \in Rows
  BY DEF TypeOK
<1>2. \A w \in Processes : InFlight(w) /\ req[w] \in Requests
  BY DEF Bookkeeping, TypeOK
<1>3. ASSUME regs' = regs PROVE Thins
  BY <1>3 DEF Thins
<1>4. ASSUME NEW w \in Processes, RegisterWipe(w) PROVE Thins
  <2>1. req[w].reg \in Signups
    BY <1>2, <1>4 DEF RegisterWipe, At, InFlight
  <2>2. regs' = regs \/ regs' = [regs EXCEPT ![req[w].reg] = NoRow]
    BY <1>4 DEF RegisterWipe
  <2>3. \A d \in Signups : regs'[d] = regs[d] \/ regs'[d].status = "absent"
    BY <2>1, <2>2 DEF NoRow, TypeOK
  <2> QED BY <2>3 DEF Thins
<1>5. ASSUME NEW w \in Processes, ApproveCommit(w) PROVE Thins
  <2>1. req[w].reg \in Signups
    BY <1>2, <1>5 DEF ApproveCommit, At, InFlight
  <2>2. CASE Ticketable(req[w].reg)
    <3>1. regs' = [regs EXCEPT ![req[w].reg].status = "approved", ![req[w].reg].by = "organizer"]
      BY <1>5, <2>2 DEF ApproveCommit
    <3>2. /\ regs'[req[w].reg].status = "approved" /\ regs'[req[w].reg].by = "organizer"
          /\ regs'[req[w].reg].guest = regs[req[w].reg].guest
          /\ regs[req[w].reg].status # "absent"
          /\ \A d \in Signups : d # req[w].reg => regs'[d] = regs[d]
      BY <1>1, <2>1, <2>2, <3>1 DEF TypeOK, Rows, Ticketable
    <3> QED BY <3>2 DEF Thins
  <2>3. CASE regs' = regs
    BY <1>3, <2>3
  <2> QED BY <1>5, <2>2, <2>3 DEF ApproveCommit
<1>6. ASSUME NEW w \in Processes, RemoveCommit(w) PROVE Thins
  <2>1. req[w].reg \in Signups /\ req[w].to \in Removed
    BY <1>2, <1>6 DEF RemoveCommit, At, InFlight
  <2>2. CASE regs[req[w].reg].status # "absent"
    <3>1. regs' = [regs EXCEPT ![req[w].reg].status = req[w].to, ![req[w].reg].by = "nobody"]
      BY <1>6, <2>2 DEF RemoveCommit
    <3>2. /\ regs'[req[w].reg].status \in Removed
          /\ regs'[req[w].reg].guest = regs[req[w].reg].guest
          /\ \A d \in Signups : d # req[w].reg => regs'[d] = regs[d]
      BY <1>1, <2>1, <3>1 DEF TypeOK, Rows
    <3> QED BY <2>2, <3>2 DEF Thins
  <2>3. CASE regs' = regs
    BY <1>3, <2>3
  <2> QED BY <1>6, <2>2, <2>3 DEF RemoveCommit
<1>7. ASSUME NEW w \in Processes, Requeue(w) PROVE Thins
  <2>1. \A d \in Signups :
          IF regs[d].status = "waitlisted"
          THEN regs'[d].status = "pending" /\ regs'[d].guest = regs[d].guest
          ELSE regs'[d] = regs[d]
    BY <1>1, <1>7 DEF Requeue, Rows
  <2> QED BY <2>1 DEF Thins
<1>8. ASSUME NEW w \in Processes, RegisterCreate(w), RowsOf(req[w].guest) # {} PROVE Thins
  <2>1. regs' = regs
    BY <1>8 DEF RegisterCreate
  <2> QED BY <1>3, <2>1
<1>9. ASSUME NEW w \in Processes, PromoteCommit(w), ~ \A d \in req[w].seats : Ticketable(d)
      PROVE  Thins
  <2>1. regs' = regs
    BY <1>9 DEF PromoteCommit
  <2> QED BY <1>3, <2>1
<1>10. \/ regs' = regs
       \/ \E w \in Processes : \/ RegisterWipe(w) \/ RegisterCreate(w) \/ ApproveCommit(w)
                               \/ RemoveCommit(w) \/ PromoteCommit(w) \/ Requeue(w)
  BY DEF Next, Arrive, Proceed, Enter, RegisterRead, ApproveRead, RemoveRead, PatchRead,
         SweepStart, RegisterLookup, RegisterUnlink, RegisterBegin, RegisterEnter, ApproveEnter,
         RemoveEnter, PromoteRead, PromoteEnter, PatchWrite, Abort, db
<1> QED BY <1>3, <1>4, <1>5, <1>6, <1>7, <1>8, <1>9, <1>10

\* Each step moves one request.  What it remembers of the event is what it read
\* before, or the event of now.
Carrying == Opening \cup {"enter", "lineup"}
Other == Pcs \ (Carrying \cup {"create", "promote"})

LEMMA Mover ==
    ASSUME TypeOK, Bookkeeping, Next
    PROVE  \E w \in Processes : \E r :
             /\ req' = [req EXCEPT ![w] = r]
             /\ \/ r.pc \in Other
                \/ r.pc \in Carrying /\ UNCHANGED event
                   /\ (r.ev = event \/ (req[w].pc \in Carrying /\ r.ev = req[w].ev))
                \/ RegisterEnter(w)
                \/ PromoteEnter(w)
<1>1. Scheduler \in Processes /\ Workers \subseteq Processes
  BY DEF Processes
<1>2. \A w \in Processes : req[w] \in Requests
  BY DEF TypeOK
<1>3. /\ {"idle", "vacancy", "approving", "approve", "removing", "remove", "patch", "requeue"} \subseteq Other
      /\ Carrying = {"lookup", "unlink", "wipe", "begin", "enter", "lineup"}
      /\ Idle.pc = "idle"
  BY DEF Other, Carrying, Opening, Pcs, Waits, Holds, Unlocked, Idle
<1> DEFINE Moves(w, r) ==
             /\ req' = [req EXCEPT ![w] = r]
             /\ \/ r.pc \in Other
                \/ r.pc \in Carrying /\ UNCHANGED event
                   /\ (r.ev = event \/ (req[w].pc \in Carrying /\ r.ev = req[w].ev))
                \/ RegisterEnter(w)
                \/ PromoteEnter(w)
<1>13. ASSUME NEW w \in Processes, NEW r, Become(w, r), r.pc \in Other PROVE \E s : Moves(w, s)
  BY <1>13 DEF Become
<1>14. ASSUME NEW w \in Processes, NEW r, Become(w, r), r.pc \in Carrying, event' = event,
              r.ev = event \/ (req[w].pc \in Carrying /\ r.ev = req[w].ev)
       PROVE  \E s : Moves(w, s)
  BY <1>14 DEF Become
<1>15. ASSUME NEW w \in Processes, RegisterEnter(w) \/ PromoteEnter(w) PROVE \E r : Moves(w, r)
  BY <1>15 DEF RegisterEnter, PromoteEnter, Become
<1> HIDE DEF Moves
<1>4. ASSUME NEW w \in Processes, Finish(w) PROVE \E r : Moves(w, r)
  BY <1>3, <1>4, <1>13 DEF Finish
<1>5. ASSUME NEW w \in Processes,
             \/ \E g \in Guests : RegisterRead(w, g)
             \/ \E d \in Signups : ApproveRead(w, d)
             \/ \E d \in Signups, to \in Removed : RemoveRead(w, d, to)
             \/ \E p \in Patches : PatchRead(w, p)
      PROVE  \E r : Moves(w, r)
  <2>1. CASE \E g \in Guests : RegisterRead(w, g)
    <3>1. PICK g \in Guests : RegisterRead(w, g)
      BY <2>1
    <3>2. [Idle EXCEPT !.pc = "lookup", !.guest = g, !.ev = event].pc = "lookup"
          /\ [Idle EXCEPT !.pc = "lookup", !.guest = g, !.ev = event].ev = event
      BY DEF Idle
    <3>3. Become(w, [Idle EXCEPT !.pc = "lookup", !.guest = g, !.ev = event]) /\ event' = event
      BY <3>1 DEF RegisterRead, db
    <3>4. PICK r : Become(w, r) /\ r.pc = "lookup" /\ r.ev = event
      BY <3>2, <3>3
    <3> QED BY <1>3, <1>14, <3>3, <3>4
  <2>2. CASE \E d \in Signups : ApproveRead(w, d)
    <3>1. PICK d \in Signups : ApproveRead(w, d)
      BY <2>2
    <3>2. [Idle EXCEPT !.pc = "approving", !.reg = d].pc = "approving"
      BY DEF Idle
    <3> QED BY <1>3, <1>13, <3>1, <3>2 DEF ApproveRead
  <2>3. CASE \E d \in Signups, to \in Removed : RemoveRead(w, d, to)
    <3>1. PICK d \in Signups, to \in Removed : RemoveRead(w, d, to)
      BY <2>3
    <3>2. [Idle EXCEPT !.pc = "removing", !.reg = d, !.to = to].pc = "removing"
      BY DEF Idle
    <3> QED BY <1>3, <1>13, <3>1, <3>2 DEF RemoveRead
  <2>4. CASE \E p \in Patches : PatchRead(w, p)
    <3>1. PICK p \in Patches : PatchRead(w, p)
      BY <2>4
    <3>2. [Idle EXCEPT !.pc = "patch", !.patch = p, !.ev = [Idle.ev EXCEPT !.model = event.model]].pc = "patch"
      BY DEF Idle
    <3> QED BY <1>3, <1>13, <3>1, <3>2 DEF PatchRead
  <2> QED BY <1>5, <2>1, <2>2, <2>3, <2>4
<1>6. ASSUME NEW w \in Processes, RegisterLookup(w) \/ RegisterUnlink(w) \/ RegisterWipe(w) \/ RegisterBegin(w)
      PROVE  \E r : Moves(w, r)
  <2>1. req[w].pc \in Carrying /\ UNCHANGED event
    BY <1>3, <1>6 DEF RegisterLookup, RegisterUnlink, RegisterWipe, RegisterBegin, At, db
  <2>2. \A pc : [req[w] EXCEPT !.pc = pc].pc = pc /\ [req[w] EXCEPT !.pc = pc].ev = req[w].ev
    BY <1>2 DEF Requests
  <2>3. \A pc, d : /\ [req[w] EXCEPT !.pc = pc, !.reg = d].pc = pc
                   /\ [req[w] EXCEPT !.pc = pc, !.reg = d].ev = req[w].ev
    BY <1>2 DEF Requests
  <2>4. CASE Finish(w)
    BY <1>4, <2>4
  <2>5. CASE \E pc \in Carrying : Become(w, [req[w] EXCEPT !.pc = pc])
    BY <1>14, <2>1, <2>2, <2>5
  <2>6. CASE \E pc \in Carrying : \E d : Become(w, [req[w] EXCEPT !.pc = pc, !.reg = d])
    BY <1>14, <2>1, <2>3, <2>6
  <2> QED BY <1>3, <1>6, <2>4, <2>5, <2>6 DEF RegisterLookup, RegisterUnlink, RegisterWipe, RegisterBegin
<1>7. ASSUME NEW w \in Processes, RegisterCreate(w) \/ ApproveCommit(w) \/ Requeue(w) \/ PromoteCommit(w) \/ Abort(w)
      PROVE  \E r : Moves(w, r)
  BY <1>4, <1>7 DEF RegisterCreate, ApproveCommit, Requeue, PromoteCommit, Abort
<1>8. ASSUME NEW w \in Processes, RemoveCommit(w) \/ PatchWrite(w) \/ (w = Scheduler /\ SweepStart)
      PROVE  \E r : Moves(w, r)
  <2>1. [Idle EXCEPT !.pc = "vacancy"].pc = "vacancy" /\ [Idle EXCEPT !.pc = "requeue"].pc = "requeue"
    BY DEF Idle
  <2>2. \/ Finish(w) \/ Become(w, [Idle EXCEPT !.pc = "vacancy"])
        \/ Become(w, [Idle EXCEPT !.pc = "requeue"])
    BY <1>8 DEF RemoveCommit, PatchWrite, SweepStart
  <2> QED BY <1>3, <1>4, <1>13, <2>1, <2>2
<1>9. ASSUME NEW w \in Processes, PromoteRead(w) PROVE \E r : Moves(w, r)
  <2>1. [req[w] EXCEPT !.pc = "lineup", !.ev = event].pc = "lineup"
        /\ [req[w] EXCEPT !.pc = "lineup", !.ev = event].ev = event
    BY <1>2 DEF Requests
  <2>2. Become(w, [req[w] EXCEPT !.pc = "lineup", !.ev = event]) /\ event' = event
    BY <1>9 DEF PromoteRead, db
  <2>3. PICK r : Become(w, r) /\ r.pc = "lineup" /\ r.ev = event
    BY <2>1, <2>2
  <2> QED BY <1>3, <1>14, <2>2, <2>3
<1>10. ASSUME NEW w \in Processes, ApproveEnter(w) \/ RemoveEnter(w) PROVE \E r : Moves(w, r)
  <2>1. CASE ApproveEnter(w)
    <3>1. [req[w] EXCEPT !.pc = "approve", !.last = LastNumber(tickets)].pc = "approve"
      BY <1>2 DEF Requests
    <3>2. PICK r : Become(w, r) /\ r.pc = "approve"
      BY <2>1, <3>1 DEF ApproveEnter
    <3> QED BY <1>3, <1>13, <3>2
  <2>2. CASE RemoveEnter(w)
    <3>1. [req[w] EXCEPT !.pc = "remove", !.was = regs[req[w].reg].status = "approved"].pc = "remove"
      BY <1>2 DEF Requests
    <3>2. PICK r : Become(w, r) /\ r.pc = "remove"
      BY <2>2, <3>1 DEF RemoveEnter
    <3> QED BY <1>3, <1>13, <3>2
  <2> QED BY <1>10, <2>1, <2>2
<1>12. \E w \in Processes : \E r : Moves(w, r)
  BY <1>1, <1>5, <1>6, <1>7, <1>8, <1>9, <1>10, <1>15 DEF Next, Arrive, Proceed, Enter
<1> QED BY <1>12 DEF Moves

LEMMA FiniteSeats ==
    ASSUME NEW S \in SUBSET Signups
    PROVE  /\ IsFiniteSet(S) /\ Cardinality(S) \in Nat
           /\ \A T \in SUBSET S : Cardinality(T) <= Cardinality(S)
           /\ \A d : Cardinality(S \cup {d}) <= Cardinality(S) + 1
<1>1. IsFiniteSet(Signups)
  BY FS_Interval, ConstantsAssumption DEF Signups
<1>2. IsFiniteSet(S)
  BY <1>1, FS_Subset
<1>3. Cardinality(S) \in Nat
  BY <1>2, FS_CardinalityType
<1>4. ASSUME NEW d PROVE Cardinality(S \cup {d}) <= Cardinality(S) + 1
  BY <1>2, <1>3, FS_AddElement
<1> QED BY <1>2, <1>3, <1>4, FS_Subset

\* The waitlist is served from its front, and what it takes fits into the capacity:
\* whoever is admitted has, with those before them, a seat of their own.
LEMMA AdmittedAre ==
    ASSUME TypeOK, NEW c \in Nat \cup {None}
    PROVE  /\ Admitted(c) \subseteq WithStatus("waitlisted")
           /\ \A d \in Admitted(c), e \in WithStatus("waitlisted") \ Admitted(c) : d < e
           /\ c # None /\ Admitted(c) # {} =>
                Cardinality(WithStatus("approved") \cup Admitted(c)) <= c
<1> DEFINE W == WithStatus("waitlisted")
           A == WithStatus("approved")
           a == Cardinality(A)
           Before(d) == {e \in W : e < d}
           S == Admitted(c)
<1>1. /\ W \subseteq Signups /\ A \subseteq Signups /\ A \cap W = {}
      /\ Signups \subseteq Nat
  BY ConstantsAssumption DEF WithStatus, Signups
<1>2. a \in Nat /\ \A d : Before(d) \in SUBSET W /\ Cardinality(Before(d)) \in Nat
  BY <1>1, FiniteSeats
<1>3. /\ S \subseteq W
      /\ \A d \in W : d \in S <=> ~ (c # None /\ a + Cardinality(Before(d)) >= c)
  BY DEF Admitted, Full
<1>4. ASSUME NEW d \in W, NEW e \in W, d < e
      PROVE  Cardinality(Before(d)) < Cardinality(Before(e))
  <2>1. Before(d) \cup {d} \in SUBSET Before(e) /\ d \notin Before(d)
    <3>1. \A x \in W : x \in Nat
      BY <1>1
    <3> HIDE DEF W
    <3> QED BY <1>4, <3>1
  <2>2. IsFiniteSet(Before(d)) /\ Before(e) \in SUBSET Signups
    BY <1>1, FiniteSeats
  <2>3. Cardinality(Before(d) \cup {d}) = Cardinality(Before(d)) + 1
    BY <2>1, <2>2, FS_AddElement
  <2>4. Cardinality(Before(d) \cup {d}) <= Cardinality(Before(e))
    BY <2>1, <2>2, FiniteSeats
  <2> HIDE DEF Before
  <2> QED BY <1>2, <2>3, <2>4
<1>5. ASSUME NEW d \in S, NEW e \in W \ S PROVE d < e
  <2>1. d \in W /\ d \in Nat /\ e \in Nat /\ d # e
    BY <1>1, <1>3
  <2>2. ~ (c # None /\ a + Cardinality(Before(d)) >= c) /\ c # None /\ a + Cardinality(Before(e)) >= c
    BY <1>3, <2>1
  <2>3. c \in Nat /\ Cardinality(Before(d)) < Cardinality(Before(e))
    <3> HIDE DEF Before, a
    <3> QED BY <1>2, <2>2
  <2>4. ~ (e < d)
    <3>1. e < d => Cardinality(Before(e)) < Cardinality(Before(d))
      BY <1>4, <2>1
    <3> HIDE DEF Before
    <3> QED BY <1>2, <2>3, <3>1
  <2> QED BY <2>1, <2>4
<1>6. ASSUME c # None, S # {} PROVE Cardinality(A \cup S) <= c
  <2>1. c \in Nat /\ \A d \in S : Cardinality(Before(d)) \in 0 .. c - a - 1
    <3>1. \A d \in S : ~ (a + Cardinality(Before(d)) >= c)
      BY <1>3, <1>6
    <3> HIDE DEF Before, a, S
    <3> QED BY <1>2, <1>6, <3>1
  <2>2. c - a - 1 \in Nat
    <3> HIDE DEF Before, a, S
    <3> QED BY <1>2, <1>6, <2>1
  <2> DEFINE f == [d \in S |-> Cardinality(Before(d))]
  <2>3. f \in Injection(S, 0 .. c - a - 1)
    <3>1. f \in [S -> 0 .. c - a - 1]
      BY <2>1
    <3>2. ASSUME NEW d \in S, NEW e \in S, f[d] = f[e] PROVE d = e
      <4>1. d \in Nat /\ e \in Nat /\ d \in W /\ e \in W
        BY <1>1, <1>3
      <4>2. Cardinality(Before(d)) = Cardinality(Before(e))
        BY <3>2
      <4>3. ~ (d < e) /\ ~ (e < d)
        <5>1. /\ d < e => Cardinality(Before(d)) < Cardinality(Before(e))
              /\ e < d => Cardinality(Before(e)) < Cardinality(Before(d))
          BY <1>4, <4>1
        <5> HIDE DEF Before
        <5> QED BY <1>2, <4>2, <5>1
      <4> QED BY <4>1, <4>3
    <3> HIDE DEF f
    <3> QED BY <3>1, <3>2 DEF Injection, IsInjective
  <2>4. IsFiniteSet(0 .. c - a - 1) /\ Cardinality(0 .. c - a - 1) = c - a
    <3>1. c - a - 1 \in Int /\ 0 \in Int
      BY <2>2
    <3>2. IsFiniteSet(0 .. c - a - 1)
          /\ Cardinality(0 .. c - a - 1) = IF 0 > c - a - 1 THEN 0 ELSE (c - a - 1) - 0 + 1
      BY <3>1, FS_Interval
    <3> HIDE DEF a
    <3> QED BY <1>2, <2>1, <2>2, <3>2
  <2>5. IsFiniteSet(S) /\ Cardinality(S) <= c - a
    <3> HIDE DEF f, S, a
    <3> QED BY <2>3, <2>4, FS_Injection
  <2>6. IsFiniteSet(A) /\ Cardinality(A \cup S) = Cardinality(A) + Cardinality(S) - Cardinality(A \cap S)
    <3>1. IsFiniteSet(A)
      BY <1>1, FiniteSeats
    <3> QED BY <2>5, <3>1, FS_Union
  <2>7. A \cap S = {} /\ Cardinality({}) = 0
    BY <1>1, <1>3, FS_EmptySet
  <2>8. Cardinality(A) \in Nat /\ Cardinality(S) \in Nat /\ a = Cardinality(A)
    BY <2>5, <2>6, FS_CardinalityType
  <2>9. Cardinality(A \cup S) = Cardinality(A) + Cardinality(S)
    <3>1. Cardinality(A \cap S) = 0
      BY <2>7
    <3>2. \A x, y \in Nat : x + y - 0 = x + y
      OBVIOUS
    <3> HIDE DEF S, A, a
    <3> QED BY <2>6, <2>8, <3>1, <3>2
  <2> HIDE DEF S, A, a
  <2> QED BY <2>1, <2>5, <2>8, <2>9
<1> QED BY <1>3, <1>5, <1>6

\* A capacity that was the event's at some time.
Below(c, p) == p = None \/ (c \in Nat /\ c <= p)

\* What SeatsWithinPeak rests on: capacities that requests remember were the event's,
\* and a request past the lock has room for the seats it is about to give.
Room ==
    /\ Below(event.capacity, peak)
    /\ \A w \in Processes :
         /\ req[w].pc \in Carrying => Below(req[w].ev.capacity, peak)
         /\ req[w].pc = "create" /\ req[w].to = "approved" /\ peak # None =>
              Cardinality(Given) + 1 <= peak
         /\ req[w].pc = "promote" /\ peak # None => Cardinality(Given \cup req[w].seats) <= peak

LEMMA PeakGrows ==
    ASSUME TypeOK, Below(event.capacity, peak), Next, TypeOK'
    PROVE  /\ \A c : Below(c, peak) => Below(c, peak')
           /\ peak' # None => peak # None /\ peak <= peak'
           /\ Below(event'.capacity, peak')
<1>1. event.capacity \in Nat \cup {None} /\ event'.capacity \in Nat \cup {None}
      /\ peak \in Nat \cup {None} /\ peak' \in Nat \cup {None} /\ None \notin Nat
  BY ConstantsAssumption DEF TypeOK, Events
<1>2. CASE UNCHANGED <<event, peak>>
  BY <1>1, <1>2
<1>3. ASSUME NEW w \in Processes, PatchWrite(w)
      PROVE  peak' = Larger(peak, event'.capacity)
  BY <1>3 DEF PatchWrite
<1>4. CASE peak' = Larger(peak, event'.capacity)
  BY <1>1, <1>4 DEF Larger, Below
<1>5. UNCHANGED <<event, peak>> \/ \E w \in Processes : PatchWrite(w)
  BY DEF Next, Arrive, Proceed, Enter, RegisterRead, ApproveRead, RemoveRead, PatchRead,
         SweepStart, RegisterLookup, RegisterUnlink, RegisterWipe, RegisterBegin, RegisterEnter,
         RegisterCreate, ApproveEnter, ApproveCommit, RemoveEnter, RemoveCommit, PromoteRead,
         PromoteEnter, PromoteCommit, Requeue, Abort, db
<1> QED BY <1>2, <1>3, <1>4, <1>5

\* The seats given before and after a step, and those that requests past the lock
\* are about to give.
LEMMA FewerGiven ==
    ASSUME TypeOK, TypeOK', Thins
    PROVE  Given' \subseteq Given
<1>1. ASSUME NEW d \in Given' PROVE d \in Given
  <2>1. d \in Signups /\ regs'[d].status = "approved" /\ regs'[d].by = "model"
    BY DEF Given, WithStatus
  <2>2. regs'[d] = regs[d]
    BY <2>1 DEF Thins, Removed
  <2> QED BY <2>1, <2>2 DEF Given, WithStatus
<1> QED BY <1>1

LEMMA GivenFits ==
    ASSUME NEW A \in SUBSET Signups, NEW B \in SUBSET Signups, B \subseteq A, NEW n \in Nat, NEW m \in Nat,
           Cardinality(A) <= n, n <= m
    PROVE  Cardinality(B) <= m
<1>1. Cardinality(A) \in Nat /\ Cardinality(B) \in Nat /\ Cardinality(B) <= Cardinality(A)
  BY FiniteSeats
<1> QED BY <1>1

LEMMA RoomKept ==
    ASSUME Inv, Room, SeatsWithinPeak, Next, Inv'
    PROVE  Room' /\ SeatsWithinPeak'
<1>1. /\ TypeOK /\ TypeOK' /\ Bookkeeping /\ Bookkeeping'
      /\ \A w \in Processes : req[w] \in Requests /\ InFlight(w)
  BY DEF Inv, TypeOK, Bookkeeping
<1>2. /\ \A c : Below(c, peak) => Below(c, peak')
      /\ peak' # None => peak # None /\ peak <= peak'
      /\ Below(event'.capacity, peak')
  BY <1>1, PeakGrows DEF Room
<1>3. /\ peak \in Nat \cup {None} /\ peak' \in Nat \cup {None} /\ None \notin Nat
      /\ Given \subseteq Signups /\ Given' \subseteq Signups
      /\ \A w \in Processes : req[w].seats \subseteq Signups
  BY <1>1, ConstantsAssumption DEF TypeOK, Given, WithStatus, Requests
<1>4. peak # None => Cardinality(Given) <= peak
  BY DEF SeatsWithinPeak, Given
<1>5. PICK w \in Processes, r \in {req'[v] : v \in Processes} :
             /\ req' = [req EXCEPT ![w] = r]
             /\ \/ r.pc \in Other
                \/ r.pc \in Carrying /\ UNCHANGED event
                   /\ (r.ev = event \/ (req[w].pc \in Carrying /\ r.ev = req[w].ev))
                \/ RegisterEnter(w)
                \/ PromoteEnter(w)
  <2>1. PICK w \in Processes : \E r :
             /\ req' = [req EXCEPT ![w] = r]
             /\ \/ r.pc \in Other
                \/ r.pc \in Carrying /\ UNCHANGED event
                   /\ (r.ev = event \/ (req[w].pc \in Carrying /\ r.ev = req[w].ev))
                \/ RegisterEnter(w)
                \/ PromoteEnter(w)
    BY <1>1, Mover
  <2>2. \A r : req' = [req EXCEPT ![w] = r] => r = req'[w]
    BY <1>1 DEF TypeOK
  <2> QED BY <2>1, <2>2
<1>6. req'[w] = r /\ \A v \in Processes : v # w => req'[v] = req[v]
  BY <1>1, <1>5 DEF TypeOK
<1>7. \A v \in Processes : req'[v].pc \in Carrying => Below(req'[v].ev.capacity, peak')
  <2>1. ASSUME NEW v \in Processes, v # w, req'[v].pc \in Carrying PROVE Below(req'[v].ev.capacity, peak')
    BY <1>2, <1>6, <2>1 DEF Room
  <2>2. ASSUME r.pc \in Carrying PROVE Below(r.ev.capacity, peak')
    <3>1. CASE r.ev = event
      BY <1>2, <3>1 DEF Room
    <3>2. CASE req[w].pc \in Carrying /\ r.ev = req[w].ev
      BY <1>2, <3>2 DEF Room
    <3>3. r.pc \notin Other
      BY <2>2 DEF Other
    <3>4. ~ RegisterEnter(w) /\ ~ PromoteEnter(w)
      <4>1. ASSUME RegisterEnter(w) PROVE r.pc = "create"
        BY <1>1, <1>6, <4>1 DEF RegisterEnter, Become, TypeOK, Requests
      <4>2. ASSUME PromoteEnter(w) PROVE r.pc = "promote"
        BY <1>1, <1>6, <4>2 DEF PromoteEnter, Become, TypeOK, Requests
      <4> QED BY <2>2, <4>1, <4>2 DEF Carrying, Opening
    <3> QED BY <1>5, <3>1, <3>2, <3>3, <3>4
  <2> QED BY <1>6, <2>1, <2>2
\* a step after which w alone, if anybody, is past the lock
<1>8. \A v \in Processes : req'[v].pc \in {"create", "promote"} =>
        \A u \in Processes : req'[u].pc \in {"create", "promote"} => u = v
  BY <1>1 DEF Bookkeeping, InFlight, Holds
<1>9. CASE Thins
  <2>1. Given' \subseteq Given
    BY <1>1, <1>9, FewerGiven
  <2>2. peak' # None => Cardinality(Given') <= peak'
    BY <1>2, <1>3, <1>4, <2>1, GivenFits
  <2>3. ASSUME NEW v \in Processes, v # w
        PROVE  /\ req'[v].pc = "create" /\ req'[v].to = "approved" /\ peak' # None =>
                    Cardinality(Given') + 1 <= peak'
               /\ req'[v].pc = "promote" /\ peak' # None =>
                    Cardinality(Given' \cup req'[v].seats) <= peak'
    <3>1. ASSUME req'[v].pc = "create", req'[v].to = "approved", peak' # None
          PROVE  Cardinality(Given') + 1 <= peak'
      <4>1. Cardinality(Given) + 1 <= peak /\ peak <= peak' /\ peak \in Nat /\ peak' \in Nat
        BY <1>2, <1>3, <1>6, <2>3, <3>1 DEF Room
      <4>2. Cardinality(Given') <= Cardinality(Given) /\ Cardinality(Given) \in Nat /\ Cardinality(Given') \in Nat
        BY <1>3, <2>1, FiniteSeats
      <4> QED BY <4>1, <4>2
    <3>2. ASSUME req'[v].pc = "promote", peak' # None
          PROVE  Cardinality(Given' \cup req'[v].seats) <= peak'
      <4>1. /\ Cardinality(Given \cup req[v].seats) <= peak /\ peak <= peak' /\ peak \in Nat /\ peak' \in Nat
            /\ req'[v].seats = req[v].seats
        BY <1>2, <1>3, <1>6, <2>3, <3>2 DEF Room
      <4>2. /\ Given' \cup req[v].seats \subseteq Given \cup req[v].seats
            /\ Given \cup req[v].seats \in SUBSET Signups /\ Given' \cup req[v].seats \in SUBSET Signups
        BY <1>3, <2>1
      <4> QED BY <4>1, <4>2, GivenFits
    <3> QED BY <3>1, <3>2
  <2>4. CASE r.pc \in Other \cup Carrying
    <3>1. r.pc \notin {"create", "promote"}
      BY <2>4 DEF Other, Carrying, Opening
    <3> QED BY <1>2, <1>6, <1>7, <2>2, <2>3, <3>1 DEF Room, SeatsWithinPeak, Given
  <2>5. CASE RegisterEnter(w)
    <3>1. UNCHANGED <<regs, peak>> /\ Given' = Given
      BY <2>5 DEF RegisterEnter, db, Given, WithStatus
    <3>2. r.pc = "create" /\ r.to = Outcome(req[w].ev) /\ req[w].pc = "enter"
      BY <1>1, <1>6, <2>5 DEF RegisterEnter, Become, At, TypeOK, Requests
    <3>3. ASSUME r.to = "approved", peak # None PROVE Cardinality(Given) + 1 <= peak
      <4>1. req[w].ev.capacity \in Nat /\ req[w].ev.capacity <= peak /\ peak \in Nat
        BY <1>3, <3>2, <3>3 DEF Room, Below, Carrying
      <4>2. ~ Full(Cardinality(WithStatus("approved")), req[w].ev.capacity)
        BY <3>2, <3>3 DEF Outcome
      <4>3. /\ Cardinality(Given) <= Cardinality(WithStatus("approved"))
            /\ Cardinality(Given) \in Nat /\ Cardinality(WithStatus("approved")) \in Nat
        BY FiniteSeats DEF Given, WithStatus
      <4>4. ~ (Cardinality(WithStatus("approved")) >= req[w].ev.capacity)
        BY <1>3, <4>1, <4>2 DEF Full
      <4> QED BY <4>1, <4>3, <4>4
    <3>4. r.pc # "promote"
      BY <3>2
    <3>5. ASSUME req'[w].pc = "create", req'[w].to = "approved", peak' # None
          PROVE  Cardinality(Given') + 1 <= peak'
      BY <1>6, <3>1, <3>3, <3>5
    <3> QED BY <1>2, <1>6, <1>7, <2>2, <2>3, <3>4, <3>5 DEF Room, SeatsWithinPeak, Given
  <2>6. CASE PromoteEnter(w)
    <3>1. UNCHANGED <<regs, peak>> /\ Given' = Given
      BY <2>6 DEF PromoteEnter, db, Given, WithStatus
    <3>2. r.pc = "promote" /\ r.seats = Admitted(req[w].ev.capacity) /\ req[w].pc = "lineup"
      BY <1>1, <1>6, <2>6 DEF PromoteEnter, Become, At, TypeOK, Requests
    <3>3. ASSUME peak # None PROVE Cardinality(Given \cup r.seats) <= peak
      <4>1. req[w].ev.capacity \in Nat /\ req[w].ev.capacity <= peak /\ peak \in Nat
        BY <1>3, <3>2, <3>3 DEF Room, Below, Carrying
      <4>2. CASE r.seats = {}
        <5>1. Given \cup r.seats = Given
          BY <4>2
        <5> QED BY <1>4, <3>3, <5>1
      <4>3. CASE r.seats # {}
        <5>1. /\ Cardinality(WithStatus("approved") \cup r.seats) <= req[w].ev.capacity
              /\ r.seats \subseteq WithStatus("waitlisted")
          BY <1>1, <1>3, <3>2, <4>1, <4>3, AdmittedAre
        <5>2. /\ Given \cup r.seats \subseteq WithStatus("approved") \cup r.seats
              /\ WithStatus("approved") \cup r.seats \in SUBSET Signups
              /\ Given \cup r.seats \in SUBSET Signups
          BY <5>1 DEF Given, WithStatus
        <5> QED BY <4>1, <5>1, <5>2, GivenFits
      <4> QED BY <4>2, <4>3
    <3>4. r.pc # "create"
      BY <3>2
    <3>5. ASSUME req'[w].pc = "promote", peak' # None
          PROVE  Cardinality(Given' \cup req'[w].seats) <= peak'
      BY <1>6, <3>1, <3>3, <3>5
    <3> QED BY <1>2, <1>6, <1>7, <2>2, <2>3, <3>4, <3>5 DEF Room, SeatsWithinPeak, Given
  <2> QED BY <1>5, <2>4, <2>5, <2>6
\* A commit that gives seats: nobody is past the lock afterwards.
<1>10. ASSUME NEW v \in Processes, RegisterCreate(v) \/ PromoteCommit(v)
       PROVE  /\ \A u \in Processes : req'[u].pc \notin {"create", "promote"}
              /\ peak' = peak
  <2>1. req[v].pc \in {"create", "promote"} /\ Finish(v) /\ peak' = peak
    BY <1>10 DEF RegisterCreate, PromoteCommit, At
  <2>2. \A u \in Processes : u # v => req'[u] = req[u] /\ req[u].pc \notin {"create", "promote"}
    BY <1>1, <2>1 DEF Bookkeeping, InFlight, Holds, Finish, Become, TypeOK
  <2>3. req'[v] = Idle /\ Idle.pc \notin {"create", "promote"}
    BY <1>1, <2>1 DEF Finish, Become, TypeOK, Idle
  <2> QED BY <2>1, <2>2, <2>3
<1>11. ASSUME NEW v \in Processes, RegisterCreate(v), RowsOf(req[v].guest) = {}
       PROVE  Room' /\ SeatsWithinPeak'
  <2>1. req[v].reg \in Signups /\ regs[req[v].reg].status = "absent" /\ req[v].pc = "create"
    BY <1>1, <1>11 DEF InFlight, RegisterCreate, At
  <2>2. regs' = [regs EXCEPT ![req[v].reg] = [guest |-> req[v].guest, status |-> req[v].to, by |-> "model"]]
    BY <1>11 DEF RegisterCreate
  <2>3. \A d \in Signups : IF d = req[v].reg THEN regs'[d].status = req[v].to ELSE regs'[d] = regs[d]
    BY <1>1, <2>1, <2>2 DEF TypeOK
  <2>4. peak' # None => Cardinality(Given') <= peak'
    <3>1. CASE req[v].to = "approved"
      <4>1. Given' \subseteq Given \cup {req[v].reg}
        BY <2>3 DEF Given, WithStatus
      <4>2. ASSUME peak # None PROVE Cardinality(Given') <= peak
        <5>1. Cardinality(Given) + 1 <= peak /\ peak \in Nat
          BY <1>3, <2>1, <3>1, <4>2 DEF Room
        <5>2. Cardinality(Given \cup {req[v].reg}) <= Cardinality(Given) + 1 /\ Cardinality(Given) \in Nat
          BY <1>3, FiniteSeats
        <5>3. Given \cup {req[v].reg} \in SUBSET Signups
          BY <1>3, <2>1
        <5>4. Cardinality(Given') <= Cardinality(Given \cup {req[v].reg})
              /\ Cardinality(Given \cup {req[v].reg}) \in Nat /\ Cardinality(Given') \in Nat
          BY <1>3, <4>1, <5>3, FiniteSeats
        <5> QED BY <5>1, <5>2, <5>4
      <4> QED BY <1>10, <1>11, <4>2
    <3>2. CASE req[v].to # "approved"
      <4>1. Given' \subseteq Given
        BY <2>3, <3>2 DEF Given, WithStatus
      <4> QED BY <1>2, <1>3, <1>4, <4>1, GivenFits
    <3> QED BY <3>1, <3>2
  <2> QED BY <1>2, <1>7, <1>10, <1>11, <2>4 DEF Room, SeatsWithinPeak, Given
<1>12. ASSUME NEW v \in Processes, PromoteCommit(v), \A d \in req[v].seats : Ticketable(d)
       PROVE  Room' /\ SeatsWithinPeak'
  <2>1. regs' = [d \in Signups |->
                   IF d \in req[v].seats THEN [regs[d] EXCEPT !.status = "approved", !.by = "model"]
                   ELSE regs[d]]
        /\ req[v].pc = "promote"
    BY <1>12 DEF PromoteCommit, At
  <2>2. Given' \subseteq Given \cup req[v].seats
    BY <2>1 DEF Given, WithStatus
  <2>3. peak' # None => Cardinality(Given') <= peak'
    <3>1. Given \cup req[v].seats \in SUBSET Signups
      BY <1>3
    <3>2. peak # None => Cardinality(Given \cup req[v].seats) <= peak
      BY <2>1 DEF Room
    <3> QED BY <1>2, <1>3, <2>2, <3>1, <3>2, GivenFits
  <2> QED BY <1>2, <1>7, <1>10, <1>12, <2>3 DEF Room, SeatsWithinPeak, Given
<1> QED BY <1>1, <1>9, <1>11, <1>12, RowSteps

\* However signups, approvals, promotions and changes of the capacity interleave,
\* the program by itself holds no more seats than the event ever had.
THEOREM SeatsStayWithin == Spec => []SeatsWithinPeak
<1>1. Init => Room /\ SeatsWithinPeak
  <2> SUFFICES ASSUME Init PROVE Room /\ SeatsWithinPeak
    OBVIOUS
  <2>1. Given = {} /\ Cardinality({}) = 0
    BY FS_EmptySet DEF Init, Given, WithStatus, NoRow
  <2>2. event.capacity \in Nat \cup {None} /\ peak = event.capacity /\ None \notin Nat
    BY ConstantsAssumption DEF Init, Events
  <2>3. \A w \in Processes : req[w].pc = "idle"
    BY DEF Init, Idle
  <2>4. Below(event.capacity, peak)
    BY <2>2 DEF Below
  <2>5. Room
    BY <2>3, <2>4 DEF Room, Carrying, Opening
  <2>6. peak # None => Cardinality(Given) <= peak
    BY <2>1, <2>2
  <2> QED BY <2>5, <2>6 DEF SeatsWithinPeak, Given
<1>2. Inv /\ Room /\ SeatsWithinPeak /\ [Next]_vars /\ Inv' => Room' /\ SeatsWithinPeak'
  <2> SUFFICES ASSUME Inv, Room, SeatsWithinPeak, [Next]_vars, Inv' PROVE Room' /\ SeatsWithinPeak'
    OBVIOUS
  <2>1. CASE UNCHANGED vars
    BY <2>1 DEF vars, Room, SeatsWithinPeak, Given, WithStatus
  <2> QED BY <2>1, RoomKept
<1> QED BY <1>1, <1>2, InvHolds, PTL DEF Spec

-----------------------------------------------------------------------------
\* A request about to promote has taken the front of the waitlist.
LinedUp ==
    \A w \in Processes : req[w].pc = "promote" =>
        \A d \in req[w].seats, e \in WithStatus("waitlisted") \ req[w].seats : d < e

LEMMA LineKept ==
    ASSUME Inv, LinedUp, Next, Inv'
    PROVE  /\ LinedUp'
           /\ \A d, e \in Signups :
                (/\ regs[d].status = "waitlisted"
                 /\ regs'[d].status = "approved" /\ regs'[d].by = "model"
                 /\ regs[e].status = "waitlisted" /\ regs'[e].status = "waitlisted")
                => d < e
<1>1. /\ TypeOK /\ TypeOK' /\ Bookkeeping /\ Bookkeeping'
      /\ \A w \in Processes : req[w] \in Requests /\ InFlight(w)
      /\ \A d \in Signups : regs[d] \in Rows
  BY DEF Inv, TypeOK, Bookkeeping
<1> DEFINE InOrder ==
             \A d, e \in Signups :
                (/\ regs[d].status = "waitlisted"
                 /\ regs'[d].status = "approved" /\ regs'[d].by = "model"
                 /\ regs[e].status = "waitlisted" /\ regs'[e].status = "waitlisted")
                => d < e
<1>2. CASE Thins
  <2>1. InOrder
    BY <1>2 DEF Thins, Removed
  <2>2. WithStatus("waitlisted")' \subseteq WithStatus("waitlisted")
    BY <1>2 DEF Thins, Removed, WithStatus
  <2>3. PICK w \in Processes : \E r :
             /\ req' = [req EXCEPT ![w] = r]
             /\ r.pc \in Other \cup Carrying \/ RegisterEnter(w) \/ PromoteEnter(w)
    BY <1>1, Mover
  <2>4. \A v \in Processes : v # w => req'[v] = req[v]
    BY <1>1, <2>3 DEF TypeOK
  <2>5. ASSUME NEW v \in Processes, v # w, req'[v].pc = "promote",
               NEW d \in req'[v].seats, NEW e \in WithStatus("waitlisted")' \ req'[v].seats
        PROVE  d < e
    BY <2>2, <2>4, <2>5 DEF LinedUp
  <2>6. ASSUME req'[w].pc = "promote",
               NEW d \in req'[w].seats, NEW e \in WithStatus("waitlisted")' \ req'[w].seats
        PROVE  d < e
    <3>1. PromoteEnter(w)
      <4>1. \A r : req' = [req EXCEPT ![w] = r] => r = req'[w]
        BY <1>1 DEF TypeOK
      <4>2. "promote" \notin Other \cup Carrying
        BY DEF Other, Carrying, Opening
      <4>3. RegisterEnter(w) => req'[w].pc = "create"
        BY <1>1 DEF RegisterEnter, Become, TypeOK, Requests
      <4> QED BY <2>3, <2>6, <4>1, <4>2, <4>3
    <3>2. req'[w].seats = Admitted(req[w].ev.capacity) /\ req[w].ev.capacity \in Nat \cup {None}
      <4>1. req[w].ev.capacity \in Nat \cup {None}
        <5>1. req[w].ev \in SeenEvents
          BY <1>1 DEF Requests
        <5>2. \A x \in Events : x.capacity \in Nat \cup {None}
          BY ConstantsAssumption DEF Events
        <5>3. Idle.ev.capacity = None
          BY DEF Idle
        <5> QED BY <5>1, <5>2, <5>3 DEF SeenEvents
      <4>2. req'[w].seats = Admitted(req[w].ev.capacity)
        BY <1>1, <3>1 DEF PromoteEnter, Become, TypeOK, Requests
      <4> QED BY <4>1, <4>2
    <3>3. PICK c \in Nat \cup {None} : req'[w].seats = Admitted(c)
      BY <3>2
    <3>4. \A i \in Admitted(c), j \in WithStatus("waitlisted") \ Admitted(c) : i < j
      BY <1>1, AdmittedAre
    <3>5. d \in Admitted(c) /\ e \in WithStatus("waitlisted") \ Admitted(c)
      BY <2>2, <2>6, <3>3
    <3> QED BY <3>4, <3>5
  <2> QED BY <2>1, <2>5, <2>6 DEF LinedUp
<1>3. ASSUME NEW v \in Processes, RegisterCreate(v) \/ PromoteCommit(v)
      PROVE  LinedUp'
  <2>1. req[v].pc \in {"create", "promote"} /\ Finish(v)
    BY <1>3 DEF RegisterCreate, PromoteCommit, At
  <2>2. \A u \in Processes : u # v => req'[u] = req[u] /\ req[u].pc # "promote"
    BY <1>1, <2>1 DEF Bookkeeping, InFlight, Holds, Finish, Become, TypeOK
  <2>3. req'[v] = Idle /\ Idle.pc # "promote"
    BY <1>1, <2>1 DEF Finish, Become, TypeOK, Idle
  <2> QED BY <2>2, <2>3 DEF LinedUp
<1>4. ASSUME NEW v \in Processes, RegisterCreate(v), RowsOf(req[v].guest) = {} PROVE InOrder
  <2>1. req[v].reg \in Signups /\ regs[req[v].reg].status = "absent"
    BY <1>1, <1>4 DEF InFlight, RegisterCreate, At
  <2>2. regs' = [regs EXCEPT ![req[v].reg] = [guest |-> req[v].guest, status |-> req[v].to, by |-> "model"]]
    BY <1>4 DEF RegisterCreate
  <2>3. \A d \in Signups : d # req[v].reg => regs'[d] = regs[d]
    BY <1>1, <2>1, <2>2 DEF TypeOK
  <2> QED BY <2>1, <2>3
<1>5. ASSUME NEW v \in Processes, PromoteCommit(v), \A d \in req[v].seats : Ticketable(d) PROVE InOrder
  <2>1. /\ regs' = [d \in Signups |->
                     IF d \in req[v].seats THEN [regs[d] EXCEPT !.status = "approved", !.by = "model"]
                     ELSE regs[d]]
        /\ req[v].pc = "promote"
    BY <1>5 DEF PromoteCommit, At
  <2>2. ASSUME NEW d \in Signups, NEW e \in Signups, regs[d].status = "waitlisted",
               regs'[d].status = "approved", regs[e].status = "waitlisted", regs'[e].status = "waitlisted"
        PROVE  d < e
    <3>1. d \in req[v].seats
      BY <2>1, <2>2
    <3>2. regs[e] \in Rows /\ (e \in req[v].seats => regs'[e].status = "approved")
      BY <1>1, <2>1 DEF Rows
    <3>3. e \in WithStatus("waitlisted") \ req[v].seats
      BY <2>2, <3>2 DEF WithStatus
    <3> QED BY <2>1, <3>1, <3>3 DEF LinedUp
  <2> QED BY <2>2
<1> HIDE DEF InOrder
<1>6. LinedUp' /\ InOrder
  <2>1. CASE Thins
    BY <1>2, <2>1 DEF InOrder
  <2>2. CASE \E w \in Processes : RegisterCreate(w) /\ RowsOf(req[w].guest) = {}
    BY <1>3, <1>4, <2>2
  <2>3. CASE \E w \in Processes : PromoteCommit(w) /\ \A d \in req[w].seats : Ticketable(d)
    BY <1>3, <1>5, <2>3
  <2> QED BY <1>1, <2>1, <2>2, <2>3, RowSteps
<1> QED BY <1>6 DEF InOrder

\* Nobody who waits is passed over by a promotion, for any number of guests,
\* requests and changes of the capacity.
THEOREM PromotionsInOrder == Spec => PromotedInOrder
<1> DEFINE Passes ==
             \A d, e \in Signups :
                (/\ regs[d].status = "waitlisted"
                 /\ regs'[d].status = "approved" /\ regs'[d].by = "model"
                 /\ regs[e].status = "waitlisted" /\ regs'[e].status = "waitlisted")
                => d < e
<1>1. Init => LinedUp
  BY DEF Init, LinedUp, Idle
<1>2. Inv /\ LinedUp /\ [Next]_vars /\ Inv' => LinedUp' /\ [Passes]_vars
  <2> SUFFICES ASSUME Inv, LinedUp, [Next]_vars, Inv' PROVE LinedUp' /\ [Passes]_vars
    OBVIOUS
  <2>1. CASE UNCHANGED vars
    BY <2>1 DEF vars, LinedUp, WithStatus
  <2>2. CASE Next
    BY <2>2, LineKept
  <2> QED BY <2>1, <2>2
<1>3. Init => Inv
  BY InitHolds
<1>4. Inv /\ [Next]_vars => Inv'
  BY StepKeeps
<1>5. Spec => [][Passes]_vars
  <2> HIDE DEF Passes
  <2> QED BY <1>1, <1>2, <1>3, <1>4, PTL DEF Spec
<1> QED BY <1>5 DEF PromotedInOrder

-----------------------------------------------------------------------------
\* Nobody whom a request is about to promote has been removed.
StillWaiting ==
    \A w \in Processes : req[w].pc = "promote" =>
        \A d \in req[w].seats : regs[d].status \notin Removed

\* Only the commit of a decline or a cancellation removes a signup, and it holds
\* the lock.
LEMMA RemovalsLock ==
    ASSUME TypeOK, Bookkeeping, Next,
           NEW d \in Signups, regs[d].status \notin Removed, regs'[d].status \in Removed
    PROVE  \E v \in Processes : req[v].pc = "remove" /\ lock = v /\ req'[v].pc # "promote"
<1>1. \A w \in Processes : InFlight(w) /\ req[w] \in Requests
  BY DEF Bookkeeping, TypeOK
<1>2. regs[d] \in Rows
  BY DEF TypeOK
<1>3. ASSUME NEW w \in Processes, RegisterWipe(w) PROVE FALSE
  <2>1. req[w].reg \in Signups
    BY <1>1, <1>3 DEF RegisterWipe, At, InFlight
  <2>2. regs'[d] = regs[d] \/ regs'[d] = NoRow
    BY <1>3, <2>1 DEF RegisterWipe, TypeOK
  <2> QED BY <2>2 DEF NoRow, Removed
<1>4. ASSUME NEW w \in Processes, RegisterCreate(w) PROVE FALSE
  <2>1. req[w].reg \in Signups /\ req[w].to \in Deciding \cup {"approved"}
    BY <1>1, <1>4 DEF RegisterCreate, At, InFlight
  <2>2. regs'[d] = regs[d] \/ regs'[d].status = req[w].to
    BY <1>4, <2>1 DEF RegisterCreate, TypeOK
  <2> QED BY <2>1, <2>2 DEF Deciding, Removed
<1>5. ASSUME NEW w \in Processes, ApproveCommit(w) PROVE FALSE
  <2>1. req[w].reg \in Signups
    BY <1>1, <1>5 DEF ApproveCommit, At, InFlight
  <2>2. regs'[d] = regs[d] \/ regs'[d].status = "approved"
    BY <1>2, <1>5, <2>1 DEF ApproveCommit, TypeOK, Rows
  <2> QED BY <2>2 DEF Removed
<1>6. ASSUME NEW w \in Processes, PromoteCommit(w) PROVE FALSE
  <2>1. regs'[d] = regs[d] \/ regs'[d].status = "approved"
    BY <1>2, <1>6 DEF PromoteCommit, Rows
  <2> QED BY <2>1 DEF Removed
<1>7. ASSUME NEW w \in Processes, Requeue(w) PROVE FALSE
  <2>1. regs'[d] = regs[d] \/ regs'[d].status = "pending"
    BY <1>2, <1>7 DEF Requeue, Rows
  <2> QED BY <2>1 DEF Removed
<1>8. ASSUME NEW w \in Processes, RemoveCommit(w)
      PROVE  req[w].pc = "remove" /\ lock = w /\ req'[w].pc # "promote"
  <2>1. req[w].pc = "remove" /\ lock = w
    BY <1>1, <1>8 DEF RemoveCommit, At, InFlight, Holds
  <2>2. req'[w] = Idle \/ req'[w] = [Idle EXCEPT !.pc = "vacancy"]
    BY <1>8 DEF RemoveCommit, Become, Finish, TypeOK
  <2> QED BY <2>1, <2>2 DEF Idle
<1>9. regs' # regs
  OBVIOUS
<1>10. \E w \in Processes : \/ RegisterWipe(w) \/ RegisterCreate(w) \/ ApproveCommit(w)
                            \/ RemoveCommit(w) \/ PromoteCommit(w) \/ Requeue(w)
  BY <1>9 DEF Next, Arrive, Proceed, Enter, RegisterRead, ApproveRead, RemoveRead, PatchRead,
         SweepStart, RegisterLookup, RegisterUnlink, RegisterBegin, RegisterEnter, ApproveEnter,
         RemoveEnter, PromoteRead, PromoteEnter, PatchWrite, Abort, db
<1> QED BY <1>3, <1>4, <1>5, <1>6, <1>7, <1>8, <1>10

\* The removal of somebody in line waits for the promotion to commit.
LEMMA WaitingKept ==
    ASSUME Inv, StillWaiting, Next, Inv'
    PROVE  StillWaiting'
<1>1. /\ TypeOK /\ TypeOK' /\ Bookkeeping /\ Bookkeeping'
      /\ \A w \in Processes : InFlight(w) /\ InFlight(w)' /\ req[w] \in Requests /\ req'[w] \in Requests
  BY DEF Inv, TypeOK, Bookkeeping
<1> SUFFICES ASSUME NEW w \in Processes, req'[w].pc = "promote", NEW d \in req'[w].seats,
                    regs'[d].status \in Removed
             PROVE  FALSE
  BY DEF StillWaiting
<1>2. d \in Signups
  BY <1>1 DEF Requests
<1>3. PICK v \in Processes : \E r :
           /\ req' = [req EXCEPT ![v] = r]
           /\ r.pc \in Other \cup Carrying \/ RegisterEnter(v) \/ PromoteEnter(v)
  BY <1>1, Mover
<1>4. CASE PromoteEnter(w)
  <2>1. req[w].ev.capacity \in Nat \cup {None}
    <3>1. req[w].ev \in SeenEvents
      BY <1>1 DEF Requests
    <3>2. \A x \in Events : x.capacity \in Nat \cup {None}
      BY ConstantsAssumption DEF Events
    <3>3. Idle.ev.capacity = None
      BY DEF Idle
    <3> QED BY <3>1, <3>2, <3>3 DEF SeenEvents
  <2>2. req'[w].seats = Admitted(req[w].ev.capacity) /\ regs' = regs
    BY <1>1, <1>4 DEF PromoteEnter, Become, TypeOK, Requests, db
  <2>3. PICK c \in Nat \cup {None} : req'[w].seats = Admitted(c)
    BY <2>1, <2>2
  <2>4. d \in WithStatus("waitlisted")
    BY <1>1, <2>3, AdmittedAre
  <2> QED BY <2>2, <2>4 DEF WithStatus, Removed
<1>5. CASE req'[w] = req[w]
  <2>1. regs[d].status \notin Removed /\ lock = w
    BY <1>1, <1>5 DEF StillWaiting, InFlight, Holds
  <2>2. PICK u \in Processes : req[u].pc = "remove" /\ lock = u
    BY <1>1, <1>2, <2>1, RemovalsLock
  <2> QED BY <1>5, <2>1, <2>2
<1>6. CASE v = w /\ ~ PromoteEnter(w)
  <2>1. \A r : req' = [req EXCEPT ![w] = r] => r = req'[w]
    BY <1>1 DEF TypeOK
  <2>2. "promote" \notin Other \cup Carrying
    BY DEF Other, Carrying, Opening
  <2>3. RegisterEnter(w) => req'[w].pc = "create"
    BY <1>1 DEF RegisterEnter, Become, TypeOK, Requests
  <2> QED BY <1>3, <1>6, <2>1, <2>2, <2>3
<1>7. v # w => req'[w] = req[w]
  BY <1>1, <1>3 DEF TypeOK
<1> QED BY <1>4, <1>5, <1>6, <1>7

\* For any number of guests and requests: no signup that was declined or
\* cancelled is given a seat by the waitlist or by another signup.
THEOREM RemovedAreNotPromoted == Spec => RemovedNotPromoted
<1> DEFINE Refuses ==
             \A d \in Signups : regs[d].status \in Removed /\ regs'[d].status = "approved"
                => regs'[d].by = "organizer"
<1>1. Init => StillWaiting
  BY DEF Init, StillWaiting, Idle
<1>2. Inv /\ StillWaiting /\ [Next]_vars /\ Inv' => StillWaiting' /\ [Refuses]_vars
  <2> SUFFICES ASSUME Inv, StillWaiting, [Next]_vars, Inv' PROVE StillWaiting' /\ [Refuses]_vars
    OBVIOUS
  <2>1. CASE UNCHANGED vars
    BY <2>1 DEF vars, StillWaiting
  <2>2. CASE Next
    <3>1. TypeOK /\ Bookkeeping /\ \A w \in Processes : InFlight(w) /\ req[w] \in Requests
      BY DEF Inv, Bookkeeping, TypeOK
    <3>2. ASSUME Thins PROVE Refuses
      BY <3>2 DEF Thins, Removed
    <3>3. ASSUME NEW w \in Processes, RegisterCreate(w), RowsOf(req[w].guest) = {} PROVE Refuses
      <4>1. req[w].reg \in Signups /\ regs[req[w].reg].status = "absent"
        BY <3>1, <3>3 DEF RegisterCreate, At, InFlight
      <4>2. \A d \in Signups : d # req[w].reg => regs'[d] = regs[d]
        BY <3>1, <3>3, <4>1 DEF RegisterCreate, TypeOK
      <4> QED BY <4>1, <4>2 DEF Removed
    <3>4. ASSUME NEW w \in Processes, PromoteCommit(w), \A d \in req[w].seats : Ticketable(d)
          PROVE  Refuses
      <4>1. \A d \in req[w].seats : regs[d].status \notin Removed
        BY <3>4 DEF PromoteCommit, At, StillWaiting
      <4>2. \A d \in Signups : d \notin req[w].seats => regs'[d] = regs[d]
        BY <3>4 DEF PromoteCommit
      <4> QED BY <4>1, <4>2 DEF Removed
    <3>5. Refuses
      BY <2>2, <3>1, <3>2, <3>3, <3>4, RowSteps
    <3> QED BY <2>2, <3>5, WaitingKept
  <2> QED BY <2>1, <2>2
<1>3. Init => Inv
  BY InitHolds
<1>4. Inv /\ [Next]_vars => Inv'
  BY StepKeeps
<1>5. Spec => [][Refuses]_vars
  <2> HIDE DEF Refuses
  <2> QED BY <1>1, <1>2, <1>3, <1>4, PTL DEF Spec
<1> QED BY <1>5 DEF RemovedNotPromoted

\* Promotions take the oldest of those who still wait.
THEOREM WaitlistIsServed == Spec => WaitlistServed
BY PromotionsInOrder, RemovedAreNotPromoted DEF WaitlistServed

-----------------------------------------------------------------------------
\* A request that clears an earlier signup clears one of its own guest, which
\* no new signup can take the place of.
Clearing ==
    \A w \in Processes : req[w].pc \in {"unlink", "wipe"} =>
        /\ req[w].reg <= clock
        /\ regs[req[w].reg].status # "absent" => regs[req[w].reg].guest = req[w].guest
        /\ \A v \in Processes : req[v].pc \in {"enter", "create"} => req[v].reg # req[w].reg

\* How a request comes to clear a signup, and how one comes by a stamp.
LEMMA Openers ==
    ASSUME Inv, Next
    PROVE  \E w \in Processes :
             /\ \A v \in Processes : v # w => req'[v] = req[v]
             /\ \/ req'[w].pc \notin {"unlink", "wipe", "enter", "create"}
                \/ /\ req'[w].pc \in {"unlink", "wipe"} /\ UNCHANGED <<regs, clock>>
                   /\ \/ /\ req'[w].reg \in RowsOf(req'[w].guest)
                      \/ /\ req[w].pc \in {"unlink", "wipe"}
                         /\ req'[w].reg = req[w].reg /\ req'[w].guest = req[w].guest
                \/ /\ req'[w].pc \in {"enter", "create"} /\ UNCHANGED regs
                   /\ \/ req'[w].reg = clock + 1
                      \/ req[w].pc = "enter" /\ req'[w].reg = req[w].reg
<1>1. /\ TypeOK /\ Scheduler \in Processes /\ Workers \subseteq Processes
      /\ \A w \in Processes : req[w] \in Requests
  BY DEF Inv, TypeOK, Processes
<1> DEFINE Opens(w) ==
             /\ \A v \in Processes : v # w => req'[v] = req[v]
             /\ \/ req'[w].pc \notin {"unlink", "wipe", "enter", "create"}
                \/ /\ req'[w].pc \in {"unlink", "wipe"} /\ UNCHANGED <<regs, clock>>
                   /\ \/ /\ req'[w].reg \in RowsOf(req'[w].guest)
                      \/ /\ req[w].pc \in {"unlink", "wipe"}
                         /\ req'[w].reg = req[w].reg /\ req'[w].guest = req[w].guest
                \/ /\ req'[w].pc \in {"enter", "create"} /\ UNCHANGED regs
                   /\ \/ req'[w].reg = clock + 1
                      \/ req[w].pc = "enter" /\ req'[w].reg = req[w].reg
<1>2. ASSUME NEW w \in Processes, NEW r, Become(w, r)
      PROVE  req'[w] = r /\ \A v \in Processes : v # w => req'[v] = req[v]
  BY <1>1, <1>2 DEF Become, TypeOK
<1>3. ASSUME NEW w \in Processes, NEW r, Become(w, r), r.pc \notin {"unlink", "wipe", "enter", "create"}
      PROVE  Opens(w)
  BY <1>2, <1>3
<1>4. Idle.pc = "idle" /\ \A w \in Processes : Finish(w) => Opens(w)
  BY <1>3 DEF Finish, Idle
<1>5. ASSUME NEW w \in Processes, RegisterLookup(w) PROVE Opens(w)
  <2>1. CASE Finish(w)
    BY <1>4, <2>1
  <2>2. CASE Become(w, [req[w] EXCEPT !.pc = "begin"])
    <3>1. [req[w] EXCEPT !.pc = "begin"].pc = "begin"
      BY <1>1 DEF Requests
    <3>2. PICK r : Become(w, r) /\ r.pc = "begin"
      BY <2>2, <3>1
    <3> HIDE DEF Opens
    <3> QED BY <1>3, <3>2
  <2>3. CASE \E d \in RowsOf(req[w].guest) : Become(w, [req[w] EXCEPT !.pc = "unlink", !.reg = d])
    <3>1. PICK d \in RowsOf(req[w].guest) : Become(w, [req[w] EXCEPT !.pc = "unlink", !.reg = d])
      BY <2>3
    <3>2. /\ [req[w] EXCEPT !.pc = "unlink", !.reg = d].pc = "unlink"
          /\ [req[w] EXCEPT !.pc = "unlink", !.reg = d].reg = d
          /\ [req[w] EXCEPT !.pc = "unlink", !.reg = d].guest = req[w].guest
      BY <1>1 DEF Requests
    <3>3. PICK r : Become(w, r) /\ r.pc = "unlink" /\ r.reg = d /\ r.guest = req[w].guest
      BY <3>1, <3>2
    <3>4. UNCHANGED <<regs, clock>> /\ req'[w] = r /\ \A v \in Processes : v # w => req'[v] = req[v]
      BY <1>2, <1>5, <3>3 DEF RegisterLookup, db
    <3> QED BY <3>3, <3>4
  <2> HIDE DEF Opens
  <2> QED BY <1>5, <2>1, <2>2, <2>3 DEF RegisterLookup
<1>6. ASSUME NEW w \in Processes, RegisterUnlink(w) PROVE Opens(w)
  <2>1. /\ [req[w] EXCEPT !.pc = "wipe"].pc = "wipe"
        /\ [req[w] EXCEPT !.pc = "wipe"].reg = req[w].reg
        /\ [req[w] EXCEPT !.pc = "wipe"].guest = req[w].guest
    BY <1>1 DEF Requests
  <2>2. PICK r : Become(w, r) /\ r.pc = "wipe" /\ r.reg = req[w].reg /\ r.guest = req[w].guest
    BY <1>6, <2>1 DEF RegisterUnlink
  <2>3. UNCHANGED <<regs, clock>> /\ req[w].pc = "unlink"
    BY <1>6 DEF RegisterUnlink, At
  <2> QED BY <1>2, <2>2, <2>3
<1>7. ASSUME NEW w \in Processes, RegisterWipe(w) PROVE Opens(w)
  <2>1. [req[w] EXCEPT !.pc = "begin"].pc = "begin"
    BY <1>1 DEF Requests
  <2>2. Finish(w) \/ \E r : Become(w, r) /\ r.pc = "begin"
    BY <1>7, <2>1 DEF RegisterWipe
  <2> HIDE DEF Opens
  <2> QED BY <1>3, <1>4, <2>2
<1>8. ASSUME NEW w \in Processes, RegisterBegin(w) PROVE Opens(w)
  <2>1. /\ [req[w] EXCEPT !.pc = "enter", !.reg = clock + 1].pc = "enter"
        /\ [req[w] EXCEPT !.pc = "enter", !.reg = clock + 1].reg = clock + 1
    BY <1>1 DEF Requests
  <2>2. PICK r : Become(w, r) /\ r.pc = "enter" /\ r.reg = clock + 1
    BY <1>8, <2>1 DEF RegisterBegin
  <2>3. UNCHANGED regs
    BY <1>8 DEF RegisterBegin
  <2> QED BY <1>2, <2>2, <2>3
<1>9. ASSUME NEW w \in Processes, RegisterEnter(w) PROVE Opens(w)
  <2> DEFINE x == [req[w] EXCEPT !.pc = "create", !.to = Outcome(req[w].ev),
                                 !.last = LastNumber(tickets), !.ev = Idle.ev]
  <2>1. Become(w, x) /\ x.pc = "create" /\ x.reg = req[w].reg
    BY <1>1, <1>9 DEF Requests, RegisterEnter
  <2>2. PICK r : Become(w, r) /\ r.pc = "create" /\ r.reg = req[w].reg
    <3> HIDE DEF x
    <3> QED BY <2>1
  <2>3. UNCHANGED regs /\ req[w].pc = "enter"
    BY <1>9 DEF RegisterEnter, At, db
  <2> QED BY <1>2, <2>2, <2>3
<1>10. ASSUME NEW w \in Processes,
              \/ \E g \in Guests : RegisterRead(w, g)
              \/ \E d \in Signups : ApproveRead(w, d)
              \/ \E d \in Signups, to \in Removed : RemoveRead(w, d, to)
              \/ \E p \in Patches : PatchRead(w, p)
              \/ w = Scheduler /\ SweepStart
              \/ RemoveCommit(w) \/ PatchWrite(w)
              \/ RegisterCreate(w) \/ ApproveCommit(w) \/ Requeue(w) \/ PromoteCommit(w) \/ Abort(w)
       PROVE  Opens(w)
  <2> DEFINE Quiet == \E r : Become(w, r) /\ r.pc \notin {"unlink", "wipe", "enter", "create"}
  <2>1. ASSUME NEW g \in Guests, RegisterRead(w, g) PROVE Quiet
    <3>1. [Idle EXCEPT !.pc = "lookup", !.guest = g, !.ev = event].pc = "lookup"
      BY DEF Idle
    <3> QED BY <2>1, <3>1 DEF RegisterRead
  <2>2. ASSUME NEW d \in Signups, ApproveRead(w, d) PROVE Quiet
    <3>1. [Idle EXCEPT !.pc = "approving", !.reg = d].pc = "approving"
      BY DEF Idle
    <3> QED BY <2>2, <3>1 DEF ApproveRead
  <2>3. ASSUME NEW d \in Signups, NEW to \in Removed, RemoveRead(w, d, to) PROVE Quiet
    <3>1. [Idle EXCEPT !.pc = "removing", !.reg = d, !.to = to].pc = "removing"
      BY DEF Idle
    <3> QED BY <2>3, <3>1 DEF RemoveRead
  <2>4. ASSUME NEW p \in Patches, PatchRead(w, p) PROVE Quiet
    <3>1. [Idle EXCEPT !.pc = "patch", !.patch = p,
                       !.ev = [Idle.ev EXCEPT !.model = event.model]].pc = "patch"
      BY DEF Idle
    <3> QED BY <2>4, <3>1 DEF PatchRead
  <2>5. /\ [Idle EXCEPT !.pc = "vacancy"].pc = "vacancy"
        /\ [Idle EXCEPT !.pc = "requeue"].pc = "requeue"
    BY DEF Idle
  <2>6. Finish(w) \/ Become(w, [Idle EXCEPT !.pc = "vacancy"]) \/ Become(w, [Idle EXCEPT !.pc = "requeue"])
          => Quiet
    BY <1>4, <2>5 DEF Finish
  <2>7. ASSUME w = Scheduler, SweepStart PROVE Quiet
    BY <2>6, <2>7 DEF SweepStart
  <2>8. ASSUME RemoveCommit(w) PROVE Quiet
    BY <2>6, <2>8 DEF RemoveCommit
  <2>9. ASSUME PatchWrite(w) PROVE Quiet
    BY <2>6, <2>9 DEF PatchWrite
  <2>10. ASSUME RegisterCreate(w) \/ ApproveCommit(w) \/ Requeue(w) \/ PromoteCommit(w) \/ Abort(w)
         PROVE  Quiet
    BY <2>6, <2>10 DEF RegisterCreate, ApproveCommit, Requeue, PromoteCommit, Abort
  <2>11. Quiet
    <3> HIDE DEF Quiet
    <3> QED BY <1>10, <2>1, <2>2, <2>3, <2>4, <2>7, <2>8, <2>9, <2>10
  <2> HIDE DEF Opens
  <2> QED BY <1>3, <2>11
<1>11. ASSUME NEW w \in Processes, PromoteRead(w) \/ ApproveEnter(w) \/ RemoveEnter(w) \/ PromoteEnter(w)
       PROVE  Opens(w)
  <2>1. /\ [req[w] EXCEPT !.pc = "lineup", !.ev = event].pc = "lineup"
        /\ [req[w] EXCEPT !.pc = "approve", !.last = LastNumber(tickets)].pc = "approve"
        /\ [req[w] EXCEPT !.pc = "remove",
                           !.was = regs[req[w].reg].status = "approved"].pc = "remove"
        /\ [req[w] EXCEPT !.pc = "promote", !.seats = Admitted(req[w].ev.capacity),
                           !.last = LastNumber(tickets)].pc = "promote"
    BY <1>1 DEF Requests
  <2>2. \E r : Become(w, r) /\ r.pc \in {"lineup", "approve", "remove", "promote"}
    <3>1. CASE PromoteRead(w)
      BY <2>1, <3>1 DEF PromoteRead
    <3>2. CASE ApproveEnter(w)
      BY <2>1, <3>2 DEF ApproveEnter
    <3>3. CASE RemoveEnter(w)
      BY <2>1, <3>3 DEF RemoveEnter
    <3>4. CASE PromoteEnter(w)
      BY <2>1, <3>4 DEF PromoteEnter
    <3> QED BY <1>11, <3>1, <3>2, <3>3, <3>4
  <2> HIDE DEF Opens
  <2> QED BY <1>3, <2>2
<1>12. \E w \in Processes : Opens(w)
  <2> HIDE DEF Opens
  <2> QED BY <1>1, <1>5, <1>6, <1>7, <1>8, <1>9, <1>10, <1>11 DEF Next, Arrive, Proceed, Enter
<1> QED BY <1>12

LEMMA ClockRuns ==
    ASSUME TypeOK, Next
    PROVE  clock \in Nat /\ clock' \in Nat /\ clock <= clock'
<1>1. clock \in Nat
  BY ConstantsAssumption DEF TypeOK
<1>2. clock' = clock \/ clock' = clock + 1
  <2>1. ASSUME NEW w \in Processes, Arrive(w) \/ SweepStart PROVE clock' = clock
    BY <2>1 DEF Arrive, RegisterRead, ApproveRead, RemoveRead, PatchRead, SweepStart, db
  <2>2. ASSUME NEW w \in Processes, Enter(w) \/ Abort(w) PROVE clock' = clock
    BY <2>2 DEF Enter, RegisterEnter, ApproveEnter, RemoveEnter, PromoteEnter, Abort, db
  <2>3. ASSUME NEW w \in Processes, Proceed(w) PROVE clock' = clock \/ clock' = clock + 1
    <3>1. CASE RegisterLookup(w) \/ RegisterUnlink(w) \/ RegisterWipe(w) \/ RegisterBegin(w)
      BY <3>1 DEF RegisterLookup, RegisterUnlink, RegisterWipe, RegisterBegin, db
    <3>2. CASE RegisterCreate(w) \/ ApproveCommit(w) \/ RemoveCommit(w)
      BY <3>2 DEF RegisterCreate, ApproveCommit, RemoveCommit
    <3>3. CASE PromoteRead(w) \/ PromoteCommit(w) \/ PatchWrite(w) \/ Requeue(w)
      BY <3>3 DEF PromoteRead, PromoteCommit, PatchWrite, Requeue, db
    <3> QED BY <2>3, <3>1, <3>2, <3>3 DEF Proceed
  <2>4. Workers \subseteq Processes /\ Scheduler \in Processes
    BY DEF Processes
  <2> QED BY <2>1, <2>2, <2>3, <2>4 DEF Next
<1> QED BY <1>1, <1>2

\* What becomes of the signup a request clears, when some request moves.
LEMMA ClearedRow ==
    ASSUME Inv, Clearing, Next,
           NEW u \in Processes, req[u].pc \in {"unlink", "wipe"}, regs'[req[u].reg].status # "absent"
    PROVE  regs'[req[u].reg].guest = req[u].guest
<1>1. /\ TypeOK /\ Bookkeeping /\ req[u].reg \in Signups /\ regs[req[u].reg] \in Rows
  BY DEF Inv, TypeOK, Bookkeeping, InFlight
<1>2. regs[req[u].reg].status # "absent" => regs[req[u].reg].guest = req[u].guest
  BY DEF Clearing
<1>3. CASE Thins
  BY <1>1, <1>2, <1>3 DEF Thins
<1>4. CASE \E v \in Processes : RegisterCreate(v) /\ RowsOf(req[v].guest) = {}
  <2>1. PICK v \in Processes : RegisterCreate(v) /\ RowsOf(req[v].guest) = {}
    BY <1>4
  <2>2. req[v].pc = "create" /\ req[v].reg # req[u].reg
    BY <2>1 DEF RegisterCreate, At, Clearing
  <2>3. regs' = [regs EXCEPT ![req[v].reg] = [guest |-> req[v].guest, status |-> req[v].to, by |-> "model"]]
    BY <2>1 DEF RegisterCreate
  <2> QED BY <1>1, <1>2, <2>2, <2>3 DEF TypeOK
<1>5. CASE \E v \in Processes : PromoteCommit(v) /\ \A d \in req[v].seats : Ticketable(d)
  <2>1. PICK v \in Processes : PromoteCommit(v) /\ \A d \in req[v].seats : Ticketable(d)
    BY <1>5
  <2>2. regs' = [d \in Signups |->
                   IF d \in req[v].seats THEN [regs[d] EXCEPT !.status = "approved", !.by = "model"]
                   ELSE regs[d]]
    BY <2>1 DEF PromoteCommit
  <2>3. regs'[req[u].reg].guest = regs[req[u].reg].guest
    BY <1>1, <2>2 DEF Rows
  <2>4. regs[req[u].reg].status # "absent"
    BY <1>1, <2>1, <2>2 DEF Ticketable
  <2> QED BY <1>2, <2>3, <2>4
<1> QED BY <1>1, <1>3, <1>4, <1>5, RowSteps

LEMMA ClearingKept ==
    ASSUME Inv, Clearing, Next, Inv'
    PROVE  Clearing'
<1>1. /\ Bookkeeping /\ \A v \in Processes : InFlight(v)
      /\ clock \in Nat /\ clock' \in Nat /\ clock <= clock'
      /\ \A v \in Processes : req[v].pc \in {"unlink", "wipe"} => req[v].reg \in Nat
  <2>1. Signups \subseteq Nat
    BY ConstantsAssumption DEF Signups
  <2>2. TypeOK /\ Bookkeeping /\ \A v \in Processes : InFlight(v)
    BY DEF Inv, Bookkeeping
  <2> QED BY <2>1, <2>2, ClockRuns DEF InFlight
<1>2. PICK w \in Processes :
             /\ \A v \in Processes : v # w => req'[v] = req[v]
             /\ \/ req'[w].pc \notin {"unlink", "wipe", "enter", "create"}
                \/ /\ req'[w].pc \in {"unlink", "wipe"} /\ UNCHANGED <<regs, clock>>
                   /\ \/ /\ req'[w].reg \in RowsOf(req'[w].guest)
                      \/ /\ req[w].pc \in {"unlink", "wipe"}
                         /\ req'[w].reg = req[w].reg /\ req'[w].guest = req[w].guest
                \/ /\ req'[w].pc \in {"enter", "create"} /\ UNCHANGED regs
                   /\ \/ req'[w].reg = clock + 1
                      \/ req[w].pc = "enter" /\ req'[w].reg = req[w].reg
  BY Openers
<1>3. ASSUME req'[w].pc \in {"unlink", "wipe"}
      PROVE  /\ req'[w].reg <= clock'
             /\ regs'[req'[w].reg].status # "absent" => regs'[req'[w].reg].guest = req'[w].guest
             /\ \A v \in Processes : req'[v].pc \in {"enter", "create"} => req'[v].reg # req'[w].reg
  <2>1. /\ UNCHANGED <<regs, clock>>
        /\ \A v \in Processes : req'[v].pc \in {"enter", "create"} => v # w /\ req'[v] = req[v]
    BY <1>2, <1>3
  <2>2. CASE req'[w].reg \in RowsOf(req'[w].guest)
    <3>1. PICK d \in Signups : /\ d = req'[w].reg
                               /\ regs[d].status # "absent" /\ regs[d].guest = req'[w].guest
      BY <2>2 DEF RowsOf
    <3>2. d <= clock
      BY <1>1, <3>1 DEF Bookkeeping
    <3>3. \A v \in Processes : req[v].pc \in {"enter", "create"} => req[v].reg # d
      BY <1>1, <3>1 DEF InFlight
    <3> QED BY <2>1, <3>1, <3>2, <3>3
  <2>3. CASE /\ req[w].pc \in {"unlink", "wipe"}
             /\ req'[w].reg = req[w].reg /\ req'[w].guest = req[w].guest
    BY <2>1, <2>3 DEF Clearing
  <2> QED BY <1>2, <1>3, <2>2, <2>3
<1>4. ASSUME NEW u \in Processes, u # w, req'[u].pc \in {"unlink", "wipe"}
      PROVE  /\ req'[u].reg <= clock'
             /\ regs'[req'[u].reg].status # "absent" => regs'[req'[u].reg].guest = req'[u].guest
             /\ \A v \in Processes : req'[v].pc \in {"enter", "create"} => req'[v].reg # req'[u].reg
  <2>1. req'[u] = req[u] /\ req[u].pc \in {"unlink", "wipe"}
    BY <1>2, <1>4
  <2>2. /\ req[u].reg <= clock /\ req[u].reg \in Nat
        /\ \A v \in Processes : req[v].pc \in {"enter", "create"} => req[v].reg # req[u].reg
    BY <1>1, <2>1 DEF Clearing
  <2>3. req[u].reg <= clock' /\ clock + 1 # req[u].reg
    BY <1>1, <2>2
  <2>4. regs'[req[u].reg].status # "absent" => regs'[req[u].reg].guest = req[u].guest
    BY <2>1, ClearedRow
  <2>5. \A v \in Processes : req'[v].pc \in {"enter", "create"} => req'[v].reg # req[u].reg
    BY <1>2, <2>2, <2>3
  <2> QED BY <2>1, <2>3, <2>4, <2>5
<1> QED BY <1>3, <1>4 DEF Clearing

\* The ways in which a request that clears an earlier signup ends.
LEMMA Endings ==
    ASSUME Inv, Next, NEW w \in Workers,
           req[w].pc \in {"wipe", "begin", "enter", "create"}, req'[w].pc = "idle", aborts' = aborts
    PROVE  RegisterWipe(w) \/ RegisterCreate(w)
<1>1. TypeOK /\ w \in Processes /\ Workers \subseteq Processes /\ Scheduler \in Processes
  BY DEF Inv, Processes
<1>2. \A v, r : Become(v, r) => v = w
  BY <1>1 DEF Become, TypeOK
<1>3. ASSUME NEW v \in Processes, Arrive(v) \/ (v = Scheduler /\ SweepStart) PROVE FALSE
  <2>1. At(v, "idle") /\ \E r : Become(v, r)
    BY <1>3 DEF Arrive, RegisterRead, ApproveRead, RemoveRead, PatchRead, SweepStart
  <2> QED BY <1>2, <2>1 DEF At
<1>4. ASSUME NEW v \in Processes, Abort(v) PROVE FALSE
  BY <1>1, <1>4 DEF Abort, TypeOK
<1>5. ASSUME NEW v \in Processes,
             \/ RegisterLookup(v) \/ RegisterUnlink(v)
             \/ ApproveCommit(v) \/ RemoveCommit(v) \/ PromoteRead(v)
             \/ PromoteCommit(v) \/ PatchWrite(v) \/ Requeue(v)
             \/ ApproveEnter(v) \/ RemoveEnter(v) \/ PromoteEnter(v)
      PROVE  FALSE
  <2>1. req[v].pc \notin {"wipe", "begin", "enter", "create"}
    BY <1>5 DEF RegisterLookup, RegisterUnlink, ApproveCommit, RemoveCommit, PromoteRead,
                PromoteCommit, PatchWrite, Requeue, ApproveEnter, RemoveEnter, PromoteEnter, At
  <2>2. CASE RegisterLookup(v) \/ RegisterUnlink(v) \/ ApproveCommit(v) \/ RemoveCommit(v)
    BY <1>2, <2>1, <2>2 DEF RegisterLookup, RegisterUnlink, ApproveCommit, RemoveCommit, Finish
  <2>3. CASE PromoteRead(v) \/ PromoteCommit(v) \/ PatchWrite(v) \/ Requeue(v)
    BY <1>2, <2>1, <2>3 DEF PromoteRead, PromoteCommit, PatchWrite, Requeue, Finish
  <2>4. CASE ApproveEnter(v) \/ RemoveEnter(v) \/ PromoteEnter(v)
    BY <1>2, <2>1, <2>4 DEF ApproveEnter, RemoveEnter, PromoteEnter
  <2> QED BY <1>5, <2>2, <2>3, <2>4
<1>6. ASSUME NEW v \in Processes, RegisterBegin(v) PROVE FALSE
  <2> DEFINE x == [req[v] EXCEPT !.pc = "enter", !.reg = clock + 1]
  <2>1. Become(v, x) /\ x.pc = "enter"
    BY <1>1, <1>6 DEF RegisterBegin, TypeOK, Requests
  <2> HIDE DEF x
  <2>2. v = w
    BY <1>2, <2>1
  <2> QED BY <1>1, <2>1, <2>2 DEF Become, TypeOK
<1>7. ASSUME NEW v \in Processes, RegisterEnter(v) PROVE FALSE
  <2> DEFINE x == [req[v] EXCEPT !.pc = "create", !.to = Outcome(req[v].ev),
                                 !.last = LastNumber(tickets), !.ev = Idle.ev]
  <2>1. Become(v, x) /\ x.pc = "create"
    BY <1>1, <1>7 DEF RegisterEnter, TypeOK, Requests
  <2> HIDE DEF x
  <2>2. v = w
    BY <1>2, <2>1
  <2> QED BY <1>1, <2>1, <2>2 DEF Become, TypeOK
<1>8. ASSUME NEW v \in Processes, RegisterWipe(v) \/ RegisterCreate(v) PROVE v = w
  BY <1>2, <1>8 DEF RegisterWipe, RegisterCreate, Finish
<1> QED BY <1>1, <1>3, <1>4, <1>5, <1>6, <1>7, <1>8 DEF Next, Arrive, Proceed, Enter

\* Signing up again never just destroys the earlier signup, for any number of
\* guests, requests and crashes.
THEOREM SignupsSurvive == Spec => SignupNotLost
<1> DEFINE Survives ==
             \A w \in Workers :
               req[w].pc \in {"wipe", "begin", "enter", "create"} /\ req'[w].pc = "idle" /\ aborts' = aborts
                 => \E d \in Signups : regs'[d].status # "absent" /\ regs'[d].guest = req[w].guest
<1>1. Init => Clearing
  BY DEF Init, Clearing, Idle
<1>2. Inv /\ Clearing /\ [Next]_vars /\ Inv' => Clearing' /\ [Survives]_vars
  <2> SUFFICES ASSUME Inv, Clearing, [Next]_vars, Inv' PROVE Clearing' /\ [Survives]_vars
    OBVIOUS
  <2>1. CASE UNCHANGED vars
    BY <2>1 DEF vars, Clearing
  <2>2. CASE Next
    <3>1. TypeOK /\ Bookkeeping /\ \A w \in Workers : w \in Processes
      BY DEF Inv, Processes
    <3>2. ASSUME NEW w \in Workers, RegisterWipe(w), req'[w].pc = "idle"
          PROVE  \E d \in Signups : regs'[d].status # "absent" /\ regs'[d].guest = req[w].guest
      <4>1. req[w].pc = "wipe" /\ req[w].reg \in Signups /\ req[w].reg # 0
        BY <3>1, <3>2, ConstantsAssumption DEF RegisterWipe, At, Bookkeeping, InFlight, Signups
      <4>2. Linked(req[w].reg) # {} /\ regs' = regs
        <5>1. [req[w] EXCEPT !.pc = "begin"].pc = "begin"
          BY <3>1 DEF TypeOK, Requests
        <5>2. \A r : Become(w, r) => r = req'[w]
          BY <3>1 DEF Become, TypeOK
        <5> QED BY <3>2, <5>1, <5>2 DEF RegisterWipe
      <4>3. regs[req[w].reg].status # "absent"
        BY <3>1, <4>1, <4>2 DEF Linked, Bookkeeping
      <4>4. regs[req[w].reg].guest = req[w].guest
        BY <3>1, <4>1, <4>3 DEF Clearing
      <4> QED BY <4>1, <4>2, <4>3, <4>4
    <3>3. ASSUME NEW w \in Workers, RegisterCreate(w)
          PROVE  \E d \in Signups : regs'[d].status # "absent" /\ regs'[d].guest = req[w].guest
      <4>1. CASE RowsOf(req[w].guest) = {}
        <5>1. /\ req[w].reg \in Signups /\ req[w].to \in Deciding \cup {"approved"}
              /\ regs' = [regs EXCEPT ![req[w].reg] =
                            [guest |-> req[w].guest, status |-> req[w].to, by |-> "model"]]
          BY <3>1, <3>3, <4>1 DEF RegisterCreate, At, Bookkeeping, InFlight
        <5>2. regs'[req[w].reg].guest = req[w].guest /\ regs'[req[w].reg].status = req[w].to
          BY <3>1, <5>1 DEF TypeOK
        <5> QED BY <5>1, <5>2 DEF Deciding
      <4>2. CASE RowsOf(req[w].guest) # {}
        BY <3>3, <4>2 DEF RegisterCreate, RowsOf
      <4> QED BY <4>1, <4>2
    <3> QED BY <2>2, <3>2, <3>3, ClearingKept, Endings
  <2> QED BY <2>1, <2>2
<1>3. Init => Inv
  BY InitHolds
<1>4. Inv /\ [Next]_vars => Inv'
  BY StepKeeps
<1>5. Spec => [][Survives]_vars
  <2> HIDE DEF Survives
  <2> QED BY <1>1, <1>2, <1>3, <1>4, PTL DEF Spec
<1> QED BY <1>5 DEF SignupNotLost
=============================================================================
