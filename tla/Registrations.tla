--------------------------- MODULE Registrations ---------------------------
(***************************************************************************)
(* The signups and the numbered tickets of ONE event, as the API process   *)
(* keeps them in Postgres (READ COMMITTED).  Workers are requests in       *)
(* flight; each await of a handler ends a step.  A handler that changes    *)
(* signups reads first, then opens a transaction that takes the event's    *)
(* advisory lock, decides, and commits.  What a transaction read under the *)
(* lock and what it writes at commit are two steps, because statements     *)
(* that take no lock (waitlistToPending, the clearing of an old signup,    *)
(* the event UPDATE) can run in between.                                   *)
(*                                                                         *)
(* Left out: mails, answers, the +1 tickets (they repeat their host's      *)
(* number, so max(number) does not see them).                              *)
(***************************************************************************)
EXTENDS Naturals, FiniteSets

CONSTANTS
    Guests,       \* users who may sign up
    Workers,      \* API requests that can be in flight at once
    Scheduler,    \* the one timer loop of the API process
    None,         \* SQL NULL: no capacity, no user
    Keep,         \* a field that a PATCH body leaves out
    Capacities,   \* the seat counts an organizer types
    Models,       \* the signup models an organizer picks
    Patches,      \* the bodies of PATCH /events/:id that are sent
    MaxSignups,   \* bound: signup transactions that are ever started
    MaxPatches,   \* bound: PATCHes ever sent
    MaxAborts     \* bound: requests lost to a crash or a database error

Signups == 1 .. MaxSignups          \* registrations.id, in created_at order
Processes == Workers \cup {Scheduler}
Removed == {"declined", "cancelled"}
Deciding == {"pending", "waitlisted"}
Statuses == Removed \cup Deciding \cup {"approved"}

Events == [capacity: Capacities \cup {None}, model: Models,
           status: {"published", "closed"}]
PatchBodies == [capacity: Capacities \cup {None, Keep}, model: Models \cup {Keep},
                status: {"published", "closed"} \cup {Keep}]

ASSUME ConstantsAssumption ==
    /\ Scheduler \notin Workers
    /\ Keep \notin Capacities /\ Keep \notin Models /\ Keep # None
    /\ None \notin Guests /\ None \notin Nat /\ None \notin Processes
    /\ Capacities \subseteq Nat
    /\ Models \subseteq {"instant", "capacity", "approval", "invite"}
    /\ Patches \subseteq PatchBodies
    /\ MaxSignups \in Nat /\ MaxPatches \in Nat /\ MaxAborts \in Nat

VARIABLES
    event,    \* the row of events; "closed" is draft, cancelled or over
    regs,     \* registrations: row of every id, NoRow when there is none
    tickets,  \* primary tickets; reg is registration_id, 0 when NULL
    clock,    \* the last created_at handed out
    lock,     \* who holds the event's advisory lock
    req,      \* what each process is doing
    patches,  \* PATCHes sent so far
    aborts,   \* requests lost so far
    peak      \* history: the largest capacity ever in force, None once uncapped

vars == <<event, regs, tickets, clock, lock, req, patches, aborts, peak>>
db == <<event, regs, tickets, clock, peak>>

NoRow == [status |-> "absent", guest |-> None, by |-> "nobody"]
Rows == [guest: Guests \cup {None}, status: Statuses \cup {"absent"},
         by: {"model", "organizer", "nobody"}]
Tickets == [number: Nat \ {0}, guest: Guests, reg: Signups \cup {0}, revoked: BOOLEAN]

Waits == {"enter", "approving", "removing", "lineup"}   \* next step: take the lock
Holds == {"create", "approve", "remove", "promote"}     \* holding the lock
Unlocked == {"lookup", "unlink", "wipe", "begin", "patch", "requeue", "vacancy"}

Opening == {"lookup", "unlink", "wipe", "begin"}        \* a register, before its stamp

Idle == [guest |-> None, reg |-> 0, pc |-> "idle", to |-> "absent", was |-> FALSE,
         ev |-> [capacity |-> None, model |-> Keep, status |-> "closed"],
         patch |-> [capacity |-> Keep, model |-> Keep, status |-> Keep],
         seats |-> {}, last |-> 0]

Pcs == Waits \cup Holds \cup Unlocked \cup {"idle"}
SeenEvents == Events \cup {Idle.ev}
Bodies == Patches \cup {Idle.patch}

Requests ==
    [guest: Guests \cup {None}, reg: Signups \cup {0}, pc: Pcs,
     to: Statuses \cup {"absent"}, was: BOOLEAN, ev: SeenEvents, patch: Bodies,
     seats: SUBSET Signups, last: Nat]

(***************************************************************************)
(* Helpers.                                                                *)
(***************************************************************************)
WithStatus(s) == {d \in Signups : regs[d].status = s}
RowsOf(g) == {d \in Signups : regs[d].status # "absent" /\ regs[d].guest = g}
Linked(d) == {t \in tickets : t.reg = d}
FaultyFull(n, capacity) == capacity # None /\ n > capacity
Full(n, capacity) == capacity # None /\ n >= capacity

\* coalesce(max(number), 0) over the tickets of the event
LastNumber(T) ==
    IF T = {} THEN 0
    ELSE CHOOSE n \in {t.number : t \in T} : \A t \in T : t.number <= n

NewTicket(n, g, d) == [number |-> n, guest |-> g, reg |-> d, revoked |-> FALSE]

At(w, pc) == req[w].pc = pc
Become(w, r) == req' = [req EXCEPT ![w] = r]
Finish(w) == Become(w, Idle)
\* pg_advisory_xact_lock: granted when nobody holds it, kept until the
\* transaction ends.  The operators called Faulty... are wrong on purpose: each
\* is a slip the code could have made and replaces the definition below it when
\* the checks ask whether a property can fail at all.
FaultyLock(w) == lock' = w
Lock(w) == lock = None /\ lock' = w
FaultyUnlock(w) == UNCHANGED lock
Unlock(w) == lock' = IF lock = w THEN None ELSE lock

(***************************************************************************)
(* POST register.  The event and the guest's earlier signup are read first *)
(* and trusted from then on.                                               *)
(***************************************************************************)
RegisterRead(w, g) ==
    /\ At(w, "idle")
    /\ clock + Cardinality({v \in Workers : req[v].pc \in Opening}) < MaxSignups
    /\ event.status = "published"
    /\ Become(w, [Idle EXCEPT !.pc = "lookup", !.guest = g, !.ev = event])
    /\ UNCHANGED <<db, tickets, lock, patches, aborts>>

\* 409 when the guest has a signup that was not cancelled or declined, 400 when
\* an answer or an upload is not acceptable
RegisterLookup(w) ==
    /\ At(w, "lookup")
    /\ LET mine == RowsOf(req[w].guest) IN
       \/ Finish(w)
       \/ mine = {} /\ Become(w, [req[w] EXCEPT !.pc = "begin"])
       \/ \E d \in mine :
            /\ regs[d].status \in Removed
            /\ Become(w, [req[w] EXCEPT !.pc = "unlink", !.reg = d])
    /\ UNCHANGED <<db, tickets, lock, patches, aborts>>

\* Clearing the earlier signup: two statements that take no lock and do not
\* look at the row's status again.
RegisterUnlink(w) ==
    /\ At(w, "unlink")
    /\ tickets' = {[t EXCEPT !.reg = IF @ = req[w].reg THEN 0 ELSE @] : t \in tickets}
    /\ Become(w, [req[w] EXCEPT !.pc = "wipe"])
    /\ UNCHANGED <<event, regs, clock, peak, lock, patches, aborts>>

FaultyRegisterWipe(w) ==      \* no foreign key
    /\ At(w, "wipe")
    /\ regs' = [regs EXCEPT ![req[w].reg] = NoRow]
    /\ Become(w, [req[w] EXCEPT !.pc = "begin"])
    /\ UNCHANGED <<event, tickets, clock, peak, lock, patches, aborts>>

\* the DELETE fails while a ticket still references the row
RegisterWipe(w) ==
    /\ At(w, "wipe")
    /\ IF Linked(req[w].reg) = {}
       THEN /\ regs' = [regs EXCEPT ![req[w].reg] = NoRow]
            /\ Become(w, [req[w] EXCEPT !.pc = "begin"])
       ELSE Finish(w) /\ UNCHANGED regs
    /\ UNCHANGED <<event, tickets, clock, peak, lock, patches, aborts>>

FaultyRegisterBegin(w) ==     \* the answers are validated only here
    /\ At(w, "begin") /\ clock < MaxSignups
    /\ clock' = clock + 1
    /\ Finish(w) \/ Become(w, [req[w] EXCEPT !.pc = "enter", !.reg = clock + 1])
    /\ UNCHANGED <<event, regs, tickets, peak, lock, patches, aborts>>

\* created_at is the start of the transaction, before the wait for the lock
RegisterBegin(w) ==
    /\ At(w, "begin") /\ clock < MaxSignups
    /\ clock' = clock + 1
    /\ Become(w, [req[w] EXCEPT !.pc = "enter", !.reg = clock + 1])
    /\ UNCHANGED <<event, regs, tickets, peak, lock, patches, aborts>>

\* What the signup gets, from the event row read at the start
Outcome(ev) ==
    CASE ev.model = "approval" -> "pending"
      [] ev.model # "approval" /\ Full(Cardinality(WithStatus("approved")), ev.capacity)
            -> "waitlisted"
      [] OTHER -> "approved"

RegisterEnter(w) ==
    /\ At(w, "enter") /\ Lock(w)
    /\ Become(w, [req[w] EXCEPT !.pc = "create", !.to = Outcome(req[w].ev),
                                !.last = LastNumber(tickets), !.ev = Idle.ev])
    /\ UNCHANGED <<db, tickets, patches, aborts>>

\* INSERT; a second row of the same guest breaks the unique index and the
\* whole transaction rolls back
RegisterCreate(w) ==
    LET r == req[w] IN
    /\ At(w, "create") /\ Unlock(w) /\ Finish(w)
    /\ IF RowsOf(r.guest) = {}
       THEN /\ regs' = [regs EXCEPT ![r.reg] =
                          [guest |-> r.guest, status |-> r.to, by |-> "model"]]
            /\ tickets' = IF r.to = "approved"
                          THEN tickets \cup {NewTicket(r.last + 1, r.guest, r.reg)}
                          ELSE tickets
       ELSE UNCHANGED <<regs, tickets>>
    /\ UNCHANGED <<event, clock, peak, patches, aborts>>

(***************************************************************************)
(* POST approve: the status is checked before the lock and not again.      *)
(***************************************************************************)
ApproveRead(w, d) ==
    /\ At(w, "idle")
    /\ regs[d].status \in Deciding
    /\ Become(w, [Idle EXCEPT !.pc = "approving", !.reg = d])
    /\ UNCHANGED <<db, tickets, lock, patches, aborts>>

ApproveEnter(w) ==
    /\ At(w, "approving") /\ Lock(w)
    /\ Become(w, [req[w] EXCEPT !.pc = "approve", !.last = LastNumber(tickets)])
    /\ UNCHANGED <<db, tickets, patches, aborts>>

\* A ticket needs its signup (foreign key) and a signup has one ticket
\* (unique index): otherwise the transaction rolls back.
Ticketable(d) == regs[d].status # "absent" /\ Linked(d) = {}

FaultyApproveCommit(w) ==     \* on conflict do nothing: an old ticket, revoked or not, will do
    LET d == req[w].reg IN
    /\ At(w, "approve") /\ Unlock(w) /\ Finish(w)
    /\ IF regs[d].status # "absent"
       THEN /\ regs' = [regs EXCEPT ![d].status = "approved", ![d].by = "organizer"]
            /\ tickets' = IF Linked(d) # {} THEN tickets
                          ELSE tickets \cup {NewTicket(req[w].last + 1, regs[d].guest, d)}
       ELSE UNCHANGED <<regs, tickets>>
    /\ UNCHANGED <<event, clock, peak, patches, aborts>>

ApproveCommit(w) ==
    LET d == req[w].reg IN
    /\ At(w, "approve") /\ Unlock(w) /\ Finish(w)
    /\ IF Ticketable(d)
       THEN /\ regs' = [regs EXCEPT ![d].status = "approved", ![d].by = "organizer"]
            /\ tickets' = tickets \cup {NewTicket(req[w].last + 1, regs[d].guest, d)}
       ELSE UNCHANGED <<regs, tickets>>
    /\ UNCHANGED <<event, clock, peak, patches, aborts>>

(***************************************************************************)
(* POST decline (an organizer) and POST cancel (the guest): the status is  *)
(* read again under the lock, and a freed seat promotes the waitlist after *)
(* the commit.                                                             *)
(***************************************************************************)
FaultyRemoveRead(w, d, to) == \* no lock, no second look
    /\ At(w, "idle")
    /\ regs[d].status \in Statuses \ Removed
    /\ Become(w, [Idle EXCEPT !.pc = "remove", !.reg = d, !.to = to,
                              !.was = regs[d].status = "approved"])
    /\ UNCHANGED <<db, tickets, lock, patches, aborts>>

RemoveRead(w, d, to) ==
    /\ At(w, "idle")
    /\ regs[d].status \in Statuses \ Removed
    /\ Become(w, [Idle EXCEPT !.pc = "removing", !.reg = d, !.to = to])
    /\ UNCHANGED <<db, tickets, lock, patches, aborts>>

RemoveEnter(w) ==
    /\ At(w, "removing") /\ Lock(w)
    /\ Become(w, [req[w] EXCEPT !.pc = "remove",
                                !.was = regs[req[w].reg].status = "approved"])
    /\ UNCHANGED <<db, tickets, patches, aborts>>

FaultyRevokeTickets(d) ==     \* deletes, so that a number is given twice
    tickets' = {t \in tickets : t.reg # d}

RevokeTickets(d) ==
    tickets' = {[t EXCEPT !.revoked = @ \/ t.reg = d] : t \in tickets}

RemoveCommit(w) ==
    LET r == req[w] IN
    /\ At(w, "remove") /\ Unlock(w)
    /\ regs' = IF regs[r.reg].status = "absent" THEN regs
               ELSE [regs EXCEPT ![r.reg].status = r.to, ![r.reg].by = "nobody"]
    /\ IF r.was
       THEN RevokeTickets(r.reg) /\ Become(w, [Idle EXCEPT !.pc = "vacancy"])
       ELSE Finish(w) /\ UNCHANGED tickets
    /\ UNCHANGED <<event, clock, peak, patches, aborts>>

(***************************************************************************)
(* promoteWaitlist: the event is read outside the transaction.             *)
(***************************************************************************)
PromoteRead(w) ==
    /\ At(w, "vacancy")
    /\ Become(w, [req[w] EXCEPT !.pc = "lineup", !.ev = event])
    /\ UNCHANGED <<db, tickets, lock, patches, aborts>>

FaultyAdmitted(capacity) ==   \* newest first
    LET waiting == WithStatus("waitlisted")
        approved == Cardinality(WithStatus("approved"))
    IN  {d \in waiting :
           ~ Full(approved + Cardinality({e \in waiting : e > d}), capacity)}

\* The first of the waitlist, by created_at, for as many seats as are free
Admitted(capacity) ==
    LET waiting == WithStatus("waitlisted")
        approved == Cardinality(WithStatus("approved"))
    IN  {d \in waiting :
           ~ Full(approved + Cardinality({e \in waiting : e < d}), capacity)}

PromoteEnter(w) ==
    /\ At(w, "lineup") /\ Lock(w)
    /\ Become(w, [req[w] EXCEPT !.pc = "promote", !.seats = Admitted(req[w].ev.capacity),
                                !.last = LastNumber(tickets)])
    /\ UNCHANGED <<db, tickets, patches, aborts>>

\* the loop numbers the tickets in the order of the waitlist
Numberings(S, last) ==
    {f \in [S -> (last + 1) .. (last + Cardinality(S))] :
        /\ \A d, e \in S : d < e => f[d] < f[e]
        /\ \A n \in (last + 1) .. (last + Cardinality(S)) : \E d \in S : f[d] = n}

PromoteCommit(w) ==
    LET seats == req[w].seats IN
    /\ At(w, "promote") /\ Unlock(w) /\ Finish(w)
    /\ IF \A d \in seats : Ticketable(d)
       THEN /\ regs' = [d \in Signups |->
                          IF d \in seats THEN [regs[d] EXCEPT !.status = "approved", !.by = "model"]
                          ELSE regs[d]]
            /\ \E number \in Numberings(seats, req[w].last) :
                 tickets' = tickets \cup {NewTicket(number[d], regs[d].guest, d) : d \in seats}
       ELSE UNCHANGED <<regs, tickets>>
    /\ UNCHANGED <<event, clock, peak, patches, aborts>>

FaultySweepStart ==           \* the events without a capacity
    /\ At(Scheduler, "idle")
    /\ event.status = "published" /\ event.capacity = None
    /\ Become(Scheduler, [Idle EXCEPT !.pc = "vacancy"])
    /\ UNCHANGED <<db, tickets, lock, patches, aborts>>

\* runWaitlistSweep: open events that have a capacity, whatever their model
SweepStart ==
    /\ At(Scheduler, "idle")
    /\ event.status = "published" /\ event.capacity # None
    /\ Become(Scheduler, [Idle EXCEPT !.pc = "vacancy"])
    /\ UNCHANGED <<db, tickets, lock, patches, aborts>>

(***************************************************************************)
(* PATCH /events/:id.  The handler reads the event, updates the row with   *)
(* no lock, then sends the waitlist back to review or promotes it.         *)
(***************************************************************************)
PatchRead(w, p) ==
    /\ At(w, "idle") /\ patches < MaxPatches
    /\ patches' = patches + 1
    /\ Become(w, [Idle EXCEPT !.pc = "patch", !.patch = p,
                              !.ev = [Idle.ev EXCEPT !.model = event.model]])
    /\ UNCHANGED <<db, tickets, lock, aborts>>

FaultyPatched(ev, p) ==       \* writes the fields the body leaves out
    [capacity |-> p.capacity,
     model    |-> IF p.model = Keep THEN ev.model ELSE p.model,
     status   |-> IF p.status = Keep THEN ev.status ELSE p.status]

Patched(ev, p) ==
    [capacity |-> IF p.model = "instant" THEN None
                  ELSE IF p.capacity = Keep THEN ev.capacity ELSE p.capacity,
     model    |-> IF p.model = Keep THEN ev.model ELSE p.model,
     status   |-> IF p.status = Keep THEN ev.status ELSE p.status]

Larger(c, d) == IF c = None \/ d = None THEN None ELSE IF c > d THEN c ELSE d

PatchWrite(w) ==
    LET p == req[w].patch
        nextModel == IF p.model = Keep THEN req[w].ev.model ELSE p.model
    IN
    /\ At(w, "patch")
    /\ event' = Patched(event, p)
    /\ peak' = Larger(peak, event'.capacity)
    /\ CASE p.model = Keep /\ p.capacity = Keep -> Finish(w)
         [] ~ (p.model = Keep /\ p.capacity = Keep) /\ nextModel = "approval"
              -> Become(w, [Idle EXCEPT !.pc = "requeue"])
         [] OTHER -> Become(w, [Idle EXCEPT !.pc = "vacancy"])
    /\ UNCHANGED <<regs, tickets, clock, lock, patches, aborts>>

\* waitlistToPending: one UPDATE, no lock
Requeue(w) ==
    /\ At(w, "requeue") /\ Finish(w)
    /\ regs' = [d \in Signups |->
                  IF regs[d].status = "waitlisted" THEN [regs[d] EXCEPT !.status = "pending"]
                  ELSE regs[d]]
    /\ UNCHANGED <<event, tickets, clock, peak, lock, patches, aborts>>

\* A crash of the process or an error of the database: what was not committed
\* is gone, the lock is released, what was committed stays.
Abort(w) ==
    /\ ~ At(w, "idle") /\ aborts < MaxAborts
    /\ aborts' = aborts + 1
    /\ Finish(w) /\ Unlock(w)
    /\ UNCHANGED <<db, tickets, patches>>

(***************************************************************************)
(* The specification.                                                      *)
(***************************************************************************)
Init ==
    /\ event \in {e \in Events : e.model = "instant" => e.capacity = None}
    /\ regs = [d \in Signups |-> NoRow]
    /\ tickets = {}
    /\ clock = 0
    /\ lock = None
    /\ req = [w \in Processes |-> Idle]
    /\ patches = 0 /\ aborts = 0
    /\ peak = event.capacity

Arrive(w) ==
    \/ \E g \in Guests : RegisterRead(w, g)
    \/ \E d \in Signups : ApproveRead(w, d)
    \/ \E d \in Signups, to \in Removed : RemoveRead(w, d, to)
    \/ \E p \in Patches : PatchRead(w, p)

Proceed(w) ==
    \/ RegisterLookup(w) \/ RegisterUnlink(w) \/ RegisterWipe(w) \/ RegisterBegin(w)
    \/ RegisterCreate(w) \/ ApproveCommit(w) \/ RemoveCommit(w)
    \/ PromoteRead(w) \/ PromoteCommit(w) \/ PatchWrite(w) \/ Requeue(w)

Enter(w) == RegisterEnter(w) \/ ApproveEnter(w) \/ RemoveEnter(w) \/ PromoteEnter(w)

Next ==
    \/ \E w \in Workers : Arrive(w)
    \/ SweepStart
    \/ \E w \in Processes : Proceed(w) \/ Enter(w) \/ Abort(w)

Spec == Init /\ [][Next]_vars

\* A request once received runs to its end, the timer keeps firing, and
\* Postgres queues the waiters of an advisory lock: nobody is passed over for
\* ever.  Nothing makes a guest or an organizer act.
Fairness ==
    /\ WF_vars(SweepStart)
    /\ \A w \in Processes : WF_vars(Proceed(w)) /\ SF_vars(Enter(w))

FairSpec == Spec /\ Fairness

-----------------------------------------------------------------------------
(***************************************************************************)
(* Properties.                                                             *)
(***************************************************************************)

\* Types of the variables.
TypeOK ==
    /\ event \in Events
    /\ regs \in [Signups -> Rows]
    /\ tickets \subseteq Tickets
    /\ clock \in 0 .. MaxSignups
    /\ lock \in Processes \cup {None}
    /\ req \in [Processes -> Requests]
    /\ patches \in 0 .. MaxPatches /\ aborts \in 0 .. MaxAborts
    /\ peak \in Nat \cup {None}

\* Ticket numbers start at 1, leave no gap and are never given twice, however
\* many signups, approvals and promotions issue tickets at once and whichever
\* of them roll back (issueTicketTx takes max + 1 under the event's lock).
NumbersRunOn ==
    /\ {t.number : t \in tickets} = 1 .. LastNumber(tickets)
    /\ \A t, u \in tickets : t.number = u.number => t = u

\* A ticket that still opens the door hangs on an approved signup: decline and
\* cancel leave no live ticket behind even when an approval or a promotion
\* commits while they wait for the lock.
LiveTicketIsApproved ==
    \A t \in tickets : ~ t.revoked /\ t.reg # 0 => regs[t.reg].status = "approved"

\* Whoever the organizers' list shows as approved holds a ticket that opens the
\* door, whatever approvals, declines and second signups overlap and whatever a
\* crash cuts short: the ticket of the signup, or one that a clearing detached
\* from it (register, before it deletes the row).
ApprovedHoldsTicket ==
    \A d \in Signups : regs[d].status = "approved" =>
        \E t \in tickets : t.guest = regs[d].guest /\ ~ t.revoked /\ t.reg \in {0, d}

\* The passes that open the door are those of the approved signups, both ways.
TicketsMatch == LiveTicketIsApproved /\ ApprovedHoldsTicket

\* What the invariants above rest on.  A row has a guest and an id already
\* handed out; a ticket's registration_id points to a row; and of a request in
\* flight: a stamp is its own and unused, whoever is past the lock holds it, the
\* last number and an approved status read under the lock are still current.
InFlight(w) ==
    LET r == req[w] IN
    /\ r.pc \in Opening \cup {"enter", "create"} => r.guest \in Guests
    /\ r.pc \in {"unlink", "wipe", "enter", "create"} \cup {"approving", "approve", "removing", "remove"}
         => r.reg \in Signups
    /\ r.pc \in {"enter", "create"} => r.reg <= clock /\ regs[r.reg].status = "absent"
    /\ r.pc = "create" => r.to \in Deciding \cup {"approved"}
    /\ r.pc \in {"removing", "remove"} => r.to \in Removed
    /\ r.pc = "remove" /\ regs[r.reg].status = "approved" => r.was
    /\ r.pc \in Holds => lock = w
    /\ r.pc \in {"create", "approve", "promote"} => r.last = LastNumber(tickets)

Bookkeeping ==
    /\ \A d \in Signups : regs[d].status # "absent" => regs[d].guest \in Guests /\ d <= clock
    /\ \A t \in tickets : t.reg # 0 => regs[t.reg].status # "absent"
    /\ LastNumber(tickets) \in Nat
    /\ \A w \in Processes : InFlight(w)
    /\ \A v, w \in Processes :
         v # w /\ req[v].pc \in {"enter", "create"} /\ req[w].pc \in {"enter", "create"}
           => req[v].reg # req[w].reg

\* The code by itself (signup or promotion) never holds more seats than the
\* largest capacity the event ever had; only an organizer's approval may.
SeatsWithinPeak ==
    peak # None =>
      Cardinality({d \in WithStatus("approved") : regs[d].by = "model"}) <= peak

\* A promotion never passes over somebody who signed up earlier and is still
\* waiting: whoever leaves the waitlist for a seat without an organizer's
\* decision is older than everyone who stays on it.
PromotedInOrder ==
    [][\A d, e \in Signups :
         (/\ regs[d].status = "waitlisted"
          /\ regs'[d].status = "approved" /\ regs'[d].by = "model"
          /\ regs[e].status = "waitlisted" /\ regs'[e].status = "waitlisted")
         => d < e]_vars

\* Only an organizer's approval overwrites a decline or a cancellation: nobody is
\* given a seat by the waitlist who gave it up or was refused, however the removal
\* and the promotion overlap.
RemovedNotPromoted ==
    [][\A d \in Signups : regs[d].status \in Removed /\ regs'[d].status = "approved"
          => regs'[d].by = "organizer"]_vars

\* The waitlist serves those who still wait, and in their order.
WaitlistServed == PromotedInOrder /\ RemovedNotPromoted

\* Every request that was received ends: no two of them wait on each other for
\* the event's lock, and no transaction ends without releasing it.
RequestsEnd == \A w \in Processes : []<> At(w, "idle")

\* Once PATCHes and signups stop, an open event with a capacity does not keep a
\* free seat while somebody waits for one: the promotion that follows a freed
\* seat may be lost to a crash or read a stale capacity, the sweep makes up.
SeatsFill ==
    <>[] ~ /\ event.status = "published" /\ event.capacity # None
           /\ WithStatus("waitlisted") # {}
           /\ Cardinality(WithStatus("approved")) < event.capacity

\* Signing up again replaces the old row and never just destroys it: when a
\* register request that began to clear one ends, its guest has a row, whatever
\* other requests did to it meanwhile, unless it crashed (the clearing block is
\* past every check that may answer 400).
SignupNotLost ==
    [][\A w \in Workers :
         req[w].pc \in {"wipe", "begin", "enter", "create"} /\ req'[w].pc = "idle" /\ aborts' = aborts
           => \E d \in Signups : regs'[d].status # "absent" /\ regs'[d].guest = req[w].guest]_vars

\* Said by approveRegistration's own error, "Can't approve a declined
\* registration": a declined or cancelled signup is never approved afterwards.
RemovedStaysRemoved ==
    [][\A d \in Signups : regs[d].status \in Removed => regs'[d].status # "approved"]_vars

\* The abstract account of the tickets, implemented by this module.
Ledger == INSTANCE TicketLedger WITH
    issued <- LastNumber(tickets), live <- {t.number : t \in {u \in tickets : ~ u.revoked}}

\* Numbers are issued in order and a revoked one never comes back.
LedgerKept == Ledger!Spec
=============================================================================
