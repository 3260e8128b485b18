------------------------------ MODULE Transfers ------------------------------
(***************************************************************************)
(* The +1 of a primary ticket, from the link its host sends to the door of *)
(* the event.  A host is a primary ticket; its signup includes a +1.       *)
(*                                                                         *)
(* Claims and removals (cancel or decline) run under the event's advisory  *)
(* lock and read nothing under it that they did not read before, so each   *)
(* is one step once it has the lock.  Making, rotating and revoking a link *)
(* and scanning a pass take no lock: every statement is a step.            *)
(*                                                                         *)
(* Left out: the profile a scan shows, denied and duplicate rows of        *)
(* checkins, and the look-up of a serial by andrew ID, which only picks    *)
(* the pass that is then scanned.                                          *)
(***************************************************************************)
EXTENDS Integers

CONSTANTS
    Hosts,        \* primary tickets, named by their owners
    Users,        \* everybody who may claim a +1, hosts among them
    Nobody,
    Workers,      \* requests in flight
    MaxRotation   \* bound: how often a link is renewed

ASSUME TransfersAssumption ==
    Hosts \subseteq Users /\ Nobody \notin Users /\ MaxRotation \in Nat

VARIABLES
    open,      \* the event is published and not over
    removed,   \* hosts whose ticket was revoked
    link,      \* ticket_transfers: one row per ticket, "none" before it exists
    plus,      \* the claimed ticket
    entries,   \* how many checkins of a pass say ok
    req        \* what each request is doing

vars == <<open, removed, link, plus, entries, req>>

Passes == Hosts \X {"primary", "plus_one"}
LinkStatuses == {"none", "active", "claimed", "revoked"}
Links == [status: LinkStatuses, rotation: 0 .. MaxRotation]
PlusOneTickets == [by: Users \cup {Nobody}, revoked: BOOLEAN]
NoTicket == [by |-> Nobody, revoked |-> FALSE]

\* late is history: what the request asks for was already over when it arrived
Idle == [pc |-> "idle", host |-> Nobody, user |-> Nobody, kind |-> "primary",
         rotation |-> 0, late |-> FALSE]
Scanning == {"parent", "seen", "enter"}
Making == {"ensure", "insert", "rotate"}
Claiming == {"claim", "claiming"}
Requests ==
    [pc: {"idle"} \cup Scanning \cup Making \cup Claiming, host: Hosts \cup {Nobody},
     user: Users \cup {Nobody}, kind: {"primary", "plus_one"},
     rotation: 0 .. MaxRotation, late: BOOLEAN]

At(w, pc) == req[w].pc = pc
Become(w, r) == req' = [req EXCEPT ![w] = r]
Finish(w) == Become(w, Idle)
Pass(w) == <<req[w].host, req[w].kind>>
Host(p) == p[1]

(***************************************************************************)
(* The host: ensureTransfer and revokeTransfer.  The definitions called    *)
(* Faulty... are wrong on purpose and stand in for the one below them when *)
(* a property is tested.                                                   *)
(***************************************************************************)
EnsureStart(w, h) ==
    /\ At(w, "idle") /\ h \notin removed
    /\ Become(w, [Idle EXCEPT !.pc = "ensure", !.host = h])
    /\ UNCHANGED <<open, removed, link, plus, entries>>

\* an active link is shown again, a claimed one is refused
EnsureRead(w) ==
    LET l == link[req[w].host] IN
    /\ At(w, "ensure")
    /\ \/ l.status \in {"active", "claimed"} /\ Finish(w)
       \/ l.status = "none" /\ Become(w, [req[w] EXCEPT !.pc = "insert"])
       \/ /\ l.status = "revoked" /\ l.rotation < MaxRotation
          /\ Become(w, [req[w] EXCEPT !.pc = "rotate", !.rotation = l.rotation])
    /\ UNCHANGED <<open, removed, link, plus, entries>>

\* the unique index on ticket_id lets one row in
EnsureInsert(w) ==
    LET h == req[w].host IN
    /\ At(w, "insert") /\ Finish(w)
    /\ link' = IF link[h].status = "none"
               THEN [link EXCEPT ![h] = [status |-> "active", rotation |-> 0]] ELSE link
    /\ UNCHANGED <<open, removed, plus, entries>>

FaultyEnsureRotate(w) ==      \* counts down
    /\ At(w, "rotate") /\ Finish(w)
    /\ link' = [link EXCEPT ![req[w].host] =
                  [status |-> "active", rotation |-> req[w].rotation - 1]]
    /\ UNCHANGED <<open, removed, plus, entries>>

\* UPDATE by id: whatever the row has become since it was read
EnsureRotate(w) ==
    /\ At(w, "rotate") /\ Finish(w)
    /\ link' = [link EXCEPT ![req[w].host] =
                  [status |-> "active", rotation |-> req[w].rotation + 1]]
    /\ UNCHANGED <<open, removed, plus, entries>>

Deactivated(l) == IF l.status = "active" THEN [l EXCEPT !.status = "revoked"] ELSE l

RevokeLink(h) ==
    /\ link' = [link EXCEPT ![h] = Deactivated(@)]
    /\ UNCHANGED <<open, removed, plus, entries, req>>

(***************************************************************************)
(* claimTransfer: the signature of the link is checked once, outside the   *)
(* transaction; the rest before the lock.                                  *)
(***************************************************************************)
ClaimParse(w, u, h) ==
    /\ At(w, "idle") /\ link[h].status # "none"
    /\ Become(w, [Idle EXCEPT !.pc = "claim", !.user = u, !.host = h, !.late = h \in removed])
    /\ UNCHANGED <<open, removed, link, plus, entries>>

ClaimRead(w) ==
    LET h == req[w].host IN
    /\ At(w, "claim")
    /\ IF link[h].status = "active" /\ h \notin removed /\ open /\ req[w].user # h
       THEN Become(w, [req[w] EXCEPT !.pc = "claiming"])
       ELSE Finish(w)
    /\ UNCHANGED <<open, removed, link, plus, entries>>

FaultyClaimCommit(w) ==       \* no unique index on parent_ticket_id
    LET r == req[w] IN
    /\ At(w, "claiming") /\ Finish(w)
    /\ plus' = [plus EXCEPT ![r.host] = [by |-> r.user, revoked |-> FALSE]]
    /\ link' = [link EXCEPT ![r.host].status = "claimed"]
    /\ UNCHANGED <<open, removed, entries>>

\* INSERT of the +1 ticket and UPDATE of the transfer; a second ticket with the
\* same parent breaks the unique index and both are rolled back
ClaimCommit(w) ==
    LET r == req[w] IN
    /\ At(w, "claiming") /\ Finish(w)
    /\ IF plus[r.host].by = Nobody
       THEN /\ plus' = [plus EXCEPT ![r.host] = [by |-> r.user, revoked |-> FALSE]]
            /\ link' = [link EXCEPT ![r.host].status = "claimed"]
       ELSE UNCHANGED <<plus, link>>
    /\ UNCHANGED <<open, removed, entries>>

(***************************************************************************)
(* The removal of the host by cancel or decline (revokeRegistrationTickets *)
(* is all of it that concerns the +1), and the event's status.             *)
(***************************************************************************)
FaultyRemove(h) ==            \* deletes the +1 ticket
    /\ h \notin removed
    /\ removed' = removed \cup {h}
    /\ plus' = [plus EXCEPT ![h] = NoTicket]
    /\ link' = [link EXCEPT ![h] = Deactivated(@)]
    /\ UNCHANGED <<open, entries, req>>

Remove(h) ==
    /\ h \notin removed
    /\ removed' = removed \cup {h}
    /\ plus' = [plus EXCEPT ![h].revoked = plus[h].by # Nobody]
    /\ link' = [link EXCEPT ![h] = Deactivated(@)]
    /\ UNCHANGED <<open, entries, req>>

SetStatus ==
    /\ open' = ~ open
    /\ UNCHANGED <<removed, link, plus, entries, req>>

(***************************************************************************)
(* checkinBySerial: four statements, no transaction, no lock.              *)
(***************************************************************************)
Revoked(p) == IF p[2] = "primary" THEN Host(p) \in removed ELSE plus[Host(p)].revoked
Exists(p) == p[2] = "primary" \/ plus[Host(p)].by # Nobody

\* an unknown or revoked serial is denied at once
ScanTicket(w, p) ==
    /\ At(w, "idle") /\ Exists(p) /\ ~ Revoked(p)
    /\ Become(w, [Idle EXCEPT !.pc = IF p[2] = "plus_one" THEN "parent" ELSE "seen",
                              !.host = Host(p), !.kind = p[2],
                              !.late = entries[p] > 0 \/ Host(p) \in removed])
    /\ UNCHANGED <<open, removed, link, plus, entries>>

FaultyScanParent(w) ==        \* trusts the +1 ticket alone
    /\ At(w, "parent")
    /\ Become(w, [req[w] EXCEPT !.pc = "seen"])
    /\ UNCHANGED <<open, removed, link, plus, entries>>

\* a +1 needs a host whose pass is still valid
ScanParent(w) ==
    /\ At(w, "parent")
    /\ IF req[w].host \in removed THEN Finish(w)
       ELSE Become(w, [req[w] EXCEPT !.pc = "seen"])
    /\ UNCHANGED <<open, removed, link, plus, entries>>

\* an earlier ok makes this one a duplicate
ScanSeen(w) ==
    /\ At(w, "seen")
    /\ IF entries[Pass(w)] > 0 THEN Finish(w)
       ELSE Become(w, [req[w] EXCEPT !.pc = "enter"])
    /\ UNCHANGED <<open, removed, link, plus, entries>>

ScanEnter(w) ==
    /\ At(w, "enter") /\ Finish(w)
    /\ entries' = [entries EXCEPT ![Pass(w)] = @ + 1]
    /\ UNCHANGED <<open, removed, link, plus>>

\* A request that dies between two statements; a transaction rolls back.
Abort(w) ==
    /\ ~ At(w, "idle") /\ Finish(w)
    /\ UNCHANGED <<open, removed, link, plus, entries>>

-----------------------------------------------------------------------------
Init ==
    /\ open = TRUE
    /\ removed = {}
    /\ link = [h \in Hosts |-> [status |-> "none", rotation |-> 0]]
    /\ plus = [h \in Hosts |-> NoTicket]
    /\ entries = [p \in Passes |-> 0]
    /\ req = [w \in Workers |-> Idle]

Arrive(w) ==
    \/ \E h \in Hosts : EnsureStart(w, h)
    \/ \E h \in Hosts, u \in Users : ClaimParse(w, u, h)
    \/ \E p \in Passes : ScanTicket(w, p)

Proceed(w) ==
    \/ EnsureRead(w) \/ EnsureInsert(w) \/ EnsureRotate(w)
    \/ ClaimRead(w) \/ ClaimCommit(w)
    \/ ScanParent(w) \/ ScanSeen(w) \/ ScanEnter(w)
    \/ Abort(w)

Next ==
    \/ \E w \in Workers : Arrive(w) \/ Proceed(w)
    \/ \E h \in Hosts : RevokeLink(h) \/ Remove(h)
    \/ SetStatus

Spec == Init /\ [][Next]_vars

-----------------------------------------------------------------------------
\* Types of the variables.
TypeOK ==
    /\ open \in BOOLEAN
    /\ removed \subseteq Hosts
    /\ link \in [Hosts -> Links]
    /\ plus \in [Hosts -> PlusOneTickets]
    /\ entries \in [Passes -> Nat]
    /\ req \in [Workers -> Requests]

\* A link the host sees as claimed has a pass behind it: the transfer and the
\* ticket are written together, and nothing takes the ticket away.
ClaimedHasPass ==
    \A h \in Hosts : link[h].status = "claimed" => plus[h].by # Nobody

\* Whoever is about to be admitted, or to get a +1, came in time: a scan that
\* began after an ok of the same pass, or after the host was removed, is not
\* admitted even if a +1 ticket was left alive, and a claim that began after the
\* host's removal fails.
LatecomersTurnedAway ==
    \A w \in Workers : At(w, "enter") \/ At(w, "claiming") => ~ req[w].late

\* A +1 goes to one person, not the host, and stays taken back.
Promise == INSTANCE PlusOnes WITH
    holder <- [h \in Hosts |-> plus[h].by], void <- {h \in Hosts : plus[h].revoked}

\* The transfers implement the promise, whatever claims and removals race.
PromiseKept == Promise!Spec
=============================================================================
