-------------------------------- MODULE Events --------------------------------
(***************************************************************************)
(* One event as its organizers administer it: createEvent, getEvent,       *)
(* updateEvent and deleteEvent of routes/router.ts, the pages that call    *)
(* them (CreateEventPage, EditEventPage), and the gate an invite-only      *)
(* event puts before register.  Each await is a step, so requests overlap. *)
(* A page's click and the first read of its request are one step: what the *)
(* page shows may be old anyhow.                                           *)
(*                                                                         *)
(* Left out: the texts of an event and when it starts, the committees      *)
(* (everybody here is of the event's), the limit on guesses of a code (a   *)
(* bucket as in SignIn), the capacity and what a patch of it frees: see    *)
(* Registrations.                                                          *)
(***************************************************************************)
EXTENDS Integers, Sequences, FiniteSets

CONSTANTS
    Workers,        \* organizers at their edit pages
    Guests,
    Models,         \* of EVENT_MODELS those that are told apart
    Dates,          \* on which an event may end
    MaxDeeds,       \* bound on PATCHes and deletions together
    MaxSignups,     \* bound on signups
    MaxTime         \* bound on the clock

Same == "same"      \* a field that a PATCH does not mention

ASSUME EventsAssumption ==
    /\ {"invite", "approval"} \subseteq Models /\ Same \notin Models
    /\ Dates \subseteq Nat \ {0} /\ {MaxDeeds, MaxSignups, MaxTime} \subseteq Nat

VARIABLES
    event,      \* the row of the event
    signups,    \* its registrations in order of commit
    arriving,   \* the register transaction of each guest
    desk,       \* the edit page of each worker, or the request it sent
    issued,     \* invite codes made so far
    deeds,
    clock,
    raced       \* history: a PATCH of the model wrote what it had decided for another row

club == <<event, signups, arriving>>
evars == <<club, desk, issued, deeds, clock, raced>>

Statuses == {"published", "cancelled"}
\* code 0 is none
Rows == [there: BOOLEAN, status: Statuses, model: Models, listed: BOOLEAN,
         code: Nat, ends: Nat]
Bodies == [model: Models \cup {Same}, status: Statuses \cup {Same},
           ends: Dates \cup {0}]       \* 0: not mentioned
Signups == [status: {"pending", "decided", "cancelled"}, at: Nat, escalated: BOOLEAN]
Arrivals == [open: BOOLEAN, at: Nat, pending: BOOLEAN]
\* seen is what a page shows of the row, or a request has read; empty that a page
\* shows no signups
Sights == [status: Statuses, model: Models, code: Nat]
Desks == [pc: {"idle", "page", "patch", "count", "rows"}, body: Bodies, seen: Sights,
          super: BOOLEAN, empty: BOOLEAN]

NoBody == [model |-> Same, status |-> Same, ends |-> 0]
Gone == [there |-> FALSE, status |-> "cancelled", model |-> "approval", listed |-> TRUE,
         code |-> 0, ends |-> 0]
Sight(e) == [status |-> e.status, model |-> e.model, code |-> e.code]
Free == [pc |-> "idle", body |-> NoBody, seen |-> Sight(Gone), super |-> FALSE, empty |-> FALSE]
Away == [open |-> FALSE, at |-> 0, pending |-> FALSE]

At(w, pc) == desk[w].pc = pc
Become(w, d) == desk' = [desk EXCEPT ![w] = d]

(***************************************************************************)
(* createEvent, updateEvent, deleteEvent.  The definitions called Faulty...*)
(* are wrong on purpose and stand in for the one below them when a         *)
(* property is tested.                                                     *)
(***************************************************************************)
\* the row createEvent inserts
Created(m, ends) ==
    [there |-> TRUE, status |-> "published", model |-> m, ends |-> ends,
     listed |-> m # "invite", code |-> IF m = "invite" THEN 1 ELSE 0]

\* getEvent, when the page opens or fetches again
OpenPage(w) ==
    LET shown == [Free EXCEPT !.pc = "page", !.seen = Sight(event), !.empty = signups = <<>>] IN
    /\ At(w, "idle") \/ At(w, "page")
    /\ event.there /\ desk[w] # shown
    /\ Become(w, shown)
    /\ UNCHANGED <<club, issued, deeds, clock, raced>>

\* "Save changes" sends the whole form: the model and the date its user chose, or
\* those the event had when the page was opened
Saves == [model: Models, status: {Same}, ends: Dates]

\* "Cancel event" or "Restore event", by the status the page shows
Toggled(w) ==
    [NoBody EXCEPT !.status = IF desk[w].seen.status = "cancelled" THEN "published" ELSE "cancelled"]

\* loadScopedEvent, then the checks of the body
PatchRead(w, b) ==
    /\ At(w, "page") /\ event.there /\ deeds < MaxDeeds
    /\ Become(w, [Free EXCEPT !.pc = "patch", !.body = b, !.seen = Sight(event)])
    /\ deeds' = deeds + 1
    /\ UNCHANGED <<club, issued, clock, raced>>

FaultyCode(b, seen) ==      \* a code once made is kept
    IF b.model = "invite" /\ seen.code = 0 THEN issued + 1 ELSE event.code

\* decided by the row that was read
Code(b, seen) ==
    IF b.model = "invite" THEN (IF seen.code = 0 THEN issued + 1 ELSE event.code)
    ELSE IF b.model # Same /\ seen.model = "invite" THEN 0 ELSE event.code

Patched(b, seen) ==
    [event EXCEPT
       !.status = IF b.status = Same THEN @ ELSE b.status,
       !.model = IF b.model = Same THEN @ ELSE b.model,
       !.listed = IF b.model = Same THEN @ ELSE b.model # "invite",
       !.code = Code(b, seen),
       !.ends = IF b.ends = 0 THEN @ ELSE b.ends]

\* one UPDATE by id; of a deleted event it changes nothing
Patch(w) ==
    LET b == desk[w].body
        seen == desk[w].seen
    IN
    /\ At(w, "patch") /\ Become(w, Free)
    /\ event' = IF event.there THEN Patched(b, seen) ELSE event
    /\ issued' = IF b.model = "invite" /\ seen.code = 0 THEN issued + 1 ELSE issued
    /\ raced' = (raced \/ (b.model # Same /\ <<seen.model, seen.code>> # <<event.model, event.code>>))
    /\ UNCHANGED <<signups, arriving, deeds, clock>>

\* the delete button is there for an event without signups, and for a super admin
\* when it is cancelled, by what the page shows
CanDelete(w, super) ==
    desk[w].empty \/ (super /\ desk[w].seen.status = "cancelled")

DeleteRead(w, super) ==
    /\ At(w, "page") /\ CanDelete(w, super)
    /\ event.there /\ deeds < MaxDeeds
    /\ Become(w, [Free EXCEPT !.pc = "count", !.seen = Sight(event), !.super = super])
    /\ deeds' = deeds + 1
    /\ UNCHANGED <<club, issued, clock, raced>>

MayDelete(d, n) == n = 0 \/ (d.super /\ d.seen.status = "cancelled")

DeleteCount(w) ==
    /\ At(w, "count")
    /\ Become(w, IF MayDelete(desk[w], Len(signups)) THEN [Free EXCEPT !.pc = "rows"] ELSE Free)
    /\ UNCHANGED <<club, issued, deeds, clock, raced>>

\* the transaction deletes by event, table after table: what came since goes too,
\* or, if a ticket or a check-in came after its table, breaks a foreign key
DeleteRows(w, breaks) ==
    /\ At(w, "rows") /\ Become(w, Free)
    /\ IF breaks THEN UNCHANGED <<event, signups>> ELSE event' = Gone /\ signups' = <<>>
    /\ UNCHANGED <<arriving, issued, deeds, clock, raced>>

\* published and not over, in the words of every query that asks for it
Running == event.there /\ event.status = "published" /\ event.ends >= clock

(***************************************************************************)
(* The guests.                                                             *)
(***************************************************************************)
\* the gate of register: whoever comes has been given the code, if there is one
Open == Running /\ (event.model = "invite" => event.code # 0)

\* created_at is when the transaction begins, not when it commits
RegisterBegin(g) ==
    /\ ~arriving[g].open /\ Open /\ Len(signups) < MaxSignups
    /\ arriving' = [arriving EXCEPT ![g] = [open |-> TRUE, at |-> clock,
                                            pending |-> event.model = "approval"]]
    /\ UNCHANGED <<event, signups, desk, issued, deeds, clock, raced>>

\* the foreign key refuses a signup for an event that is gone
RegisterCommit(g) ==
    /\ arriving[g].open
    /\ signups' = IF event.there /\ Len(signups) < MaxSignups
                  THEN Append(signups, [status |-> IF arriving[g].pending THEN "pending" ELSE "decided",
                                        at |-> arriving[g].at, escalated |-> FALSE])
                  ELSE signups
    /\ arriving' = [arriving EXCEPT ![g] = Away]
    /\ UNCHANGED <<event, desk, issued, deeds, clock, raced>>

\* approve, decline and cancel, see Registrations
Settle(i, s) ==
    /\ signups[i].status \in {"pending", "decided"} \ {s}
    /\ signups' = [signups EXCEPT ![i].status = s]
    /\ UNCHANGED <<event, arriving, desk, issued, deeds, clock, raced>>

Pass ==
    /\ clock < MaxTime /\ clock' = clock + 1
    /\ UNCHANGED <<club, desk, issued, deeds, raced>>

\* "Publish": the form of CreateEventPage offers every model
EInit ==
    /\ \E m \in Models, ends \in Dates : event = Created(m, ends)
    /\ issued = event.code
    /\ signups = <<>> /\ arriving = [g \in Guests |-> Away] /\ desk = [w \in Workers |-> Free]
    /\ deeds = 0 /\ clock = 1 /\ raced = FALSE

Organizing ==
    \E w \in Workers :
        \/ OpenPage(w)
        \/ \E b \in Saves \cup {Toggled(w)} : PatchRead(w, b)
        \/ Patch(w)
        \/ \E super \in BOOLEAN : DeleteRead(w, super)
        \/ DeleteCount(w)
        \/ \E breaks \in BOOLEAN : DeleteRows(w, breaks)

ENext ==
    \/ Organizing
    \/ \E g \in Guests : RegisterBegin(g) \/ RegisterCommit(g)
    \/ \E i \in DOMAIN signups, s \in {"decided", "cancelled"} : Settle(i, s)
    \/ Pass

EventsSpec == EInit /\ [][ENext]_evars
-----------------------------------------------------------------------------
(***************************************************************************)
(* Properties.                                                             *)
(***************************************************************************)
\* Every variable keeps its type.
TypeOK ==
    /\ event \in Rows /\ signups \in Seq(Signups) /\ arriving \in [Guests -> Arrivals]
    /\ desk \in [Workers -> Desks] /\ {issued, deeds, clock} \subseteq Nat /\ raced \in BOOLEAN

\* Whatever PATCHes and deletions overlap, an event is listed unless it is for the
\* invited only.  Such an event has a code, and any other has none a former guest
\* could still use, unless one PATCH changed the model between another's read and
\* its write.
InviteGate ==
    event.there =>
        /\ event.listed = (event.model # "invite")
        /\ raced \/ (event.model = "invite") = (event.code # 0)
=============================================================================
