-------------------------------- MODULE Access --------------------------------
(***************************************************************************)
(* Who gets to see an event: the gate that events.get, events.register     *)
(* (routes/router.ts) and the two calendar routes (server.ts) put before   *)
(* an invite-only event, the bucket that throttles guesses of its code,    *)
(* the guest's page, which asks through that gate (EventPage.tsx), and the *)
(* list of events and the club's calendar, which have no gate but leave    *)
(* out what is not listed (events.list, /api/calendar.ics, BrowsePage).    *)
(*                                                                         *)
(* Each statement of a handler is a step.  All guests share one network    *)
(* address, so one bucket.  Left out: organizers of the event (they pass   *)
(* every gate), drafts, visitors who are not signed in (they hold nothing, *)
(* like a guest before signing up), the texts and questions served.        *)
(***************************************************************************)
EXTENDS Integers, FiniteSets

CONSTANTS
    Guests,
    Codes,          \* invite codes
    None,           \* no code, nobody
    Workers,        \* requests in flight
    Limit,          \* wrong codes per window: 20
    Window,         \* of the bucket: 10 minutes
    MaxCalls,       \* bound on requests
    MaxDeeds,       \* bound on what organizers and hosts do meanwhile
    MaxTime         \* bound on the clock

ASSUME AccessAssumption ==
    /\ None \notin Codes \cup Guests
    /\ {Limit, Window} \subseteq Nat \ {0}
    /\ {MaxCalls, MaxDeeds, MaxTime} \subseteq Nat

VARIABLES
    event,      \* the row of the event
    signup,     \* the registration of each guest
    pass,       \* the ticket of that registration
    plusOne,    \* the +1 ticket each guest claimed from a host
    bucket,     \* inviteFails
    judged,     \* history: codes found wrong since the bucket was opened
    clock,
    req,        \* what each request is doing
    page,       \* the event page of each guest
    calls, deeds

club == <<event, signup, pass, plusOne>>
guard == <<bucket, judged, clock>>
vars == <<club, guard, req, page, calls, deeds>>

\* listed is model # "invite": updateEvent and createEvent write them together.
\* Two PATCHes of the model may leave an invite-only event without a code
Events ==
    {e \in [model: {"open", "invite"}, status: {"published", "cancelled"}, code: Codes \cup {None}] :
        e.model = "open" => e.code = None}
Signups == {"none", "pending", "approved", "removed"}
Passes == {"none", "live", "revoked"}
Buckets == [count: Nat, resetAt: Nat]
Empty == [count |-> 0, resetAt |-> 0]       \* no entry: it is over at any time

\* typed is the code in the page's query, due a fetch it has yet to send.
\* told and stuck are history: the guest was told of the signup and still has it;
\* a fetch was given up
Pages == [typed: Codes \cup {None}, shows: {"nothing", "gate", "form", "signup"},
          due: BOOLEAN, busy: BOOLEAN, told: BOOLEAN, stuck: BOOLEAN]

Kinds == {"page", "calendar", "register", "browse"}
\* fit and kept are history: whether the caller was entitled at some moment since
\* the request began, and by which titles all the time.  stale: nobody waits for it
Requests ==
    [pc: {"idle", "row", "signup", "passes", "gate", "save", "answer"},
     kind: Kinds, who: Guests \cup {None}, code: Codes \cup {None}, seen: Events,
     mine: BOOLEAN, holds: BOOLEAN, granted: BOOLEAN, stale: BOOLEAN,
     fit: BOOLEAN, kept: SUBSET {"signup", "pass", "plusOne"}]

At(w, pc) == req[w].pc = pc
Busy(w) == ~At(w, "idle")
Idle == [pc |-> "idle", kind |-> "page", who |-> None, code |-> None,
         seen |-> [model |-> "open", status |-> "published", code |-> None],
         mine |-> FALSE, holds |-> FALSE, granted |-> FALSE, stale |-> FALSE,
         fit |-> FALSE, kept |-> {}]

Live(g) == signup[g] \in {"pending", "approved"}
Opens(e, c) == e.code # None /\ c = e.code

Now == [event |-> event, signup |-> signup, pass |-> pass, plusOne |-> plusOne]

\* what lets a guest see the event without its code, in a state s of the club
Titles(s, kind, g) ==
    CASE kind \in {"register", "browse"} -> {}
      [] kind = "calendar" -> {t \in {"pass", "plusOne"} : s[t][g] = "live"}
      [] kind = "page" -> {t \in {"pass", "plusOne"} : s[t][g] = "live"}
                             \cup {t \in {"signup"} : s[t][g] \in {"pending", "approved"}}

Entitled(s, kind, g, c) ==
    s.event.model # "invite" \/ Opens(s.event, c) \/ Titles(s, kind, g) # {}

\* the requests in flight live through the change to s
Witnessed(r, s) ==
    IF r.pc = "idle" THEN r
    ELSE [r EXCEPT !.fit = @ \/ Entitled(s, r.kind, r.who, r.code),
                   !.kept = @ \cap Titles(s, r.kind, r.who)]
Meanwhile == req' = [w \in Workers |-> Witnessed(req[w], Now')]

Init ==
    /\ event \in {e \in Events : e.status = "published" /\ (e.model = "invite" => e.code # None)}
    /\ signup = [g \in Guests |-> "none"]
    /\ pass = [g \in Guests |-> "none"] /\ plusOne = [g \in Guests |-> "none"]
    /\ bucket = Empty /\ judged = 0 /\ clock = 1
    /\ req = [w \in Workers |-> Idle]
    /\ page = [g \in Guests |-> [typed |-> None, shows |-> "nothing", due |-> TRUE, busy |-> FALSE,
                                 told |-> FALSE, stuck |-> FALSE]]
    /\ calls = 0 /\ deeds = 0

(***************************************************************************)
(* The bucket.  The definitions called Faulty... are wrong on purpose and  *)
(* stand in for the one below them when a property is tested.              *)
(***************************************************************************)
FaultyExceeded == bucket.resetAt > clock /\ bucket.count > Limit

\* inviteAttemptsExceeded
Exceeded == bucket.resetAt > clock /\ bucket.count >= Limit

\* recordInviteFail
Fresh == bucket = Empty \/ bucket.resetAt < clock
Bumped == IF Fresh THEN [count |-> 1, resetAt |-> clock + Window] ELSE [bucket EXCEPT !.count = @ + 1]

\* the interval that forgets buckets
Sweep ==
    /\ bucket # Empty /\ bucket.resetAt < clock
    /\ bucket' = Empty /\ judged' = 0
    /\ UNCHANGED <<club, clock, req, page, calls, deeds>>

(***************************************************************************)
(* The handlers.                                                           *)
(***************************************************************************)
Send(w, kind, g, c) ==
    /\ At(w, "idle") /\ calls < MaxCalls
    /\ calls' = calls + 1
    /\ req' = [req EXCEPT ![w] = [Idle EXCEPT !.pc = "row", !.kind = kind, !.who = g, !.code = c,
                                  !.fit = Entitled(Now, kind, g, c), !.kept = Titles(Now, kind, g)]]

\* what the list selects, and the club's calendar, which is this one statement
Listed == event.model # "invite" /\ event.status = "published"

\* a cancelled event has a page, but neither calendar nor signups; the page looks
\* for a signup first, the calendar for passes, the signup for nothing
ReadEvent(w) ==
    LET r == req[w]
        Then == CASE r.kind = "page" -> "signup" [] r.kind = "calendar" -> "passes" [] OTHER -> "gate"
    IN
    /\ At(w, "row") /\ r.kind # "browse"
    /\ req' = [req EXCEPT ![w] = [r EXCEPT !.seen = event,
                 !.pc = IF r.kind # "page" /\ event.status # "published" THEN "answer" ELSE Then]]
    /\ UNCHANGED <<club, guard, page, calls, deeds>>

\* the list: the events, then the caller's signups for them
ReadList(w) ==
    /\ At(w, "row") /\ req[w].kind = "browse"
    /\ req' = [req EXCEPT ![w].granted = Listed, ![w].pc = IF Listed THEN "signup" ELSE "answer"]
    /\ UNCHANGED <<club, guard, page, calls, deeds>>

ListSignup(w) ==
    /\ At(w, "signup") /\ req[w].kind = "browse"
    /\ req' = [req EXCEPT ![w].mine = Live(req[w].who), ![w].pc = "answer"]
    /\ UNCHANGED <<club, guard, page, calls, deeds>>

FaultyMine(g) == signup[g] # "none"     \* a cancelled or declined one is still there

\* myRegistration
Mine(g) == Live(g)

ReadSignup(w) ==
    LET r == req[w] IN
    /\ At(w, "signup") /\ r.kind = "page"
    /\ req' = [req EXCEPT ![w].mine = Mine(r.who),
                          ![w].pc = IF r.seen.model = "invite" /\ ~Mine(r.who) THEN "passes" ELSE "gate"]
    /\ UNCHANGED <<club, guard, page, calls, deeds>>

FaultyHolds(g) == pass[g] = "live"      \* tickets of the guest's own registration

\* userHoldsTicket
Holds(g) == "live" \in {pass[g], plusOne[g]}

ReadPasses(w) ==
    /\ At(w, "passes")
    /\ req' = [req EXCEPT ![w].holds = Holds(req[w].who), ![w].pc = "gate"]
    /\ UNCHANGED <<club, guard, page, calls, deeds>>

Asked(r) == r.seen.model = "invite" /\ ~r.mine /\ ~r.holds
Wrong(r) == ~Opens(r.seen, r.code)
Granted(r) == Asked(r) => ~Exceeded /\ ~Wrong(r)
\* signing up without a code counts, looking without one does not; the calendar
\* also counts what it did not judge
Recorded(r) ==
    /\ Asked(r) /\ Wrong(r)
    /\ r.code # None \/ r.kind = "register"
    /\ ~Exceeded \/ r.kind = "calendar"

\* no await in here: the check, the comparison and the count are one step
Gate(w) ==
    LET r == req[w] IN
    /\ At(w, "gate")
    /\ IF Recorded(r)
       THEN /\ bucket' = Bumped
            /\ judged' = IF Fresh THEN 1 ELSE IF Exceeded THEN judged ELSE judged + 1
       ELSE UNCHANGED <<bucket, judged>>
    /\ req' = [req EXCEPT ![w].granted = Granted(r),
                          ![w].pc = IF r.kind = "register" /\ Granted(r) THEN "save" ELSE "answer"]
    /\ UNCHANGED <<club, clock, page, calls, deeds>>

\* createRegistration: approved with a pass, or to be reviewed or waitlisted; a
\* guest who has a signup is refused
Save(w) ==
    LET g == req[w].who IN
    /\ At(w, "save")
    /\ UNCHANGED <<event, plusOne, guard, page, calls, deeds>>
    /\ \/ Live(g) /\ UNCHANGED <<signup, pass>>
       \/ ~Live(g) /\ signup' = [signup EXCEPT ![g] = "approved"] /\ pass' = [pass EXCEPT ![g] = "live"]
       \/ ~Live(g) /\ signup' = [signup EXCEPT ![g] = "pending"] /\ UNCHANGED pass
    /\ req' = [v \in Workers |->
         IF v = w THEN [req[v] EXCEPT !.pc = "answer", !.granted = ~Live(g)] ELSE Witnessed(req[v], Now')]

(***************************************************************************)
(* The page.                                                               *)
(***************************************************************************)
Deserted(g) == [w \in Workers |->
    IF req[w].who = g /\ req[w].kind = "page" /\ Busy(w) THEN [req[w] EXCEPT !.stale = TRUE] ELSE req[w]]

\* another code is another query: nothing of it is known yet
Type(g, c) ==
    /\ page[g].shows = "gate" /\ c # page[g].typed
    /\ page' = [page EXCEPT ![g].typed = c, ![g].shows = "nothing", ![g].due = TRUE]
    /\ req' = Deserted(g)
    /\ UNCHANGED <<club, guard, calls, deeds>>

\* coming back to the page; a fetch under way serves for both
Return(g) ==
    /\ page[g].shows # "nothing" /\ ~page[g].due
    /\ \A w \in Workers : Busy(w) /\ req[w].who = g /\ req[w].kind = "page" => req[w].stale
    /\ page' = [page EXCEPT ![g].due = TRUE]
    /\ UNCHANGED <<club, guard, req, calls, deeds>>

Fetch(w, g) ==
    /\ page[g].due
    /\ Send(w, "page", g, page[g].typed)
    /\ page' = [page EXCEPT ![g].due = FALSE]
    /\ UNCHANGED <<club, guard, deeds>>

AddToCalendar(w, g) ==
    /\ page[g].shows \in {"form", "signup"}
    /\ Send(w, "calendar", g, page[g].typed)
    /\ UNCHANGED <<club, guard, page, deeds>>

Browse(w, g) ==
    /\ Send(w, "browse", g, None)
    /\ UNCHANGED <<club, guard, page, deeds>>

\* a calendar is also fetched by whoever has its address
Guess(w, g, c) ==
    /\ Send(w, "calendar", g, c)
    /\ UNCHANGED <<club, guard, page, deeds>>

\* the button is disabled while one is under way
SignUp(w, g) ==
    /\ page[g].shows = "form" /\ ~page[g].busy
    /\ Send(w, "register", g, page[g].typed)
    /\ page' = [page EXCEPT ![g].busy = TRUE]
    /\ UNCHANGED <<club, guard, deeds>>

Shown(r) ==
    IF ~r.granted THEN "gate" ELSE IF r.mine THEN "signup" ELSE "form"

HearPage(w) ==
    LET r == req[w] IN
    /\ At(w, "answer") /\ r.kind = "page"
    /\ page' = IF r.stale THEN page ELSE [page EXCEPT ![r.who].shows = Shown(r)]
    /\ req' = [req EXCEPT ![w] = Idle]
    /\ UNCHANGED <<club, guard, calls, deeds>>

\* the calendar program, the browse page
HearCalendar(w) ==
    /\ At(w, "answer") /\ req[w].kind \in {"calendar", "browse"}
    /\ req' = [req EXCEPT ![w] = Idle]
    /\ UNCHANGED <<club, guard, page, calls, deeds>>

FaultyInvalidated(g) == req     \* the fetch under way is taken for the new one

\* invalidateQueries: whatever is being fetched is dropped and fetched again
Invalidated(g) == Deserted(g)

HearSignup(w) ==
    LET g == req[w].who IN
    /\ At(w, "answer") /\ req[w].kind = "register"
    /\ page' = [page EXCEPT ![g].busy = FALSE, ![g].due = @ \/ req[w].granted,
                            ![g].told = @ \/ (req[w].granted /\ Live(g))]
    /\ req' = [(IF req[w].granted THEN Invalidated(g) ELSE req) EXCEPT ![w] = Idle]
    /\ UNCHANGED <<club, guard, calls, deeds>>

(***************************************************************************)
(* What happens meanwhile.                                                 *)
(***************************************************************************)
Deed == deeds < MaxDeeds /\ deeds' = deeds + 1

\* updateEvent: any of its rows
Change(e) ==
    /\ Deed /\ e # event /\ event' = e
    /\ UNCHANGED <<signup, pass, plusOne, guard, page, calls>>
    /\ Meanwhile

Approve(g) ==
    /\ Deed /\ signup[g] = "pending"
    /\ signup' = [signup EXCEPT ![g] = "approved"] /\ pass' = [pass EXCEPT ![g] = "live"]
    /\ UNCHANGED <<event, plusOne, guard, page, calls>>
    /\ Meanwhile

\* a decline or a cancellation
Remove(g) ==
    /\ Deed /\ Live(g)
    /\ signup' = [signup EXCEPT ![g] = "removed"]
    /\ pass' = [pass EXCEPT ![g] = IF @ = "live" THEN "revoked" ELSE @]
    /\ page' = [page EXCEPT ![g].told = FALSE]
    /\ UNCHANGED <<event, plusOne, guard, calls>>
    /\ Meanwhile

\* a link of a host is claimed, or the host's place is lost
PlusOne(g) ==
    /\ Deed
    /\ plusOne' \in {[plusOne EXCEPT ![g] = p] : p \in {"live", "revoked"} \ {plusOne[g]}}
    /\ plusOne[g] = "none" => plusOne'[g] = "live"
    /\ UNCHANGED <<event, signup, pass, guard, page, calls>>
    /\ Meanwhile

Tick ==
    /\ clock < MaxTime /\ clock' = clock + 1
    /\ UNCHANGED <<club, bucket, judged, req, page, calls, deeds>>

\* the process dies: its bucket and its requests are gone.  A page asks once
\* more, and may give up; a signup without an answer is reported as an error
Restart ==
    \E Q \in SUBSET {g \in Guests : \E w \in Workers : req[w].who = g /\ Busy(w)
                                        /\ req[w].kind = "page" /\ ~req[w].stale} :
        LET lost == {g \in Guests : \E w \in Workers : req[w].who = g /\ Busy(w)
                                        /\ req[w].kind = "page" /\ ~req[w].stale} IN
        /\ Deed /\ bucket' = Empty /\ judged' = 0
        /\ req' = [w \in Workers |-> Idle]
        /\ page' = [g \in Guests |-> [page[g] EXCEPT !.busy = FALSE, !.due = @ \/ g \in lost \ Q,
                                                     !.stuck = @ \/ g \in Q]]
        /\ UNCHANGED <<club, clock, calls>>

Next ==
    \/ \E w \in Workers :
         \/ ReadEvent(w) \/ ReadList(w) \/ ListSignup(w) \/ ReadSignup(w) \/ ReadPasses(w)
         \/ Gate(w) \/ Save(w)
         \/ HearPage(w) \/ HearCalendar(w) \/ HearSignup(w)
    \/ \E w \in Workers, g \in Guests :
         \/ Fetch(w, g) \/ AddToCalendar(w, g) \/ SignUp(w, g) \/ Browse(w, g)
         \/ \E c \in Codes : Guess(w, g, c)
    \/ \E g \in Guests :
         \/ Return(g) \/ Approve(g) \/ Remove(g) \/ PlusOne(g)
         \/ \E c \in Codes : Type(g, c)
    \/ \E e \in Events : Change(e)
    \/ Sweep
    \/ Tick
    \/ Restart

Spec == Init /\ [][Next]_vars
-----------------------------------------------------------------------------
(***************************************************************************)
(* Properties.                                                             *)
(***************************************************************************)
\* Types of the variables.
TypeOK ==
    /\ event \in Events /\ signup \in [Guests -> Signups]
    /\ pass \in [Guests -> Passes] /\ plusOne \in [Guests -> Passes]
    /\ bucket \in Buckets /\ {judged, clock, calls, deeds} \subseteq Nat
    /\ req \in [Workers -> Requests] /\ page \in [Guests -> Pages]

\* The variables keep their types, and the details of an event, its calendar and a
\* place at it go only to somebody who was entitled at some moment of the request,
\* and the lists name it only if it was open then, however the event, the signup
\* and the passes change between the statements.
GateHolds ==
    TypeOK /\ \A w \in Workers :
        (At(w, "answer") \/ At(w, "save")) /\ req[w].granted => req[w].fit

\* Until its bucket is over, an address gets Limit codes judged and no more, over
\* all the routes that judge one.
GuessesBounded == bucket.resetAt > clock => judged <= Limit

\* "A holder is never rate-limited out of their own event": whoever keeps a signup
\* or a pass while a request lasts is not turned away, whoever fills the bucket.  For
\* the calendar only a pass counts, as in the code (see Titles).
HolderAdmitted ==
    \A w \in Workers :
        /\ At(w, "answer") /\ ~req[w].granted /\ req[w].kind \in {"page", "calendar"}
        /\ req[w].kind = "page" \/ req[w].seen.status = "published"
        => req[w].kept = {}

\* A guest who was told of the signup and still has it does not look at an empty
\* form, or at the gate, once the page has nothing more to fetch.
OwnSignupShown ==
    \A g \in Guests :
        /\ page[g].told /\ ~page[g].due /\ ~page[g].stuck
        /\ \A w \in Workers : Busy(w) /\ req[w].who = g /\ req[w].kind = "page" => req[w].stale
        => page[g].shows \notin {"form", "gate"}
=============================================================================
