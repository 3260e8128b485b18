------------------------------ MODULE Dashboard ------------------------------
(***************************************************************************)
(* The organizer's dashboard: a page that shows a copy of the signups,     *)
(* fetched every 30 seconds, and changes the copy itself as soon as the    *)
(* organizer approves or declines somebody, before the API has answered.   *)
(* A decision that fails puts back the copy from before the click; every   *)
(* decision that ends, well or badly, is followed by a fetch.              *)
(*                                                                         *)
(* The API decides in two steps, the read of the signup and the update     *)
(* under the event's lock; what the two do to tickets and to the waitlist  *)
(* is in Registrations.  A signup that is made again is a new row with a   *)
(* new id, and the buttons of the old one address a row that is gone.      *)
(*                                                                         *)
(* Left out: search, paging, open rows, which change nothing but the view, *)
(* and the other columns of the guest list.                                *)
(***************************************************************************)
EXTENDS Integers

CONSTANTS
    Guests,
    Pages,        \* dashboards of the event open in some browser
    Clicks,       \* decisions under way at a time
    MaxChanges,   \* bound: after so many changes nobody starts another
    MaxLosses     \* bound: requests or answers the network loses

ASSUME DashboardAssumption == MaxChanges \in Nat /\ MaxLosses \in Nat

VARIABLES
    rows,     \* registrations: the signup of each guest
    now,      \* how often they have changed
    page,     \* what each page shows and fetches
    click,    \* decisions on their way
    losses

db == <<rows, now>>
dashboard == <<rows, now, page, click, losses>>

Statuses == {"none", "pending", "approved", "declined", "cancelled"}
Removed == {"declined", "cancelled"}
Signups == [status: Statuses, id: Nat]
\* asOf and guess are history: when the API read it, and whether the page has
\* changed it since
Copies == [rows: [Guests -> Signups], asOf: Nat, guess: BOOLEAN]

\* the answer of the dashboard endpoint.  The definitions called Faulty... are wrong
\* on purpose and stand in for the one below them when a property is tested.
FaultyCopy ==                 \* leaves removed signups out
    [rows |-> [g \in {h \in Guests : rows[h].status \notin Removed} |-> rows[g]],
     asOf |-> now, guess |-> FALSE]

Copy == [rows |-> rows, asOf |-> now, guess |-> FALSE]

\* before the first fetch
Empty == [g \in Guests |-> [status |-> "none", id |-> 0]]
Blank == [rows |-> Empty, asOf |-> 0, guess |-> FALSE]

Change(g, signup) ==
    /\ now' = now + 1
    /\ rows' = [rows EXCEPT ![g] = signup]

\* settled is history: when the last decision of the page ended
Screens == [data: Copies, fetch: {"none", "sent", "answered"},
            answer: Copies, failed: BOOLEAN, settled: Nat]

\* unheard: the page no longer waits for the answer
Free == [pc |-> "idle"]
Decisions == [pc: {"sent", "locking", "ok", "refused"}, unheard: BOOLEAN,
              at: Pages, guest: Guests, id: Nat, to: {"approved", "declined"}, prev: Copies]

Awaiting(p) == {c \in Clicks : click[c] # Free /\ click[c].at = p /\ ~ click[c].unheard}

\* the API has decided, and tells the page if it still waits
Tell(c, answer) ==
    click' = [click EXCEPT ![c] = IF @.unheard THEN Free ELSE [@ EXCEPT !.pc = answer]]

(***************************************************************************)
(* The API, for the page and for everybody else.                           *)
(***************************************************************************)
\* register deletes a signup that was cancelled or declined and makes another
SignUp(g) ==
    /\ rows[g].status \in Removed \cup {"none"} /\ now < MaxChanges
    /\ Change(g, [status |-> "pending", id |-> rows[g].id + 1])
    /\ UNCHANGED <<page, click, losses>>

\* a guest cancels, or another organizer decides
Elsewhere(g) ==
    /\ now < MaxChanges
    /\ \E s \in {"approved", "declined", "cancelled"} :
          /\ rows[g].status \notin Removed \cup {"none", s}
          /\ Change(g, [rows[g] EXCEPT !.status = s])
    /\ UNCHANGED <<page, click, losses>>

\* approve refuses a removed signup and leaves an approved one; decline leaves
\* a removed one; a row that is gone is not found
Consider(c) ==
    LET d == click[c]  row == rows[d.guest] IN
    /\ d # Free /\ d.pc = "sent"
    /\ \/ /\ row.id # d.id \/ (d.to = "approved" /\ row.status \in Removed)
          /\ Tell(c, "refused")
       \/ /\ row.id = d.id
          /\ \/ d.to = "approved" /\ row.status = "approved"
             \/ d.to = "declined" /\ row.status \in Removed
          /\ Tell(c, "ok")
       \/ /\ row.id = d.id
          /\ \/ d.to = "approved" /\ row.status = "pending"
             \/ d.to = "declined" /\ row.status \in {"pending", "approved"}
          /\ click' = [click EXCEPT ![c].pc = "locking"]
    /\ UNCHANGED <<db, page, losses>>

\* The update goes by id, whatever the status has become meanwhile.  A decline of a
\* row that is gone changes none and is ok.  An approval inserts a ticket too, which
\* fails for a row that is gone and for one that has a ticket: an approved one, and
\* a removed one that was approved before.
Commit(c) ==
    LET d == click[c]  row == rows[d.guest] IN
    /\ d # Free /\ d.pc = "locking"
    /\ \/ /\ row.id = d.id /\ row.status # d.to
          /\ Change(d.guest, [row EXCEPT !.status = d.to])
          /\ Tell(c, "ok")
       \/ /\ d.to = "declined" /\ (row.id # d.id \/ row.status = "declined")
          /\ Tell(c, "ok") /\ UNCHANGED db
       \/ /\ d.to = "approved" /\ (row.id # d.id \/ row.status # "pending")
          /\ Tell(c, "refused") /\ UNCHANGED db
    /\ UNCHANGED <<page, losses>>

(***************************************************************************)
(* The page.                                                               *)
(***************************************************************************)
Patched(data, g, to) == [data EXCEPT !.rows[g].status = to, !.guess = TRUE]

\* onMutate: the fetch under way is cancelled, the copy is kept and changed
ClickDecision(p, c, g) ==
    /\ click[c] = Free /\ now < MaxChanges
    /\ page[p].data.rows[g].status = "pending"
    /\ \E to \in {"approved", "declined"} :
          /\ click' = [click EXCEPT ![c] =
                [pc |-> "sent", unheard |-> FALSE, at |-> p, guest |-> g,
                 id |-> page[p].data.rows[g].id, to |-> to, prev |-> page[p].data]]
          /\ page' = [page EXCEPT ![p].fetch = "none", ![p].answer = Blank,
                                  ![p].data = Patched(page[p].data, g, to)]
    /\ UNCHANGED <<db, losses>>

FaultySettled(s, data) ==     \* a fetch under way is taken for the one that is due
    [s EXCEPT !.data = data, !.settled = now,
              !.fetch = IF s.fetch = "none" THEN "sent" ELSE s.fetch]

\* onSettled: a fetch under way is dropped and a new one starts
Settled(s, data) ==
    [s EXCEPT !.data = data, !.settled = now,
              !.fetch = "sent", !.answer = Blank]

Answered(c) ==
    LET d == click[c] IN
    /\ d # Free /\ d.pc \in {"ok", "refused"}
    /\ page' = [page EXCEPT ![d.at] =
                  Settled(@, IF d.pc = "ok" THEN @.data ELSE d.prev)]
    /\ click' = [click EXCEPT ![c] = Free]
    /\ UNCHANGED <<db, losses>>

\* the connection fails: the page gives up, the API does not
Unheard(c) ==
    LET d == click[c] IN
    /\ d # Free /\ ~ d.unheard /\ losses < MaxLosses
    /\ losses' = losses + 1
    /\ page' = [page EXCEPT ![d.at] = Settled(@, d.prev)]
    /\ click' = [click EXCEPT ![c] = IF d.pc \in {"ok", "refused"} THEN Free
                                     ELSE [d EXCEPT !.unheard = TRUE]]
    /\ UNCHANGED db

\* the decision never reached the API
NeverSent(c) ==
    /\ click[c] # Free /\ click[c].pc = "sent" /\ click[c].unheard
    /\ click' = [click EXCEPT ![c] = Free]
    /\ UNCHANGED <<db, page, losses>>

\* refetchInterval; a fetch under way is joined
Poll(p) ==
    /\ page[p].fetch = "none"
    /\ page' = [page EXCEPT ![p].fetch = "sent"]
    /\ UNCHANGED <<db, click, losses>>

FetchRead(p) ==
    /\ page[p].fetch = "sent"
    /\ page' = [page EXCEPT ![p].fetch = "answered", ![p].answer = Copy]
    /\ UNCHANGED <<db, click, losses>>

FaultyFetchArrives(p) ==      \* what the page shows as decided stays
    LET data == page[p].data  answer == page[p].answer IN
    /\ page[p].fetch = "answered"
    /\ page' = [page EXCEPT ![p].fetch = "none", ![p].answer = Blank, ![p].failed = FALSE,
                  ![p].data = [answer EXCEPT !.rows =
                     [g \in Guests |-> IF data.rows[g].status \in {"approved", "declined"}
                                      THEN data.rows[g] ELSE answer.rows[g]]]]
    /\ UNCHANGED <<db, click, losses>>

FetchArrives(p) ==
    /\ page[p].fetch = "answered"
    /\ page' = [page EXCEPT ![p].fetch = "none", ![p].answer = Blank,
                            ![p].failed = FALSE, ![p].data = page[p].answer]
    /\ UNCHANGED <<db, click, losses>>

FetchFails(p) ==
    /\ page[p].fetch # "none" /\ losses < MaxLosses
    /\ losses' = losses + 1
    /\ page' = [page EXCEPT ![p].fetch = "none", ![p].answer = Blank,
                            ![p].failed = TRUE]
    /\ UNCHANGED <<db, click>>

-----------------------------------------------------------------------------
DashboardInit ==
    /\ rows = Empty
    /\ now = 0
    /\ page = [p \in Pages |->
                 [data |-> Blank, fetch |-> "none", answer |-> Blank, failed |-> FALSE, settled |-> 0]]
    /\ click = [c \in Clicks |-> Free]
    /\ losses = 0

Decide(c) == Consider(c) \/ Commit(c)
Fetch(p) == FetchRead(p) \/ FetchArrives(p)

DashboardNext ==
    \/ \E g \in Guests : SignUp(g) \/ Elsewhere(g)
    \/ \E c \in Clicks : Decide(c) \/ Answered(c) \/ Unheard(c) \/ NeverSent(c)
    \/ \E p \in Pages, c \in Clicks, g \in Guests : ClickDecision(p, c, g)
    \/ \E p \in Pages : Poll(p) \/ Fetch(p) \/ FetchFails(p)

\* The API answers and the page polls as long as it is open; a fetch is dropped by
\* a click, and nobody clicks within the milliseconds of every fetch for ever.
\* Nobody has to sign up or to click.
DashboardSpec ==
    /\ DashboardInit /\ [][DashboardNext]_dashboard
    /\ \A c \in Clicks : WF_dashboard(Decide(c)) /\ WF_dashboard(Answered(c)) /\ WF_dashboard(NeverSent(c))
    /\ \A p \in Pages : WF_dashboard(Poll(p)) /\ SF_dashboard(FetchRead(p)) /\ SF_dashboard(FetchArrives(p))

-----------------------------------------------------------------------------
\* Types of the variables.
DashboardTypeOK ==
    /\ rows \in [Guests -> Signups]
    /\ now \in Nat
    /\ page \in [Pages -> Screens]
    /\ click \in [Clicks -> Decisions \cup {Free}]
    /\ losses \in 0 .. MaxLosses

AtRest(p) == page[p].fetch = "none" /\ ~ page[p].failed /\ Awaiting(p) = {}

\* The variables keep their types, and a page at rest shows what the API had, no older than the end of the page's
\* own last decision: however decisions, their rollbacks and fetches overlap, no
\* guess survives and no decision is seen undone.
ReadsOwnDecisions ==
    DashboardTypeOK /\ \A p \in Pages : AtRest(p) =>
        /\ ~ page[p].data.guess
        /\ page[p].data.asOf >= page[p].settled

\* Every page shows the signups as they are again and again, whatever was lost or
\* rolled back.
ScreenCatchesUp == \A p \in Pages : []<>(page[p].data.rows = rows)
=============================================================================
