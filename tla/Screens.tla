------------------------------- MODULE Screens -------------------------------
(***************************************************************************)
(* The screens in front of Transfers: the phones at the door, the host's   *)
(* "Your +1 invite" card, and the page a friend claims the +1 on.  Every   *)
(* step of the API below is a step of Transfers, done for a screen that    *)
(* waits for the answer, has given it up, or was closed.                   *)
(*                                                                         *)
(* A screen sends one request at a time because of a flag of its own: the  *)
(* phone's busyRef, and the isPending of the two mutations, which disables *)
(* a button.  Revoking a link has no such flag.  The card is a copy of the *)
(* host's ticket that is fetched when the page opens and after each change *)
(* that the page made with success; nothing else refreshes it.             *)
(*                                                                         *)
(* Left out: the camera, the list of recent scans, the passes a page       *)
(* draws, sign-in.  Several phones are told apart only by what they wait   *)
(* for.                                                                    *)
(***************************************************************************)
EXTENDS Transfers, FiniteSets, FiniteSetsExt

CONSTANTS
    Phones,      \* scanners at the door
    MaxLosses,   \* bound: answers the network loses
    MaxRevokes,  \* bound: clicks on "Revoke +1 link" under way
    MaxDeeds     \* bound: what people do in all

ASSUME ScreensAssumption ==
    /\ Phones \cap (Users \cup {Nobody}) = {}
    /\ IsFiniteSet(Phones) /\ IsFiniteSet(Hosts) /\ IsFiniteSet(Workers)
    /\ MaxLosses \in Nat /\ MaxRevokes \in Nat /\ MaxDeeds \in Nat

VARIABLES
    call,      \* who waits for each request, and how it ended
    phone,     \* what each scanner is doing
    card,      \* the host's page
    visitor,   \* the claim page of each friend
    deeds,
    losses

screens == <<call, phone, card, visitor, deeds, losses>>

NoPass == <<Nobody, "primary">>
Calls == [of: {"phone", "card", "visitor"}, by: Phones \cup Users \cup {Nobody}, ok: BOOLEAN]
NoCall == [of |-> "phone", by |-> Nobody, ok |-> FALSE]
Scanners == [doing: {"ready", "asking", "cooling"}, last: Passes \cup {NoPass}]

\* what tickets.mine says of the +1; a revoked ticket is not listed
Views == [status: LinkStatuses \cup {"gone"}, rotation: 0 .. MaxRotation]
Gone == [status |-> "gone", rotation |-> 0]
View(h) == IF h \in removed THEN Gone ELSE link[h]

\* disowned and doubt are history: the links the host saw revoked, and whether
\* the page stopped waiting for a new link that was still being made
Cards == [shown: Views, fetch: {"none", "sent", "answered"}, answer: Views,
          creating: BOOLEAN, revokes: 0 .. MaxRevokes, done: 0 .. MaxRevokes,
          disowned: SUBSET (0 .. MaxRotation), doubt: BOOLEAN]

\* the link that was sent, and whether the page offers to claim it
Visitors == [from: Hosts \cup {Nobody}, rotation: 0 .. MaxRotation,
             offered: BOOLEAN, claiming: BOOLEAN, won: BOOLEAN]
Nowhere == [from |-> Nobody, rotation |-> 0, offered |-> FALSE, claiming |-> FALSE, won |-> FALSE]

Unused(w) == At(w, "idle") /\ call[w] = NoCall
Ask(w, screen, s) == call' = [call EXCEPT ![w] = [of |-> screen, by |-> s, ok |-> FALSE]]
Asking(screen, s) == {w \in Workers : call[w].by = s /\ call[w].of = screen}
Ends(w, ok) == call' = [call EXCEPT ![w] = IF @.by = Nobody THEN NoCall ELSE [@ EXCEPT !.ok = ok]]
GoesOn == UNCHANGED call
Quiet == UNCHANGED <<phone, card, visitor, deeds, losses>>
Deed == deeds < MaxDeeds /\ deeds' = deeds + 1

(***************************************************************************)
(* The phone.  onDecoded forgets a serial after 4 s; submitCheckin returns *)
(* while another is under way and for 600 ms after it.  The definitions    *)
(* called Faulty... are wrong on purpose, as in Transfers.                 *)
(***************************************************************************)
Seen(d, p) == phone[d].last = p

FaultyMayAsk(d) == TRUE       \* no busyRef

MayAsk(d) == phone[d].doing = "ready"

Scan(d, w, p) ==
    /\ Deed
    /\ ~ Seen(d, p) /\ MayAsk(d) /\ Unused(w)
    /\ ScanTicket(w, p) /\ Ask(w, "phone", d)
    /\ phone' = [phone EXCEPT ![d] = [doing |-> "asking", last |-> p]]
    /\ UNCHANGED <<card, visitor, losses>>

\* a pass that comes while the phone is busy is noted, and not asked about
Glimpse(d, p) ==
    /\ ~ Seen(d, p) /\ ~ MayAsk(d) /\ Exists(p)
    /\ phone' = [phone EXCEPT ![d].last = p]
    /\ UNCHANGED <<vars, call, card, visitor, deeds, losses>>

\* a revoked pass is denied at once
ScanDenied(d, p) ==
    /\ ~ Seen(d, p) /\ MayAsk(d) /\ Exists(p) /\ Revoked(p)
    /\ phone' = [phone EXCEPT ![d] = [doing |-> "cooling", last |-> p]]
    /\ UNCHANGED <<vars, call, card, visitor, deeds, losses>>

\* the passes of an andrew ID that are not revoked, ordered by kind: the text
\* "plus_one" sorts before "primary"
PassesOf(u) == {p \in Passes : /\ ~ Revoked(p)
                               /\ IF p[2] = "primary" THEN Host(p) = u ELSE plus[Host(p)].by = u}
Found(u) ==
    LET guest == {p \in PassesOf(u) : p[2] = "plus_one"}
    IN IF guest # {} THEN guest ELSE PassesOf(u)

LookUp(d, w, u) ==
    /\ Deed
    /\ MayAsk(d) /\ Unused(w)
    /\ \E p \in Found(u) : ScanTicket(w, p)
    /\ Ask(w, "phone", d)
    /\ phone' = [phone EXCEPT ![d].doing = "asking"]
    /\ UNCHANGED <<card, visitor, losses>>

Cool(d) ==
    /\ phone[d].doing = "cooling"
    /\ phone' = [phone EXCEPT ![d].doing = "ready"]
    /\ UNCHANGED <<vars, call, card, visitor, deeds, losses>>

Forget(d) ==
    /\ phone[d].last # NoPass
    /\ phone' = [phone EXCEPT ![d].last = NoPass]
    /\ UNCHANGED <<vars, call, card, visitor, deeds, losses>>

(***************************************************************************)
(* The host's card.                                                        *)
(***************************************************************************)
\* the page is opened, or opened again: a mutation under way is not waited for
Visit(h) ==
    /\ card' = [card EXCEPT ![h].fetch = IF @ = "none" THEN "sent" ELSE @,
                            ![h].creating = FALSE,
                            ![h].doubt = @ \/ card[h].creating]
    /\ UNCHANGED <<vars, call, phone, visitor, deeds, losses>>

FetchRead(h) ==
    /\ card[h].fetch = "sent"
    /\ card' = [card EXCEPT ![h].fetch = "answered", ![h].answer = View(h)]
    /\ UNCHANGED <<vars, call, phone, visitor, deeds, losses>>

FetchArrives(h) ==
    LET v == card[h].answer IN
    /\ card[h].fetch = "answered"
    /\ card' = [card EXCEPT ![h].fetch = "none", ![h].answer = Gone, ![h].shown = v,
                  ![h].disowned = IF v.status = "revoked" THEN @ \cup {v.rotation} ELSE @]
    /\ UNCHANGED <<vars, call, phone, visitor, deeds, losses>>

FetchFails(h) ==
    /\ card[h].fetch # "none" /\ losses < MaxLosses
    /\ losses' = losses + 1
    /\ card' = [card EXCEPT ![h].fetch = "none", ![h].answer = Gone]
    /\ UNCHANGED <<vars, call, phone, visitor, deeds>>

\* onSuccess: a fetch under way is dropped and a new one sent
Invalidated(c) == [c EXCEPT !.fetch = "sent", !.answer = Gone]

FaultyMayCreate(c) ==         \* the button stays enabled
    c.shown.status \in {"none", "revoked"}

\* "Get my +1 link", "Create a new +1 link"
MayCreate(c) == c.shown.status \in {"none", "revoked"} /\ ~ c.creating

Create(h, w) ==
    /\ Deed
    /\ MayCreate(card[h]) /\ Unused(w)
    /\ EnsureStart(w, h) /\ Ask(w, "card", h)
    /\ card' = [card EXCEPT ![h].creating = TRUE]
    /\ UNCHANGED <<phone, visitor, losses>>

\* "Revoke +1 link": clicked, done by the API, answered
ClickRevoke(h) ==
    /\ Deed
    /\ card[h].shown.status = "active"
    /\ card[h].revokes + card[h].done < MaxRevokes
    /\ card' = [card EXCEPT ![h].revokes = @ + 1]
    /\ UNCHANGED <<vars, call, phone, visitor, losses>>

Revoke(h) ==
    /\ card[h].revokes > 0
    /\ RevokeLink(h)
    /\ card' = [card EXCEPT ![h].revokes = @ - 1, ![h].done = @ + 1]
    /\ UNCHANGED <<call, phone, visitor, deeds, losses>>

RevokeHeard(h) ==
    /\ card[h].done > 0
    /\ card' = [card EXCEPT ![h] = Invalidated([card[h] EXCEPT !.done = @ - 1])]
    /\ UNCHANGED <<vars, call, phone, visitor, deeds, losses>>

(***************************************************************************)
(* The claim page.                                                         *)
(***************************************************************************)
\* somebody opens the link the card shows, the host too, who cannot claim it; an
\* earlier page of theirs is closed
Open(h, u) ==
    /\ Deed
    /\ card[h].shown.status = "active"
    /\ <<visitor[u].from, visitor[u].rotation>> # <<h, card[h].shown.rotation>>
    /\ visitor' = [visitor EXCEPT ![u] =
                     [Nowhere EXCEPT !.from = h, !.rotation = card[h].shown.rotation]]
    /\ call' = [w \in Workers |-> IF w \in Asking("visitor", u) THEN NoCall ELSE call[w]]
    /\ UNCHANGED <<vars, phone, card, losses>>

\* the signature of a link covers its rotation
Signed(v) == v.from # Nobody /\ link[v.from].rotation = v.rotation

\* transferPreview, asked once
Preview(u) ==
    /\ ~ visitor[u].offered
    /\ Signed(visitor[u]) /\ link[visitor[u].from].status = "active"
    /\ visitor' = [visitor EXCEPT ![u].offered = TRUE]
    /\ UNCHANGED <<vars, call, phone, card, deeds, losses>>

MayClaim(v) == v.offered /\ ~ v.claiming /\ ~ v.won

\* a link that was renewed meanwhile is refused at once
Claim(u, w) ==
    /\ Deed
    /\ MayClaim(visitor[u]) /\ Signed(visitor[u]) /\ Unused(w)
    /\ ClaimParse(w, u, visitor[u].from) /\ Ask(w, "visitor", u)
    /\ visitor' = [visitor EXCEPT ![u].claiming = TRUE]
    /\ UNCHANGED <<phone, card, losses>>

(***************************************************************************)
(* The API, as in Transfers, and how its requests end.                     *)
(***************************************************************************)
CreateGoesOn(w) ==
    LET h == req[w].host IN
    /\ \/ /\ EnsureRead(w)
          /\ IF req'[w] = Idle THEN Ends(w, link[h].status = "active") ELSE GoesOn
       \/ EnsureInsert(w) /\ Ends(w, link[h].status = "none")
       \/ EnsureRotate(w) /\ Ends(w, TRUE)
    /\ Quiet

FaultyTaken(h) == FALSE       \* a claim that was rolled back is reported as done

Taken(h) == plus[h].by # Nobody

ClaimGoesOn(w) ==
    /\ \/ ClaimRead(w) /\ (IF req'[w] = Idle THEN Ends(w, FALSE) ELSE GoesOn)
       \/ ClaimCommit(w) /\ Ends(w, ~ Taken(req[w].host))
    /\ Quiet

ScanGoesOn(w) ==
    /\ ScanParent(w) \/ ScanSeen(w) \/ ScanEnter(w)
    /\ IF req'[w] = Idle THEN Ends(w, TRUE) ELSE GoesOn
    /\ Quiet

Inside == {p \in Passes : entries[p] > 0}

\* checkinState counts the rows of checkins that say ok
CheckedIn == MapThenSumSet(LAMBDA p : entries[p], Passes)

Dies(w) == Abort(w) /\ Ends(w, FALSE) /\ Quiet

(***************************************************************************)
(* The screen hears the answer, or that there will be none.                *)
(***************************************************************************)
Answered(c, ok, early) ==
    LET free == [c EXCEPT !.creating = FALSE, !.doubt = @ \/ early]
    IN IF ok THEN Invalidated(free) ELSE free

FaultyFreed(s, ok) ==         \* freed where the result is shown, not in the finally
    IF ok THEN [s EXCEPT !.doing = "cooling"] ELSE s

\* whatever became of the request, the phone waits 600 ms more
Freed(s, ok) == [s EXCEPT !.doing = "cooling"]

Told(w, ok) ==
    LET s == call[w].by IN
    CASE call[w].of = "phone" ->
            /\ phone' = [phone EXCEPT ![s] = Freed(@, ok)]
            /\ UNCHANGED <<card, visitor>>
      [] call[w].of = "card" ->
            /\ card' = [card EXCEPT ![s] = Answered(@, ok, ~ At(w, "idle"))]
            /\ UNCHANGED <<phone, visitor>>
      [] call[w].of = "visitor" ->
            /\ visitor' = [visitor EXCEPT ![s].claiming = FALSE, ![s].won = ok]
            /\ UNCHANGED <<phone, card>>

Hear(w) ==
    /\ At(w, "idle") /\ call[w].by # Nobody
    /\ Told(w, call[w].ok)
    /\ call' = [call EXCEPT ![w] = NoCall]
    /\ UNCHANGED <<vars, deeds, losses>>

\* the connection fails; the API goes on
Lose(w) ==
    /\ call[w].by # Nobody /\ losses < MaxLosses
    /\ Told(w, FALSE)
    /\ losses' = losses + 1
    /\ call' = [call EXCEPT ![w] = NoCall]
    /\ UNCHANGED <<vars, deeds>>

-----------------------------------------------------------------------------
ScreensInit ==
    /\ Init
    /\ call = [w \in Workers |-> NoCall]
    /\ phone = [d \in Phones |-> [doing |-> "ready", last |-> NoPass]]
    /\ card = [h \in Hosts |->
                 [shown |-> Gone, fetch |-> "none", answer |-> Gone, creating |-> FALSE,
                  revokes |-> 0, done |-> 0, disowned |-> {}, doubt |-> FALSE]]
    /\ visitor = [u \in Users |-> Nowhere]
    /\ deeds = 0 /\ losses = 0

AtTheDoor(d) ==
    \/ \E p \in Passes : Glimpse(d, p) \/ ScanDenied(d, p) \/ \E w \in Workers : Scan(d, w, p)
    \/ \E w \in Workers, u \in Users : LookUp(d, w, u)
    \/ Cool(d) \/ Forget(d)

OnTheCard(h) ==
    \/ Visit(h) \/ FetchRead(h) \/ FetchArrives(h) \/ FetchFails(h)
    \/ \E w \in Workers : Create(h, w)
    \/ ClickRevoke(h) \/ Revoke(h) \/ RevokeHeard(h)

OnTheClaimPage(u) ==
    \/ \E h \in Hosts : Open(h, u)
    \/ Preview(u)
    \/ \E w \in Workers : Claim(u, w)

InTheApi(w) ==
    CreateGoesOn(w) \/ ClaimGoesOn(w) \/ ScanGoesOn(w) \/ Dies(w) \/ Hear(w) \/ Lose(w)

Elsewhere ==
    /\ Deed
    /\ SetStatus \/ \E h \in Hosts : Remove(h)
    /\ UNCHANGED <<call, phone, card, visitor, losses>>

ScreensNext ==
    \/ \E d \in Phones : AtTheDoor(d)
    \/ \E h \in Hosts : OnTheCard(h)
    \/ \E u \in Users : OnTheClaimPage(u)
    \/ \E w \in Workers : InTheApi(w)
    \/ Elsewhere

ScreensSpec == ScreensInit /\ [][ScreensNext]_<<vars, screens>>

-----------------------------------------------------------------------------
\* Types of all variables, those of Transfers included.
ScreensTypeOK ==
    /\ TypeOK
    /\ call \in [Workers -> Calls]
    /\ phone \in [Phones -> Scanners]
    /\ card \in [Hosts -> Cards]
    /\ visitor \in [Users -> Visitors]
    /\ deeds \in 0 .. MaxDeeds
    /\ losses \in 0 .. MaxLosses

\* The variables keep their types, and a screen that refuses another click or scan because one is under way is waiting
\* for exactly one request, which will be answered or has failed without its
\* knowing yet: no failure leaves the scanner dead or a button disabled.
NobodyWaitsInVain ==
    /\ ScreensTypeOK
    /\ \A d \in Phones : Cardinality(Asking("phone", d)) = IF phone[d].doing = "asking" THEN 1 ELSE 0
    /\ \A h \in Hosts : card[h].creating => Asking("card", h) # {}
    /\ \A u \in Users : Cardinality(Asking("visitor", u)) = IF visitor[u].claiming THEN 1 ELSE 0

\* checkinBySerial alone lets a pass in twice when two scans race; one phone never
\* does it, unless an answer to it was lost.  So "checked in" on the door's page
\* is never below the passes that are in, and above them by such races alone.
OneEntryPerPhone ==
    /\ \A p \in Passes : entries[p] <= Cardinality(Phones) + losses
    /\ CheckedIn >= Cardinality(Inside)
    /\ CheckedIn <= Cardinality(Inside) * (Cardinality(Phones) + losses)

\* A link that the host has seen revoked never works again ("old links die
\* immediately"), however clicks, renewals and claims overlap, as long as the page
\* did not give up waiting for a new link that was still being made.
RevokedStaysDead ==
    \A h \in Hosts : link[h].status = "active" /\ ~ card[h].doubt
                      => link[h].rotation \notin card[h].disowned

\* Whoever was told "It's yours" has the pass, then and later.
WinnersHavePasses ==
    \A u \in Users : visitor[u].won => plus[visitor[u].from].by = u
=============================================================================
