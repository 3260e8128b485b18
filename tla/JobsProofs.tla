------------------------------ MODULE JobsProofs ------------------------------
(***************************************************************************)
(* What the event of Events and the jobs of Jobs keep for every set of     *)
(* organizers, guests, models and callbacks, and for every interval.       *)
(***************************************************************************)
EXTENDS Jobs, TLAPS

\* A deleted event has no signups, and the bound on signups is kept.
Club ==
    /\ ~ event.there => signups = <<>>
    /\ Len(signups) <= MaxSignups

EInv == TypeOK /\ InviteGate /\ Club

-----------------------------------------------------------------------------
\* The records of Events have their types.
LEMMA Records ==
    /\ Free \in Desks /\ Gone \in Rows /\ Away \in Arrivals /\ NoBody \in Bodies
    /\ Saves \subseteq Bodies
    /\ Sight(event) \in Sights \/ event \notin Rows
    /\ \A m \in Models, d \in Dates : Created(m, d) \in Rows
<1> USE EventsAssumption
<1>1. /\ Gone \in Rows /\ Away \in Arrivals /\ NoBody \in Bodies /\ Saves \subseteq Bodies
      /\ Sight(Gone) \in Sights
  BY DEF Gone, Away, NoBody, Same, Saves, Rows, Bodies, Sight, Sights, Statuses, Arrivals
<1>2. Free \in Desks
  BY <1>1 DEF Free, Desks
<1>3. Sight(event) \in Sights \/ event \notin Rows
  BY DEF Sight, Sights, Rows
<1>4. ASSUME NEW m \in Models, NEW d \in Dates PROVE Created(m, d) \in Rows
  <2>1. (m # "invite") \in BOOLEAN
    OBVIOUS
  <2> QED BY <2>1 DEF Created, Rows, Statuses
<1> QED BY <1>1, <1>2, <1>3, <1>4

\* A step of one organizer that leaves the event and its signups alone.
LEMMA DeskStep ==
    ASSUME EInv, NEW w \in Workers, NEW d \in Desks, Become(w, d),
           UNCHANGED <<event, signups, arriving, raced>>,
           issued' \in Nat, deeds' \in Nat, clock' \in Nat
    PROVE  EInv'
<1>1. desk \in [Workers -> Desks]
  BY DEF EInv, TypeOK
<1>2. desk' \in [Workers -> Desks] /\ \A v \in Workers : desk'[v] = IF v = w THEN d ELSE desk[v]
  BY <1>1 DEF Become
<1>3. TypeOK'
  BY <1>2 DEF EInv, TypeOK
<1>4. InviteGate' /\ Club'
  BY DEF EInv, InviteGate, Club
<1> QED BY <1>3, <1>4 DEF EInv

\* A request writes the event or its signups, and its page is closed.
LEMMA ClubStep ==
    ASSUME EInv, NEW w \in Workers, Become(w, Free),
           event' \in Rows, signups' \in Seq(Signups), raced' \in BOOLEAN, issued' \in Nat,
           UNCHANGED <<arriving, deeds, clock>>, InviteGate', Club'
    PROVE  EInv'
<1>1. desk \in [Workers -> Desks] /\ Free \in Desks
  BY Records DEF EInv, TypeOK
<1>2. desk' \in [Workers -> Desks] /\ \A v \in Workers : desk'[v] = IF v = w THEN Free ELSE desk[v]
  BY <1>1 DEF Become
<1>3. TypeOK'
  BY <1>2 DEF EInv, TypeOK
<1> QED BY <1>3 DEF EInv

\* What a PATCH makes of the row that is there.
LEMMA PatchedRow ==
    ASSUME TypeOK, InviteGate, NEW b \in Bodies, NEW seen \in Sights
    PROVE  /\ Patched(b, seen) \in Rows /\ Patched(b, seen).there = event.there
           /\ event.there => Patched(b, seen).listed = (Patched(b, seen).model # "invite")
           /\ event.there /\ ~ raced /\ (b.model = Same \/ (seen.model = event.model /\ seen.code = event.code))
              => (Patched(b, seen).model = "invite") = (Patched(b, seen).code # 0)
<1> USE EventsAssumption
<1> DEFINE p == Patched(b, seen)
<1>1. event \in Rows /\ issued \in Nat /\ Code(b, seen) \in Nat
  BY DEF TypeOK, Code, Rows
<1>2. /\ p.there = event.there /\ p.code = Code(b, seen)
      /\ p.model = IF b.model = Same THEN event.model ELSE b.model
      /\ p.listed = IF b.model = Same THEN event.listed ELSE b.model # "invite"
      /\ p \in Rows
  <2>1. (b.model # "invite") \in BOOLEAN
    OBVIOUS
  <2>2. b.ends \in Nat
    <3>1. b.ends \in Dates \/ b.ends = 0
      BY DEF Bodies
    <3>2. Dates \subseteq Nat
      BY EventsAssumption
    <3>3. CASE b.ends \in Dates
      BY <3>2, <3>3
    <3>4. CASE b.ends = 0
      BY <3>4
    <3> QED BY <3>1, <3>3, <3>4
  <2> QED BY <1>1, <2>1, <2>2 DEF Patched, Rows, Bodies
<1>3. ASSUME event.there PROVE p.listed = (p.model # "invite")
  BY <1>2, <1>3 DEF InviteGate, Same
<1>4. ASSUME event.there, ~ raced, b.model = Same \/ (seen.model = event.model /\ seen.code = event.code)
      PROVE  (p.model = "invite") = (p.code # 0)
  <2>1. (event.model = "invite") = (event.code # 0)
    BY <1>4 DEF InviteGate
  <2>2. CASE b.model = Same
    BY <1>1, <1>2, <2>1, <2>2 DEF Code, Same
  <2>3. CASE b.model = "invite"
    <3>1. b.model # Same /\ seen.code = event.code
      BY <1>4, <2>3 DEF Same
    <3>2. p.model = "invite"
      BY <1>2, <2>3, <3>1
    <3>3. issued + 1 # 0
      BY <1>1
    <3>4. p.code # 0
      BY <1>2, <2>3, <3>1, <3>3 DEF Code
    <3> QED BY <3>2, <3>4
  <2>4. CASE b.model \notin {Same, "invite"}
    <3>1. p.model # "invite" /\ seen.model = event.model
      BY <1>2, <1>4, <2>4
    <3>2. p.code = 0
      BY <1>2, <2>1, <2>4, <3>1 DEF Code
    <3> QED BY <3>1, <3>2
  <2> QED BY <2>2, <2>3, <2>4
<1> QED BY <1>2, <1>3, <1>4

\* An organizer's step.
LEMMA OrganizingStep == EInv /\ Organizing => EInv'
<1> SUFFICES ASSUME EInv, NEW w \in Workers,
                    \/ OpenPage(w)
                    \/ \E b \in Saves \cup {Toggled(w)} : PatchRead(w, b)
                    \/ Patch(w)
                    \/ \E super \in BOOLEAN : DeleteRead(w, super)
                    \/ DeleteCount(w)
                    \/ \E breaks \in BOOLEAN : DeleteRows(w, breaks)
             PROVE  EInv'
  BY DEF Organizing
<1> USE EventsAssumption, Records
<1>0. /\ event \in Rows /\ signups \in Seq(Signups) /\ desk[w] \in Desks
      /\ desk \in [Workers -> Desks]
      /\ issued \in Nat /\ deeds \in Nat /\ deeds + 1 \in Nat /\ clock \in Nat /\ raced \in BOOLEAN
      /\ Sight(event) \in Sights /\ Free \in Desks
  BY DEF EInv, TypeOK
<1>1. CASE OpenPage(w)
  <2>1. PICK d : d = [Free EXCEPT !.pc = "page", !.seen = Sight(event), !.empty = signups = <<>>]
    OBVIOUS
  <2>2. (signups = <<>>) \in BOOLEAN
    OBVIOUS
  <2>3. d \in Desks
    BY <1>0, <2>1, <2>2 DEF Desks
  <2>4. Become(w, d) /\ UNCHANGED <<event, signups, arriving, raced, issued, deeds, clock>>
    BY <1>1, <2>1 DEF OpenPage, club
  <2> QED BY <1>0, <2>3, <2>4, DeskStep
<1>2. ASSUME NEW b \in Saves \cup {Toggled(w)}, PatchRead(w, b) PROVE EInv'
  <2>1. PICK d : d = [Free EXCEPT !.pc = "patch", !.body = b, !.seen = Sight(event)]
    OBVIOUS
  <2>2. b \in Bodies
    BY DEF Toggled, NoBody, Bodies, Statuses
  <2>3. d \in Desks
    BY <1>0, <2>1, <2>2 DEF Desks
  <2>4. Become(w, d) /\ UNCHANGED <<event, signups, arriving, raced, issued, clock>> /\ deeds' = deeds + 1
    BY <1>2, <2>1 DEF PatchRead, club
  <2> QED BY <1>0, <2>3, <2>4, DeskStep
<1>3. CASE Patch(w)
  <2>1. PICK b, seen : b = desk[w].body /\ seen = desk[w].seen /\ b \in Bodies /\ seen \in Sights
    BY <1>0 DEF Desks
  <2>2. /\ Become(w, Free)
        /\ event' = IF event.there THEN Patched(b, seen) ELSE event
        /\ issued' = IF b.model = "invite" /\ seen.code = 0 THEN issued + 1 ELSE issued
        /\ raced' = (raced \/ (b.model # Same /\ <<seen.model, seen.code>> # <<event.model, event.code>>))
        /\ UNCHANGED <<signups, arriving, deeds, clock>>
    BY <1>3, <2>1 DEF Patch
  <2>3. TypeOK /\ InviteGate /\ Club
    BY DEF EInv
  <2>4. event' \in Rows /\ event'.there = event.there /\ issued' \in Nat /\ raced' \in BOOLEAN
    BY <1>0, <2>1, <2>2, <2>3, PatchedRow
  <2>5. InviteGate'
    <3> SUFFICES ASSUME event'.there
                 PROVE  /\ event'.listed = (event'.model # "invite")
                        /\ raced' \/ (event'.model = "invite") = (event'.code # 0)
      BY DEF InviteGate
    <3>1. event.there /\ event' = Patched(b, seen)
      BY <2>2, <2>4
    <3>2. event'.listed = (event'.model # "invite")
      BY <2>1, <2>3, <3>1, PatchedRow
    <3>3. ASSUME ~ raced' PROVE (event'.model = "invite") = (event'.code # 0)
      <4>1. ~ raced /\ (b.model = Same \/ (seen.model = event.model /\ seen.code = event.code))
        BY <2>2, <3>3
      <4> QED BY <2>1, <2>3, <3>1, <4>1, PatchedRow
    <3> QED BY <3>2, <3>3
  <2>6. Club'
    BY <2>2, <2>3, <2>4 DEF Club
  <2> QED BY <1>0, <2>2, <2>4, <2>5, <2>6, ClubStep
<1>4. ASSUME NEW super \in BOOLEAN, DeleteRead(w, super) PROVE EInv'
  <2>1. PICK d : d = [Free EXCEPT !.pc = "count", !.seen = Sight(event), !.super = super]
    OBVIOUS
  <2>2. d \in Desks
    BY <1>0, <2>1 DEF Desks
  <2>3. Become(w, d) /\ UNCHANGED <<event, signups, arriving, raced, issued, clock>> /\ deeds' = deeds + 1
    BY <1>4, <2>1 DEF DeleteRead, club
  <2> QED BY <1>0, <2>2, <2>3, DeskStep
<1>5. CASE DeleteCount(w)
  <2>1. UNCHANGED <<event, signups, arriving, raced, issued, deeds, clock>>
    BY <1>5 DEF DeleteCount, club
  <2>2. PICK d : Become(w, d) /\ (d = Free \/ d = [Free EXCEPT !.pc = "rows"])
    BY <1>5 DEF DeleteCount
  <2>3. d \in Desks
    BY <1>0, <2>2 DEF Desks
  <2> QED BY <1>0, <2>1, <2>2, <2>3, DeskStep
<1>6. ASSUME NEW breaks \in BOOLEAN, DeleteRows(w, breaks) PROVE EInv'
  <2>1. Become(w, Free) /\ UNCHANGED <<arriving, raced, issued, deeds, clock>>
    BY <1>6 DEF DeleteRows
  <2>2. CASE UNCHANGED <<event, signups>>
    BY <1>0, <2>1, <2>2, DeskStep
  <2>3. CASE event' = Gone /\ signups' = <<>>
    <3>1. InviteGate' /\ Club' /\ signups' \in Seq(Signups)
      BY <2>3 DEF InviteGate, Club, Gone
    <3> QED BY <1>0, <2>1, <2>3, <3>1, ClubStep
  <2> QED BY <1>6, <2>2, <2>3 DEF DeleteRows
<1> QED BY <1>1, <1>2, <1>3, <1>4, <1>5, <1>6

\* A step that leaves the event alone and, if there is one, writes its signups.
LEMMA SignupsStep ==
    ASSUME EInv, UNCHANGED <<event, desk, issued, raced>>, arriving' \in [Guests -> Arrivals],
           signups' \in Seq(Signups), Len(signups') <= MaxSignups,
           ~ event.there => signups' = signups, deeds' \in Nat, clock' \in Nat
    PROVE  EInv'
<1>1. TypeOK'
  BY DEF EInv, TypeOK
<1>2. InviteGate' /\ Club'
  BY DEF EInv, InviteGate, Club
<1> QED BY <1>1, <1>2 DEF EInv

\* Some row changes, in place.
LEMMA InPlace ==
    ASSUME NEW s \in Seq(Signups), NEW t, DOMAIN t = DOMAIN s, t = [i \in DOMAIN t |-> t[i]],
           \A i \in DOMAIN s : t[i] \in Signups
    PROVE  t \in Seq(Signups) /\ Len(t) = Len(s)
<1>1. DOMAIN s = 1 .. Len(s) /\ Len(s) \in Nat
  OBVIOUS
<1>2. t \in [1 .. Len(s) -> Signups]
  BY <1>1
<1> QED BY <1>1, <1>2

LEMMA SettleStep ==
    ASSUME EInv, NEW i \in DOMAIN signups, NEW s \in {"decided", "cancelled"}, Settle(i, s)
    PROVE  /\ EInv' /\ UNCHANGED <<event, clock>> /\ DOMAIN signups' = DOMAIN signups
           /\ \A j \in DOMAIN signups :
                /\ signups'[j].at = signups[j].at /\ signups'[j].escalated = signups[j].escalated
                /\ signups'[j].status # "cancelled" => signups[j].status # "cancelled"
<1>1. /\ signups \in Seq(Signups) /\ arriving \in [Guests -> Arrivals] /\ deeds \in Nat /\ clock \in Nat
      /\ Len(signups) <= MaxSignups /\ (~ event.there => signups = <<>>)
  BY DEF EInv, TypeOK, Club
<1>2. /\ signups' = [signups EXCEPT ![i].status = s] /\ signups[i].status # "cancelled"
      /\ UNCHANGED <<event, arriving, desk, issued, deeds, clock, raced>>
  BY DEF Settle
<1>3. \A j \in DOMAIN signups : signups[j] \in Signups
  BY <1>1
<1>4. /\ DOMAIN signups' = DOMAIN signups /\ signups' = [j \in DOMAIN signups' |-> signups'[j]]
      /\ \A j \in DOMAIN signups :
           signups'[j] = IF j = i THEN [signups[j] EXCEPT !.status = s] ELSE signups[j]
  BY <1>2
<1>5. \A j \in DOMAIN signups :
        /\ signups'[j] \in Signups
        /\ signups'[j].at = signups[j].at /\ signups'[j].escalated = signups[j].escalated
        /\ signups'[j].status # "cancelled" => signups[j].status # "cancelled"
  BY <1>2, <1>3, <1>4 DEF Signups
<1>6. signups' \in Seq(Signups) /\ Len(signups') = Len(signups)
  BY <1>1, <1>4, <1>5, InPlace
<1>7. ~ event.there => signups' = signups
  BY <1>1
<1>8. EInv'
  BY <1>1, <1>2, <1>6, <1>7, SignupsStep
<1> QED BY <1>2, <1>4, <1>5, <1>8

\* A signup commits: the list grows by one, unless there is no event.
LEMMA CommitStep ==
    ASSUME EInv, NEW g \in Guests, RegisterCommit(g)
    PROVE  /\ EInv' /\ UNCHANGED <<event, clock>>
           /\ \/ signups' = signups
              \/ \E row \in Signups : /\ row.at = arriving[g].at /\ ~ row.escalated /\ event.there
                                      /\ signups' = Append(signups, row)
<1>1. /\ signups \in Seq(Signups) /\ arriving \in [Guests -> Arrivals] /\ deeds \in Nat /\ clock \in Nat
      /\ Len(signups) <= MaxSignups /\ Away \in Arrivals
  BY Records DEF EInv, TypeOK, Club
<1>2. /\ arriving' = [arriving EXCEPT ![g] = Away]
      /\ UNCHANGED <<event, desk, issued, deeds, clock, raced>>
  BY DEF RegisterCommit
<1>3. arriving' \in [Guests -> Arrivals]
  BY <1>1, <1>2
<1>4. PICK row : row = [status |-> IF arriving[g].pending THEN "pending" ELSE "decided",
                        at |-> arriving[g].at, escalated |-> FALSE]
  OBVIOUS
<1>5. row \in Signups /\ row.at = arriving[g].at /\ ~ row.escalated
  BY <1>1, <1>4 DEF Signups, Arrivals
<1>6. CASE event.there /\ Len(signups) < MaxSignups
  <2>1. signups' = Append(signups, row)
    BY <1>4, <1>6 DEF RegisterCommit
  <2>2. signups' \in Seq(Signups) /\ Len(signups') = Len(signups) + 1 /\ Len(signups) \in Nat
    BY <1>1, <1>5, <2>1
  <2>3. Len(signups') <= MaxSignups
    BY <1>6, <2>2, EventsAssumption
  <2>4. EInv'
    BY <1>1, <1>2, <1>3, <1>6, <2>2, <2>3, SignupsStep
  <2> QED BY <1>2, <1>5, <1>6, <2>1, <2>4
<1>7. CASE ~ (event.there /\ Len(signups) < MaxSignups)
  <2>1. signups' = signups
    BY <1>7 DEF RegisterCommit
  <2>2. EInv'
    BY <1>1, <1>2, <1>3, <2>1, SignupsStep
  <2> QED BY <1>2, <2>1, <2>2
<1> QED BY <1>6, <1>7

LEMMA BeginStep ==
    ASSUME EInv, NEW g \in Guests, RegisterBegin(g)
    PROVE  EInv' /\ UNCHANGED <<event, signups, clock>>
<1>1. /\ signups \in Seq(Signups) /\ arriving \in [Guests -> Arrivals] /\ deeds \in Nat /\ clock \in Nat
      /\ Len(signups) <= MaxSignups
  BY DEF EInv, TypeOK, Club
<1>2. UNCHANGED <<event, signups, desk, issued, deeds, clock, raced>>
  BY DEF RegisterBegin
<1>3. [open |-> TRUE, at |-> clock, pending |-> event.model = "approval"] \in Arrivals
  <2>1. (event.model = "approval") \in BOOLEAN
    OBVIOUS
  <2> QED BY <1>1, <2>1 DEF Arrivals
<1>4. arriving' \in [Guests -> Arrivals]
  BY <1>1, <1>3 DEF RegisterBegin
<1> QED BY <1>1, <1>2, <1>4, SignupsStep

LEMMA PassStep ==
    ASSUME EInv, Pass
    PROVE  EInv' /\ UNCHANGED <<event, signups>> /\ clock' = clock + 1
<1>1. /\ signups \in Seq(Signups) /\ arriving \in [Guests -> Arrivals] /\ deeds \in Nat /\ clock \in Nat
      /\ clock + 1 \in Nat /\ Len(signups) <= MaxSignups
  BY DEF EInv, TypeOK, Club
<1>2. UNCHANGED <<event, signups, arriving, desk, issued, deeds, raced>> /\ clock' = clock + 1
  BY DEF Pass, club
<1> QED BY <1>1, <1>2, SignupsStep

\* What an organizer's step does to the signups.
LEMMA OrganizedSignups ==
    ASSUME EInv, Organizing
    PROVE  /\ UNCHANGED clock /\ (event'.there => event.there)
           /\ signups' = signups \/ (signups' = <<>> /\ ~ event'.there)
<1>1. PICK w \in Workers :
         \/ OpenPage(w)
         \/ \E b \in Saves \cup {Toggled(w)} : PatchRead(w, b)
         \/ Patch(w)
         \/ \E super \in BOOLEAN : DeleteRead(w, super)
         \/ DeleteCount(w)
         \/ \E breaks \in BOOLEAN : DeleteRows(w, breaks)
  BY DEF Organizing
<1>2. CASE Patch(w)
  <2>1. desk[w].body \in Bodies /\ desk[w].seen \in Sights /\ TypeOK /\ InviteGate
    BY DEF EInv, TypeOK, Desks
  <2>2. Patched(desk[w].body, desk[w].seen).there = event.there
    BY <2>1, PatchedRow
  <2> QED BY <1>2, <2>2 DEF Patch
<1>3. CASE \E breaks \in BOOLEAN : DeleteRows(w, breaks)
  BY <1>3 DEF DeleteRows, Gone
<1> QED BY <1>1, <1>2, <1>3 DEF OpenPage, PatchRead, DeleteRead, DeleteCount, club

-----------------------------------------------------------------------------
\* One callback works at a time.
Single == \A t, u \in Ticks : Doing(t, "idle") \/ Doing(u, "idle") \/ t = u

Covered(i) == told[i] > 0 \/ i \in late
Swallows(i, x) == signups[i].at <= x /\ signups[i].status # "cancelled"

\* What a digest has read: no signup up to its instant is left that neither its
\* mail, nor an earlier one, nor history accounts for.
Digesting(t) ==
    /\ tick[t].pc \in {"count", "mail", "advance"} => tick[t].now \in 0 .. clock
    /\ Doing(t, "count") => tick[t].since = lastDigest
    /\ \A i \in DOMAIN signups :
         /\ Doing(t, "mail") /\ Swallows(i, tick[t].now) => i \in tick[t].new \/ Covered(i)
         /\ Doing(t, "advance") /\ Swallows(i, tick[t].now) => Covered(i)

\* What an escalation has read: signups nobody was warned of.
Warning(t) ==
    /\ tick[t].pc \in {"warn", "mark"} =>
         \A i \in tick[t].new : i \in 1 .. MaxSignups /\ (i \in DOMAIN signups \/ ~ event.there)
    /\ Doing(t, "warn") => \A i \in tick[t].new : i \in 1 .. MaxSignups => unmarked \/ warned[i] = 0

Marked(i) ==
    \/ ~ event.there
    \/ i \in DOMAIN signups /\ signups[i].escalated
    \/ \E t \in Ticks : Doing(t, "mark") /\ i \in tick[t].new

Warned(i) == unmarked \/ warned[i] = 0 \/ (warned[i] = 1 /\ Marked(i))

JTypes ==
    /\ lastDigest \in 0 .. clock /\ tick \in [Ticks -> TickStates]
    /\ told \in [1 .. MaxSignups -> Nat] /\ late \subseteq 1 .. MaxSignups
    /\ warned \in [1 .. MaxSignups -> Nat] /\ unsent \subseteq 1 .. MaxSignups /\ unmarked \in BOOLEAN

Swallowed == \A i \in DOMAIN signups : Swallows(i, lastDigest) => Covered(i)

Inv == /\ EInv /\ JTypes /\ Single /\ Swallowed
       /\ \A t \in Ticks : Digesting(t) /\ Warning(t)
       /\ \A i \in 1 .. MaxSignups : Warned(i)

-----------------------------------------------------------------------------
\* A step that leaves the jobs alone: signups are settled, or deleted with the
\* event, and the clock may move on.
LEMMA OthersStep ==
    ASSUME Inv, EInv', UNCHANGED jvars, clock' \in Nat, clock' >= clock,
           event'.there => event.there,
           \/ signups' = <<>> /\ ~ event'.there
           \/ /\ DOMAIN signups' = DOMAIN signups
              /\ \A j \in DOMAIN signups :
                   /\ signups'[j].at = signups[j].at /\ signups'[j].escalated = signups[j].escalated
                   /\ signups'[j].status # "cancelled" => signups[j].status # "cancelled"
    PROVE  Inv'
<1>1. UNCHANGED <<lastDigest, tick, told, late, warned, unsent, unmarked>> /\ clock \in Nat
  BY DEF jvars, history, Inv, EInv, TypeOK
<1>2. JTypes' /\ Single'
  BY <1>1 DEF Inv, JTypes, Single, Doing
<1>3. \A i \in DOMAIN signups' :
        /\ i \in DOMAIN signups /\ signups'[i].escalated = signups[i].escalated
        /\ \A x : Swallows(i, x)' => Swallows(i, x)
        /\ Covered(i)' = Covered(i)
  BY <1>1 DEF Swallows, Covered
<1>4. Swallowed'
  BY <1>1, <1>3 DEF Inv, Swallowed
<1>5. ASSUME NEW t \in Ticks PROVE Digesting(t)'
  <2>1. tick[t].pc \in {"count", "mail", "advance"} => tick'[t].now \in 0 .. clock'
    BY <1>1 DEF Inv, Digesting
  <2> QED BY <1>1, <1>3, <2>1 DEF Inv, Digesting, Doing
<1>6. \A i \in DOMAIN signups : i \in DOMAIN signups' \/ ~ event'.there
  OBVIOUS
<1>7. ASSUME NEW t \in Ticks PROVE Warning(t)'
  BY <1>1, <1>6 DEF Inv, Warning, Doing
<1>8. ASSUME NEW i \in 1 .. MaxSignups PROVE Warned(i)'
  <2>1. Marked(i) => Marked(i)'
    BY <1>1, <1>3, <1>6 DEF Marked, Doing
  <2> QED BY <1>1, <2>1 DEF Inv, Warned
<1> QED BY <1>2, <1>4, <1>5, <1>7, <1>8 DEF Inv

\* A step of the one callback at work, or of one that starts: what is left to show
\* is about that callback and about the signups.
LEMMA TickStep ==
    ASSUME Inv, NEW t \in Ticks, NEW s \in TickStates, Go(t, s), EInv', JTypes',
           \A u \in Ticks : u # t => Doing(u, "idle"),
           Swallowed', Digesting(t)', Warning(t)', \A i \in 1 .. MaxSignups : Warned(i)'
    PROVE  Inv'
<1>1. tick \in [Ticks -> TickStates]
  BY DEF Inv, JTypes
<1>2. tick'[t] = s /\ \A u \in Ticks : u # t => tick'[u].pc = "idle"
  BY <1>1 DEF Go, Doing
<1>3. Single'
  BY <1>2 DEF Single, Doing
<1>4. \A u \in Ticks : u # t => Digesting(u)' /\ Warning(u)'
  BY <1>2 DEF Digesting, Warning, Doing
<1> QED BY <1>3, <1>4 DEF Inv

LEMMA Alone == ASSUME Inv, NEW t \in Ticks, ~ Doing(t, "idle") PROVE \A u \in Ticks : u # t => Doing(u, "idle")
BY DEF Inv, Single

\* What the event keeps when nothing of it changes.
LEMMA Resumed ==
    ASSUME EInv, UNCHANGED evars
    PROVE  EInv'
BY DEF EInv, evars, club, TypeOK, InviteGate, Club

\* A callback reads and goes on: event, digest window and history stay.
LEMMA ReadStep ==
    ASSUME Inv, NEW t \in Ticks, NEW s \in TickStates, Go(t, s),
           UNCHANGED <<evars, lastDigest, history>>,
           \A u \in Ticks : u # t => Doing(u, "idle"),
           ~ Doing(t, "mark"), Digesting(t)', Warning(t)'
    PROVE  Inv'
<1>1. UNCHANGED <<event, signups, clock, lastDigest, told, late, warned, unsent, unmarked>>
  BY DEF evars, club, history
<1>2. tick \in [Ticks -> TickStates] /\ tick' = [tick EXCEPT ![t] = s]
  BY DEF Inv, JTypes, Go
<1>3. JTypes' /\ EInv'
  BY <1>1, <1>2, Resumed DEF Inv, JTypes
<1>4. Swallowed'
  BY <1>1 DEF Inv, Swallowed, Swallows, Covered
<1>5. ASSUME NEW i \in 1 .. MaxSignups PROVE Warned(i)'
  <2>1. Marked(i) => Marked(i)'
    BY <1>1, <1>2 DEF Marked, Doing
  <2> QED BY <1>1, <2>1 DEF Inv, Warned
<1> QED BY <1>3, <1>4, <1>5, TickStep

LEMMA RestingState ==
    /\ Resting \in TickStates /\ Resting.pc = "idle"
    /\ Escalating \in TickStates /\ Escalating.pc = "overdue" /\ Escalating.new = {}
BY DEF Resting, Escalating, TickStates, TickSteps

\* One callback's read, mail or write.
LEMMA AdvanceStep ==
    ASSUME Inv, NEW t \in Ticks, Advance(t)
    PROVE  Inv'
<1> USE RestingState
<1>1. /\ EInv /\ JTypes /\ tick \in [Ticks -> TickStates] /\ tick[t] \in TickStates
      /\ lastDigest \in 0 .. clock /\ clock \in Nat
      /\ signups \in Seq(Signups) /\ Len(signups) <= MaxSignups /\ (~ event.there => signups = <<>>)
      /\ DOMAIN signups \subseteq 1 .. MaxSignups /\ DOMAIN signups \in SUBSET Nat
  <2>1. /\ EInv /\ JTypes /\ tick \in [Ticks -> TickStates] /\ lastDigest \in 0 .. clock /\ clock \in Nat
        /\ signups \in Seq(Signups) /\ Len(signups) <= MaxSignups /\ (~ event.there => signups = <<>>)
    BY DEF Inv, EInv, Club, TypeOK, JTypes
  <2>2. DOMAIN signups \subseteq 1 .. MaxSignups /\ DOMAIN signups \in SUBSET Nat
    BY <2>1, EventsAssumption
  <2> QED BY <2>1, <2>2
<1>2. /\ Digesting(t) /\ Warning(t) /\ Swallowed /\ \A i \in 1 .. MaxSignups : Warned(i)
  BY DEF Inv
<1>3. \A i \in DOMAIN signups : signups[i] \in Signups /\ signups[i].at \in Nat
  <2>1. \A i \in DOMAIN signups : signups[i] \in Signups
    BY <1>1
  <2> QED BY <2>1 DEF Signups
<1>4. CASE Begin(t)
  <2>1. PICK s : s = [Resting EXCEPT !.pc = "digest"]
    OBVIOUS
  <2>2. s \in TickStates /\ s.pc = "digest"
    BY <2>1 DEF Resting, TickStates, TickSteps
  <2>3. Go(t, s) /\ UNCHANGED <<evars, lastDigest, history>> /\ \A u \in Ticks : Doing(u, "idle")
    BY <1>4, <2>1 DEF Begin, Quiet
  <2>4. tick'[t] = s
    BY <1>1, <2>3 DEF Go
  <2>5. Digesting(t)' /\ Warning(t)' /\ ~ Doing(t, "mark")
    BY <2>2, <2>3, <2>4 DEF Digesting, Warning, Doing
  <2> QED BY <2>2, <2>3, <2>5, ReadStep
<1>5. CASE DigestEvents(t)
  <2>0. Doing(t, "digest") /\ UNCHANGED <<evars, lastDigest, history>>
    BY <1>5 DEF DigestEvents
  <2>1. \A u \in Ticks : u # t => Doing(u, "idle")
    BY <2>0, Alone DEF Doing
  <2>2. PICK s : /\ Go(t, s)
                 /\ s = Escalating \/ s = [Resting EXCEPT !.pc = "count", !.now = clock, !.since = lastDigest]
    BY <1>5 DEF DigestEvents
  <2>3. /\ s \in TickStates
        /\ s = Escalating \/ (s.pc = "count" /\ s.now = clock /\ s.since = lastDigest)
    <3>1. clock \in Nat /\ lastDigest \in Nat
      BY <1>1
    <3>2. CASE s = Escalating
      BY <3>2
    <3>3. CASE s = [Resting EXCEPT !.pc = "count", !.now = clock, !.since = lastDigest]
      BY <3>1, <3>3 DEF Resting, TickStates, TickSteps
    <3> QED BY <2>2, <3>2, <3>3
  <2>4. tick'[t] = s
    BY <1>1, <2>2 DEF Go
  <2>5. UNCHANGED <<clock, lastDigest>>
    BY <2>0 DEF evars
  <2>6. clock \in 0 .. clock
    BY <1>1
  <2>7. Digesting(t)' /\ Warning(t)' /\ ~ Doing(t, "mark")
    BY <2>0, <2>3, <2>4, <2>5, <2>6 DEF Digesting, Warning, Doing
  <2> QED BY <2>0, <2>1, <2>2, <2>3, <2>7, ReadStep
<1>6. CASE DigestCount(t)
  <2>0. Doing(t, "count") /\ UNCHANGED <<evars, lastDigest, history>>
    BY <1>6 DEF DigestCount
  <2>1. \A u \in Ticks : u # t => Doing(u, "idle")
    BY <2>0, Alone DEF Doing
  <2>2. PICK new, pending :
          /\ new = {i \in DOMAIN signups : signups[i].at > tick[t].since /\ signups[i].status # "cancelled"}
          /\ pending = {i \in DOMAIN signups : signups[i].status = "pending"}
    OBVIOUS
  <2>3. PICK s : /\ Go(t, s)
                 /\ s = [tick[t] EXCEPT !.new = new, !.pc = IF new \cup pending = {} THEN "advance" ELSE "mail"]
    BY <1>6, <2>2 DEF DigestCount
  <2>4. new \in SUBSET Nat
    BY <1>1, <2>2
  <2>5. /\ s \in TickStates /\ s.now = tick[t].now /\ s.new = new
        /\ s.pc = IF new \cup pending = {} THEN "advance" ELSE "mail"
    BY <1>1, <2>3, <2>4 DEF TickStates, TickSteps
  <2>6. tick'[t] = s
    BY <1>1, <2>3 DEF Go
  <2>7. UNCHANGED <<event, signups, clock, lastDigest, told, late>>
    BY <2>0 DEF evars, club, history
  <2>8. tick[t].since = lastDigest /\ tick[t].now \in 0 .. clock
    BY <1>2, <2>0 DEF Digesting, Doing
  <2>9. \A i \in DOMAIN signups : Swallows(i, s.now) => i \in new \/ Covered(i)
    <3> SUFFICES ASSUME NEW i \in DOMAIN signups, Swallows(i, s.now) PROVE i \in new \/ Covered(i)
      OBVIOUS
    <3>1. CASE signups[i].at <= lastDigest
      BY <1>2, <3>1 DEF Swallowed, Swallows
    <3>2. CASE ~ (signups[i].at <= lastDigest)
      <4>1. signups[i].at > lastDigest
        BY <1>1, <1>3, <3>2
      <4> QED BY <2>2, <2>8, <4>1 DEF Swallows
    <3> QED BY <3>1, <3>2
  <2>10. Digesting(t)'
    BY <2>5, <2>6, <2>7, <2>8, <2>9 DEF Digesting, Doing, Swallows, Covered
  <2>11. Warning(t)' /\ ~ Doing(t, "mark")
    BY <2>0, <2>5, <2>6 DEF Warning, Doing
  <2> QED BY <2>0, <2>1, <2>3, <2>5, <2>10, <2>11, ReadStep
<1>7. ASSUME NEW ok \in BOOLEAN, DigestMail(t, ok) PROVE Inv'
  <2>0. Doing(t, "mail") /\ UNCHANGED <<evars, lastDigest, late, warned, unsent, unmarked>>
    BY <1>7 DEF DigestMail
  <2>1. \A u \in Ticks : u # t => Doing(u, "idle")
    BY <2>0, Alone DEF Doing
  <2>2. PICK s : Go(t, s) /\ s = [tick[t] EXCEPT !.pc = AfterDigest(ok)]
    BY <1>7 DEF DigestMail, Proceed
  <2>3. /\ s \in TickStates /\ s.now = tick[t].now
        /\ s.pc = IF ok THEN "advance" ELSE "overdue"
    BY <1>1, <2>2 DEF TickStates, TickSteps, AfterDigest
  <2>4. tick'[t] = s
    BY <1>1, <2>2 DEF Go
  <2>5. UNCHANGED <<event, signups, clock, lastDigest, late, warned, unsent, unmarked>>
    BY <2>0 DEF evars, club
  <2>6. /\ told \in [1 .. MaxSignups -> Nat]
        /\ told' = IF ok THEN [i \in 1 .. MaxSignups |-> told[i] + IF i \in tick[t].new THEN 1 ELSE 0] ELSE told
    BY <1>1, <1>7 DEF DigestMail, JTypes
  <2>7. /\ told' \in [1 .. MaxSignups -> Nat]
        /\ \A i \in 1 .. MaxSignups : told[i] > 0 => told'[i] > 0
        /\ ok => \A i \in 1 .. MaxSignups : i \in tick[t].new => told'[i] > 0
    <3>1. CASE ok
      BY <2>6, <3>1
    <3>2. CASE ~ ok
      BY <2>6, <3>2
    <3> QED BY <3>1, <3>2
  <2>8. JTypes' /\ EInv'
    BY <1>1, <2>0, <2>2, <2>3, <2>5, <2>7, Resumed DEF JTypes, Go
  <2>9. \A i \in DOMAIN signups : Covered(i) => Covered(i)'
    BY <1>1, <2>5, <2>7 DEF Covered
  <2>10. Swallowed'
    BY <1>2, <2>5, <2>9 DEF Swallowed, Swallows
  <2>11. Digesting(t)'
    <3>1. tick[t].now \in 0 .. clock
      BY <1>2, <2>0 DEF Digesting, Doing
    <3>2. ASSUME NEW i \in DOMAIN signups, ok, Swallows(i, tick[t].now) PROVE Covered(i)'
      <4>1. i \in tick[t].new \/ Covered(i)
        BY <1>2, <2>0, <3>2 DEF Digesting
      <4> QED BY <1>1, <2>7, <2>9, <3>2, <4>1 DEF Covered
    <3> QED BY <2>3, <2>4, <2>5, <3>1, <3>2 DEF Digesting, Doing, Swallows
  <2>12. Warning(t)'
    BY <2>3, <2>4 DEF Warning, Doing
  <2>13. ASSUME NEW i \in 1 .. MaxSignups PROVE Warned(i)'
    <3>1. Marked(i) => Marked(i)'
      BY <1>1, <2>0, <2>2, <2>5 DEF Marked, Doing, Go
    <3> QED BY <1>2, <2>5, <3>1 DEF Warned
  <2> QED BY <2>1, <2>2, <2>3, <2>8, <2>10, <2>11, <2>12, <2>13, TickStep
<1>8. CASE DigestAdvance(t)
  <2>0. Doing(t, "advance") /\ Go(t, Escalating) /\ lastDigest' = tick[t].now /\ UNCHANGED <<evars, history>>
    BY <1>8 DEF DigestAdvance, Window
  <2>1. \A u \in Ticks : u # t => Doing(u, "idle")
    BY <2>0, Alone DEF Doing
  <2>2. tick'[t] = Escalating
    BY <1>1, <2>0 DEF Go
  <2>3. UNCHANGED <<event, signups, clock, told, late, warned, unsent, unmarked>>
    BY <2>0 DEF evars, club, history
  <2>4. tick[t].now \in 0 .. clock
    BY <1>2, <2>0 DEF Digesting, Doing
  <2>5. JTypes' /\ EInv'
    BY <1>1, <2>0, <2>3, <2>4, Resumed DEF JTypes, Go
  <2>6. Swallowed'
    BY <1>2, <2>0, <2>3 DEF Swallowed, Swallows, Covered, Digesting
  <2>7. Digesting(t)' /\ Warning(t)'
    BY <2>2 DEF Digesting, Warning, Doing
  <2>8. ASSUME NEW i \in 1 .. MaxSignups PROVE Warned(i)'
    <3>1. Marked(i) => Marked(i)'
      BY <1>1, <2>0, <2>3 DEF Marked, Doing, Go
    <3> QED BY <1>2, <2>3, <3>1 DEF Warned
  <2> QED BY <2>0, <2>1, <2>5, <2>6, <2>7, <2>8, TickStep
<1>9. CASE EscalationRead(t)
  <2>0. Doing(t, "overdue") /\ UNCHANGED <<evars, lastDigest, history>>
    BY <1>9 DEF EscalationRead
  <2>1. \A u \in Ticks : u # t => Doing(u, "idle")
    BY <2>0, Alone DEF Doing
  <2>2. PICK due : due = {i \in DOMAIN signups : Running /\ Overdue(i)}
    OBVIOUS
  <2>3. PICK s : /\ Go(t, s)
                 /\ s = [Resting EXCEPT !.new = due, !.pc = IF due = {} THEN "sweep" ELSE "warn"]
    BY <1>9, <2>2 DEF EscalationRead
  <2>4. due \in SUBSET Nat
    BY <1>1, <2>2
  <2>5. s \in TickStates /\ s.new = due /\ s.pc \in {"sweep", "warn"}
    BY <2>3, <2>4 DEF Resting, TickStates, TickSteps
  <2>6. tick'[t] = s
    BY <1>1, <2>3 DEF Go
  <2>7. UNCHANGED <<event, signups, warned, unmarked>>
    BY <2>0 DEF evars, club, history
  <2>8. \A i \in due : i \in DOMAIN signups /\ ~ signups[i].escalated
    BY <2>2 DEF Overdue
  <2>9. \A i \in due : i \in 1 .. MaxSignups => unmarked \/ warned[i] = 0
    <3> SUFFICES ASSUME NEW i \in due, i \in 1 .. MaxSignups PROVE unmarked \/ warned[i] = 0
      OBVIOUS
    <3>1. event.there
      BY <1>1, <2>8
    <3>2. ~ Marked(i)
      BY <2>0, <2>1, <2>8, <3>1 DEF Marked, Doing
    <3> QED BY <1>2, <3>2 DEF Warned
  <2>10. Digesting(t)'
    BY <2>5, <2>6 DEF Digesting, Doing
  <2>11. Warning(t)' /\ ~ Doing(t, "mark")
    BY <1>1, <2>0, <2>5, <2>6, <2>7, <2>8, <2>9 DEF Warning, Doing
  <2> QED BY <2>0, <2>1, <2>3, <2>5, <2>10, <2>11, ReadStep
<1>10. ASSUME NEW ok \in BOOLEAN, EscalationMail(t, ok) PROVE Inv'
  <2>0. Doing(t, "warn") /\ UNCHANGED <<evars, lastDigest, told, late, unmarked>>
    BY <1>10 DEF EscalationMail
  <2>1. \A u \in Ticks : u # t => Doing(u, "idle")
    BY <2>0, Alone DEF Doing
  <2>2. PICK s : Go(t, s) /\ s = [tick[t] EXCEPT !.pc = "mark"]
    BY <1>10 DEF EscalationMail, Proceed
  <2>3. s \in TickStates /\ s.pc = "mark" /\ s.new = tick[t].new
    BY <1>1, <2>2 DEF TickStates, TickSteps
  <2>4. tick'[t] = s
    BY <1>1, <2>2 DEF Go
  <2>5. UNCHANGED <<event, signups, clock, lastDigest, told, late, unmarked>>
    BY <2>0 DEF evars, club
  <2>6. /\ warned \in [1 .. MaxSignups -> Nat]
        /\ warned' = [i \in 1 .. MaxSignups |-> warned[i] + IF ok /\ i \in tick[t].new THEN 1 ELSE 0]
    BY <1>1, <1>10 DEF EscalationMail, JTypes
  <2>7. /\ warned' \in [1 .. MaxSignups -> Nat]
        /\ \A i \in 1 .. MaxSignups : i \notin tick[t].new => warned'[i] = warned[i]
        /\ \A i \in 1 .. MaxSignups : i \in tick[t].new /\ warned[i] = 0 => warned'[i] \in {0, 1}
    BY <2>6
  <2>8. JTypes' /\ EInv'
    <3>1. tick[t].new \subseteq 1 .. MaxSignups
      BY <1>2, <2>0 DEF Warning, Doing
    <3>2. unsent' \subseteq 1 .. MaxSignups
      BY <1>1, <1>10, <3>1 DEF EscalationMail, JTypes
    <3> QED BY <1>1, <2>0, <2>2, <2>3, <2>5, <2>7, <3>2, Resumed DEF JTypes, Go
  <2>9. Swallowed'
    BY <1>2, <2>5 DEF Swallowed, Swallows, Covered
  <2>10. Digesting(t)'
    BY <2>3, <2>4 DEF Digesting, Doing
  <2>11. Warning(t)'
    BY <1>2, <2>0, <2>3, <2>4, <2>5 DEF Warning, Doing
  <2>12. ASSUME NEW i \in 1 .. MaxSignups PROVE Warned(i)'
    <3>1. CASE i \in tick[t].new
      <4>1. unmarked \/ warned[i] = 0
        BY <1>2, <2>0, <3>1 DEF Warning
      <4>2. Marked(i)'
        BY <2>3, <2>4, <3>1 DEF Marked, Doing
      <4> QED BY <2>5, <2>7, <3>1, <4>1, <4>2 DEF Warned
    <3>2. CASE i \notin tick[t].new
      <4>1. Marked(i) => Marked(i)'
        BY <1>1, <2>0, <2>2, <2>5 DEF Marked, Doing, Go
      <4> QED BY <1>2, <2>5, <2>7, <3>2, <4>1 DEF Warned
    <3> QED BY <3>1, <3>2
  <2> QED BY <2>1, <2>2, <2>3, <2>8, <2>9, <2>10, <2>11, <2>12, TickStep
<1>11. CASE EscalationMark(t)
  <2>0. /\ Doing(t, "mark")
        /\ UNCHANGED <<event, arriving, desk, issued, deeds, clock, raced, lastDigest, history>>
        /\ signups' = [i \in DOMAIN signups |->
                         IF i \in tick[t].new THEN [signups[i] EXCEPT !.escalated = TRUE] ELSE signups[i]]
    BY <1>11 DEF EscalationMark
  <2>1. \A u \in Ticks : u # t => Doing(u, "idle")
    BY <2>0, Alone DEF Doing
  <2>2. PICK s : Go(t, s) /\ s = [Resting EXCEPT !.pc = "sweep"]
    BY <1>11 DEF EscalationMark
  <2>3. s \in TickStates /\ s.pc = "sweep"
    BY <2>2 DEF Resting, TickStates, TickSteps
  <2>4. tick'[t] = s
    BY <1>1, <2>2 DEF Go
  <2>5. UNCHANGED <<clock, lastDigest, told, late, warned, unsent, unmarked>>
    BY <2>0 DEF history
  <2>6. /\ DOMAIN signups' = DOMAIN signups /\ signups' = [i \in DOMAIN signups' |-> signups'[i]]
        /\ \A i \in DOMAIN signups :
             /\ signups'[i] \in Signups
             /\ signups'[i].at = signups[i].at /\ signups'[i].status = signups[i].status
             /\ i \in tick[t].new \/ signups[i].escalated => signups'[i].escalated
    BY <1>3, <2>0 DEF Signups
  <2>7. signups' \in Seq(Signups) /\ Len(signups') = Len(signups)
    BY <1>1, <2>6, InPlace
  <2>8. ~ event.there => signups' = signups
    <3>1. ASSUME ~ event.there PROVE signups' = <<>>
      <4>1. DOMAIN signups = {} /\ Len(signups') = 0
        BY <1>1, <2>7, <3>1
      <4> QED BY <2>7, <4>1
    <3> QED BY <1>1, <3>1
  <2>9. EInv'
    <3>1. arriving' \in [Guests -> Arrivals] /\ deeds' \in Nat /\ clock' \in Nat
      BY <1>1, <2>0 DEF EInv, TypeOK
    <3> QED BY <1>1, <2>0, <2>7, <2>8, <3>1, SignupsStep
  <2>10. JTypes'
    BY <1>1, <2>2, <2>3, <2>5 DEF JTypes, Go
  <2>11. Swallowed'
    BY <1>2, <2>5, <2>6 DEF Swallowed, Swallows, Covered
  <2>12. Digesting(t)' /\ Warning(t)'
    BY <2>3, <2>4 DEF Digesting, Warning, Doing
  <2>13. ASSUME NEW i \in 1 .. MaxSignups PROVE Warned(i)'
    <3>1. Marked(i) => Marked(i)'
      <4>1. CASE i \in tick[t].new
        BY <1>2, <2>0, <2>6, <4>1 DEF Marked, Warning, Doing
      <4>2. CASE i \notin tick[t].new
        BY <2>0, <2>1, <2>6, <4>2 DEF Marked, Doing
      <4> QED BY <4>1, <4>2
    <3> QED BY <1>2, <2>5, <3>1 DEF Warned
  <2> QED BY <2>1, <2>2, <2>3, <2>9, <2>10, <2>11, <2>12, <2>13, TickStep
<1>12. CASE Sweep(t)
  <2>0. Doing(t, "sweep") /\ Go(t, Resting) /\ UNCHANGED <<evars, lastDigest, history>>
    BY <1>12 DEF Sweep
  <2>1. \A u \in Ticks : u # t => Doing(u, "idle")
    BY <2>0, Alone DEF Doing
  <2>2. tick'[t] = Resting
    BY <1>1, <2>0 DEF Go
  <2>3. Digesting(t)' /\ Warning(t)' /\ ~ Doing(t, "mark")
    BY <2>0, <2>2 DEF Digesting, Warning, Doing
  <2> QED BY <2>0, <2>1, <2>3, ReadStep
<1> QED BY <1>4, <1>5, <1>6, <1>7, <1>8, <1>9, <1>10, <1>11, <1>12 DEF Advance

\* A signup that commits is new to every digest, or history says that it came late.
LEMMA CommitKeeps ==
    ASSUME Inv, NEW g \in Guests, Commit(g)
    PROVE  Inv'
<1>0. PICK n : n = Len(signups)
  OBVIOUS
<1>1. /\ EInv /\ JTypes /\ clock \in Nat /\ arriving[g].at \in Nat
      /\ signups \in Seq(Signups) /\ n \in Nat /\ DOMAIN signups = 1 .. n /\ tick \in [Ticks -> TickStates]
  BY <1>0 DEF Inv, EInv, TypeOK, Arrivals, JTypes
<1>2. /\ EInv' /\ UNCHANGED <<event, clock>>
      /\ \/ signups' = signups
         \/ \E row \in Signups : /\ row.at = arriving[g].at /\ ~ row.escalated /\ event.there
                                 /\ signups' = Append(signups, row)
  BY <1>1, CommitStep DEF Commit
<1>3. /\ UNCHANGED <<lastDigest, tick, told, warned, unsent, unmarked>>
      /\ late' = IF Len(signups') > n /\ Missed(arriving[g].at) THEN late \cup {Len(signups')} ELSE late
  BY <1>0 DEF Commit
<1>4. CASE signups' = signups
  <2>1. late' = late
    BY <1>1, <1>3, <1>4
  <2>2. UNCHANGED jvars
    BY <1>3, <2>1 DEF jvars, history
  <2> QED BY <1>1, <1>2, <1>4, <2>2, OthersStep
<1>5. ASSUME NEW row \in Signups, row.at = arriving[g].at, ~ row.escalated, event.there,
             signups' = Append(signups, row)
      PROVE  Inv'
  <2>1. /\ Len(signups') = n + 1 /\ n + 1 > n /\ DOMAIN signups' = 1 .. n + 1 /\ signups'[n + 1] = row
        /\ \A i \in 1 .. n : signups'[i] = signups[i]
    BY <1>0, <1>1, <1>5
  <2>2. n + 1 \in 1 .. MaxSignups
    <3>1. n + 1 <= MaxSignups
      BY <1>2, <2>1 DEF EInv, Club
    <3> QED BY <1>1, <3>1, EventsAssumption
  <2>3. late' = IF Missed(row.at) THEN late \cup {n + 1} ELSE late
    BY <1>3, <1>5, <2>1
  <2>4. JTypes'
    BY <1>1, <1>2, <1>3, <2>2, <2>3 DEF JTypes
  <2>5. Single'
    BY <1>3 DEF Inv, Single, Doing
  <2>6. \A i \in 1 .. n : \A x : /\ Swallows(i, x)' <=> Swallows(i, x)
                                 /\ Covered(i) => Covered(i)'
    BY <1>3, <2>1, <2>3 DEF Swallows, Covered
  <2>7. Missed(row.at) => Covered(n + 1)'
    BY <2>3 DEF Covered
  <2>8. \A i \in DOMAIN signups' : i \in 1 .. n \/ i = n + 1
    BY <1>1, <2>1
  <2>9. Swallowed'
    <3> SUFFICES ASSUME NEW i \in DOMAIN signups', Swallows(i, lastDigest)' PROVE Covered(i)'
      BY DEF Swallowed
    <3>1. CASE i \in 1 .. n
      BY <1>1, <1>3, <2>6, <3>1 DEF Inv, Swallowed
    <3>2. CASE i = n + 1
      <4>1. row.at <= lastDigest
        BY <1>3, <2>1, <3>2 DEF Swallows
      <4> QED BY <2>7, <3>2, <4>1 DEF Missed
    <3> QED BY <2>8, <3>1, <3>2
  <2>10. ASSUME NEW t \in Ticks PROVE Digesting(t)'
    <3>1. Digesting(t) /\ tick'[t] = tick[t]
      BY <1>3 DEF Inv
    <3>2. ASSUME NEW i \in DOMAIN signups', tick[t].pc \in {"mail", "advance"}, Swallows(i, tick[t].now)'
          PROVE  (Doing(t, "mail") /\ i \in tick[t].new) \/ Covered(i)'
      <4>1. CASE i \in 1 .. n
        BY <1>1, <2>6, <3>1, <3>2, <4>1 DEF Digesting, Doing
      <4>2. CASE i = n + 1
        <5>1. row.at <= tick[t].now
          BY <2>1, <3>1, <3>2, <4>2 DEF Swallows
        <5> QED BY <2>7, <3>2, <4>2, <5>1 DEF Missed
      <4> QED BY <2>8, <4>1, <4>2
    <3> QED BY <1>2, <1>3, <3>1, <3>2 DEF Digesting, Doing
  <2>11. ASSUME NEW t \in Ticks PROVE Warning(t)'
    <3>1. Warning(t) /\ tick'[t] = tick[t] /\ DOMAIN signups \subseteq DOMAIN signups'
      BY <1>1, <1>3, <2>1 DEF Inv
    <3> QED BY <1>2, <1>3, <3>1 DEF Warning, Doing
  <2>12. ASSUME NEW i \in 1 .. MaxSignups PROVE Warned(i)'
    <3>1. \A j \in DOMAIN signups : j \in DOMAIN signups' /\ signups'[j] = signups[j]
      BY <1>1, <2>1
    <3>2. Marked(i) => Marked(i)'
      BY <1>2, <1>3, <3>1 DEF Marked, Doing
    <3> QED BY <1>3, <3>2 DEF Inv, Warned
  <2> QED BY <1>2, <2>4, <2>5, <2>9, <2>10, <2>11, <2>12 DEF Inv
<1> QED BY <1>2, <1>4, <1>5

\* Callbacks broken off: nothing is written, and a mail that was sent stays unmarked.
LEMMA BrokenStep ==
    ASSUME Inv, UNCHANGED <<club, desk, issued, clock, raced, lastDigest, told, late, warned, unsent>>,
           deeds' \in Nat, tick' \in [Ticks -> TickStates], unmarked' \in BOOLEAN, unmarked => unmarked',
           \A t \in Ticks : tick'[t] = tick[t] \/ tick'[t] = Resting,
           \A t \in Ticks : Doing(t, "mark") /\ tick'[t] = Resting => unmarked'
    PROVE  Inv'
<1> USE RestingState
<1>1. UNCHANGED <<event, signups, arriving>>
  BY DEF club
<1>2. EInv' /\ JTypes'
  BY <1>1 DEF Inv, EInv, TypeOK, InviteGate, Club, JTypes
<1>3. Single'
  BY DEF Inv, Single, Doing
<1>4. Swallowed'
  BY <1>1 DEF Inv, Swallowed, Swallows, Covered
<1>5. ASSUME NEW t \in Ticks PROVE Digesting(t)' /\ Warning(t)'
  <2>1. CASE tick'[t] = Resting
    BY <2>1 DEF Digesting, Warning, Doing
  <2>2. CASE tick'[t] = tick[t]
    BY <1>1, <2>2 DEF Inv, Digesting, Warning, Doing, Swallows, Covered
  <2> QED BY <2>1, <2>2
<1>6. ASSUME NEW i \in 1 .. MaxSignups PROVE Warned(i)'
  <2>1. CASE unmarked'
    BY <2>1 DEF Warned
  <2>2. CASE ~ unmarked'
    <3>1. Marked(i) => Marked(i)'
      BY <1>1, <2>2 DEF Marked, Doing
    <3> QED BY <2>2, <3>1 DEF Inv, Warned
  <2> QED BY <2>1, <2>2
<1> QED BY <1>2, <1>3, <1>4, <1>5, <1>6 DEF Inv

LEMMA StepKeeps == Inv /\ [Next]_vars => Inv'
<1> SUFFICES ASSUME Inv, [Next]_vars PROVE Inv'
  OBVIOUS
<1> USE RestingState
<1>1. EInv /\ clock \in Nat /\ deeds \in Nat /\ deeds + 1 \in Nat /\ tick \in [Ticks -> TickStates]
      /\ unmarked \in BOOLEAN
  BY DEF Inv, EInv, TypeOK, JTypes
<1>2. ASSUME Organizing, UNCHANGED jvars PROVE Inv'
  BY <1>1, <1>2, OrganizingStep, OrganizedSignups, OthersStep
<1>3. ASSUME NEW g \in Guests, RegisterBegin(g), UNCHANGED jvars PROVE Inv'
  BY <1>1, <1>3, BeginStep, OthersStep
<1>4. ASSUME NEW i \in DOMAIN signups, NEW s \in {"decided", "cancelled"}, Settle(i, s), UNCHANGED jvars
      PROVE  Inv'
  BY <1>1, <1>4, SettleStep, OthersStep
<1>5. ASSUME Pass, UNCHANGED jvars PROVE Inv'
  <2>1. EInv' /\ UNCHANGED <<event, signups>> /\ clock' = clock + 1
    BY <1>1, <1>5, PassStep
  <2>2. clock' \in Nat /\ clock' >= clock
    BY <1>1, <2>1
  <2> QED BY <1>5, <2>1, <2>2, OthersStep
<1>6. ASSUME NEW t \in Ticks, StatementFails(t) PROVE Inv'
  <2>1. /\ tick' = [tick EXCEPT ![t] = Resting] /\ deeds' = deeds + 1
        /\ unmarked' = (unmarked \/ Doing(t, "mark"))
        /\ UNCHANGED <<club, desk, issued, clock, raced, lastDigest, told, late, warned, unsent>>
    BY <1>6 DEF StatementFails
  <2>2. tick' \in [Ticks -> TickStates] /\ \A u \in Ticks : tick'[u] = IF u = t THEN Resting ELSE tick[u]
    BY <1>1, <2>1
  <2>3. unmarked' \in BOOLEAN /\ (unmarked => unmarked') /\ (Doing(t, "mark") => unmarked')
    BY <1>1, <2>1
  <2>4. \A u \in Ticks : Doing(u, "mark") /\ tick'[u] = Resting => unmarked'
    BY <2>2, <2>3 DEF Doing
  <2> QED BY <1>1, <2>1, <2>2, <2>3, <2>4, BrokenStep
<1>7. CASE Restart
  <2>1. /\ tick' = [t \in Ticks |-> Resting] /\ deeds' = deeds + 1
        /\ unmarked' = (unmarked \/ \E t \in Ticks : Doing(t, "mark"))
        /\ UNCHANGED <<club, desk, issued, clock, raced, lastDigest, told, late, warned, unsent>>
    BY <1>7 DEF Restart
  <2>2. tick' \in [Ticks -> TickStates] /\ \A u \in Ticks : tick'[u] = Resting
    BY <2>1
  <2>3. unmarked' \in BOOLEAN /\ (unmarked => unmarked') /\ \A t \in Ticks : Doing(t, "mark") => unmarked'
    BY <1>1, <2>1
  <2> QED BY <1>1, <2>1, <2>2, <2>3, BrokenStep
<1>8. CASE UNCHANGED vars
  <2>1. UNCHANGED <<event, signups, clock>> /\ UNCHANGED jvars /\ EInv'
    BY <1>1, <1>8, Resumed DEF vars, evars, club
  <2> QED BY <1>1, <2>1, OthersStep
<1>9. Others => Inv'
  BY <1>2, <1>3, <1>4, <1>5 DEF Others
<1> QED BY <1>6, <1>7, <1>8, <1>9, CommitKeeps, AdvanceStep DEF Next

LEMMA InitHolds == Init => Inv
<1> SUFFICES ASSUME Init PROVE Inv
  OBVIOUS
<1> USE Records, RestingState, EventsAssumption
<1>1. PICK m \in Models, d \in Dates : event = Created(m, d)
  BY DEF Init, EInit
<1>2. /\ issued = event.code /\ signups = <<>> /\ arriving = [g \in Guests |-> Away]
      /\ desk = [w \in Workers |-> Free] /\ deeds = 0 /\ clock = 1 /\ raced = FALSE
      /\ lastDigest = 0 /\ tick = [t \in Ticks |-> Resting] /\ told = [i \in 1 .. MaxSignups |-> 0]
      /\ late = {} /\ warned = [i \in 1 .. MaxSignups |-> 0] /\ unsent = {} /\ unmarked = FALSE
  BY DEF Init, EInit
<1>3. InviteGate
  BY <1>1 DEF InviteGate, Created
<1>4. TypeOK
  <2>1. {issued, deeds, clock} \subseteq Nat
    BY <1>1, <1>2 DEF Created
  <2>2. signups \in Seq(Signups) /\ arriving \in [Guests -> Arrivals] /\ desk \in [Workers -> Desks]
    BY <1>2
  <2> QED BY <1>1, <1>2, <2>1, <2>2 DEF TypeOK
<1>5. Club
  BY <1>2 DEF Club
<1>6. JTypes
  <2>1. lastDigest \in 0 .. clock
    BY <1>2
  <2>2. tick \in [Ticks -> TickStates] /\ late \subseteq 1 .. MaxSignups /\ unsent \subseteq 1 .. MaxSignups /\ unmarked \in BOOLEAN
    BY <1>2
  <2>3. told \in [1 .. MaxSignups -> Nat] /\ warned \in [1 .. MaxSignups -> Nat]
    BY <1>2
  <2> QED BY <2>1, <2>2, <2>3 DEF JTypes
<1>7. Single /\ Swallowed
  BY <1>2 DEF Single, Swallowed, Doing
<1>8. \A t \in Ticks : Digesting(t) /\ Warning(t)
  BY <1>2 DEF Digesting, Warning, Doing
<1>9. \A i \in 1 .. MaxSignups : Warned(i)
  BY <1>2 DEF Warned
<1> QED BY <1>3, <1>4, <1>5, <1>6, <1>7, <1>8, <1>9 DEF Inv, EInv

LEMMA AlwaysInv == Spec => []Inv
BY InitHolds, StepKeeps, PTL DEF Spec

-----------------------------------------------------------------------------
\* The listing of an event agrees with its model whatever PATCHes overlap, and its
\* code does unless two PATCHes of the model crossed.
THEOREM InviteGateHolds == Spec => []InviteGate
<1>1. Inv => InviteGate
  BY DEF Inv, EInv
<1> QED BY <1>1, AlwaysInv, PTL

\* The digest window never passes a signup that no digest counted, unless the signup
\* committed after the count.
THEOREM NothingIsSwallowed == Spec => []NothingSwallowed
<1>1. Inv => NothingSwallowed
  <2>1. Inv => JobsTypeOK
    BY DEF Inv, EInv, JobsTypeOK, JTypes
  <2> QED BY <2>1 DEF Inv, NothingSwallowed, Swallowed, Swallows, Covered
<1> QED BY <1>1, AlwaysInv, PTL

\* An organizer is warned once of a signup, unless a failure fell between the mail
\* and its mark.
THEOREM WarningsAreSingle == Spec => []WarnedOnce
<1>1. Inv => WarnedOnce
  <2> SUFFICES ASSUME Inv, NEW i \in 1 .. MaxSignups PROVE unmarked \/ warned[i] <= 1
    BY DEF WarnedOnce
  <2>1. Warned(i)
    BY DEF Inv
  <2> QED BY <2>1 DEF Warned
<1> QED BY <1>1, AlwaysInv, PTL
=============================================================================
