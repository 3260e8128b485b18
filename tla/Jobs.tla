--------------------------------- MODULE Jobs ---------------------------------
(***************************************************************************)
(* The scheduler (jobs/scheduler.ts) at work on the event of Events: the   *)
(* digest of new signups, and the escalation of those that wait too long   *)
(* for a decision.  Each await is a step, so requests of organizers and    *)
(* guests run between them.  The third job is the sweep of Registrations.  *)
(* Failures and restarts count among the deeds that are bounded.           *)
(***************************************************************************)
EXTENDS Events

CONSTANTS
    Ticks,          \* timer callbacks that could run at once
    Interval,       \* of the event's digest
    Patience        \* 24 hours

ASSUME JobsAssumption == {Interval, Patience} \subseteq Nat

VARIABLES
    lastDigest,     \* last_digest_at of the event
    tick,           \* what each callback is doing
    told,           \* history: digests sent that counted the signup
    late,           \* history: it became visible after a digest that covers its instant
    warned,         \* history: escalation mails about the signup that went out
    unsent,         \* history: signups such a mail was about that did not
    unmarked        \* history: a failure fell between such a mail and its mark

history == <<told, late, warned, unsent, unmarked>>
jvars == <<lastDigest, tick, history>>
vars == <<evars, jvars>>

TickSteps == {"idle", "digest", "count", "mail", "advance", "overdue", "warn", "mark", "sweep"}
TickStates == [pc: TickSteps, now: Nat, since: Nat, new: SUBSET Nat]
Resting == [pc |-> "idle", now |-> 0, since |-> 0, new |-> {}]

Doing(t, pc) == tick[t].pc = pc
Go(t, s) == tick' = [tick EXCEPT ![t] = s]
Proceed(t, pc) == Go(t, [tick[t] EXCEPT !.pc = pc])
Escalating == [Resting EXCEPT !.pc = "overdue"]

(***************************************************************************)
(* One tick: digests, then escalations, then the sweep.                    *)
(***************************************************************************)
FaultyQuiet(t) == Doing(t, "idle")      \* two callbacks at once

\* "ticking": a callback that finds another one at work returns
Quiet(t) == \A u \in Ticks : Doing(u, "idle")

Begin(t) ==
    /\ Quiet(t)
    /\ Go(t, [Resting EXCEPT !.pc = "digest"])
    /\ UNCHANGED <<evars, lastDigest, history>>

\* "now" is the start of the query for the published events
DigestEvents(t) ==
    /\ Doing(t, "digest")
    /\ Go(t, IF Running /\ clock - lastDigest >= Interval
             THEN [Resting EXCEPT !.pc = "count", !.now = clock, !.since = lastDigest]
             ELSE Escalating)
    /\ UNCHANGED <<evars, lastDigest, history>>

DigestCount(t) ==
    LET new == {i \in DOMAIN signups : signups[i].at > tick[t].since /\ signups[i].status # "cancelled"}
        pending == {i \in DOMAIN signups : signups[i].status = "pending"}
    IN
    /\ Doing(t, "count")
    /\ Go(t, [tick[t] EXCEPT !.new = new, !.pc = IF new \cup pending = {} THEN "advance" ELSE "mail"])
    /\ UNCHANGED <<evars, lastDigest, history>>

FaultyAfterDigest(ok) == "advance"      \* sent or not

FaultyGivesUp(ok) == IF ok THEN "advance" ELSE "sweep"      \* no digest, no escalations

AfterDigest(ok) == IF ok THEN "advance" ELSE "overdue"

DigestMail(t, ok) ==
    /\ Doing(t, "mail") /\ Proceed(t, AfterDigest(ok))
    /\ told' = IF ok THEN [i \in DOMAIN told |-> told[i] + IF i \in tick[t].new THEN 1 ELSE 0] ELSE told
    /\ UNCHANGED <<evars, lastDigest, late, warned, unsent, unmarked>>

FaultyWindow(t) == tick[t].now + Interval       \* when the next one is due

\* up to the start of the tick, not to when the mail went out
Window(t) == tick[t].now

DigestAdvance(t) ==
    /\ Doing(t, "advance") /\ Go(t, Escalating)
    /\ lastDigest' = Window(t)
    /\ UNCHANGED <<evars, history>>

Overdue(i) ==
    /\ signups[i].status = "pending" /\ ~signups[i].escalated
    /\ signups[i].at < clock - Patience

EscalationRead(t) ==
    LET due == {i \in DOMAIN signups : Running /\ Overdue(i)} IN
    /\ Doing(t, "overdue")
    /\ Go(t, [Resting EXCEPT !.new = due, !.pc = IF due = {} THEN "sweep" ELSE "warn"])
    /\ UNCHANGED <<evars, lastDigest, history>>

\* whether the mail went out is not looked at: the rows are marked all the same
EscalationMail(t, ok) ==
    LET due == tick[t].new IN
    /\ Doing(t, "warn") /\ Proceed(t, "mark")
    /\ warned' = [i \in DOMAIN warned |-> warned[i] + IF ok /\ i \in due THEN 1 ELSE 0]
    /\ unsent' = IF ok THEN unsent ELSE unsent \cup due
    /\ UNCHANGED <<evars, lastDigest, told, late, unmarked>>

\* UPDATE by id, whatever became of the signups
EscalationMark(t) ==
    /\ Doing(t, "mark") /\ Go(t, [Resting EXCEPT !.pc = "sweep"])
    /\ signups' = [i \in DOMAIN signups |->
                     IF i \in tick[t].new THEN [signups[i] EXCEPT !.escalated = TRUE] ELSE signups[i]]
    /\ UNCHANGED <<event, arriving, desk, issued, deeds, clock, raced, lastDigest, history>>

Sweep(t) ==
    /\ Doing(t, "sweep") /\ Go(t, Resting)
    /\ UNCHANGED <<evars, lastDigest, history>>

\* a statement fails: the catch of the callback gives up the tick, its finally
\* lets the next one in
StatementFails(t) ==
    /\ ~Doing(t, "idle") /\ deeds < MaxDeeds
    /\ tick' = [tick EXCEPT ![t] = Resting] /\ deeds' = deeds + 1
    /\ unmarked' = (unmarked \/ Doing(t, "mark"))
    /\ UNCHANGED <<club, desk, issued, clock, raced, lastDigest, told, late, warned, unsent>>

\* in the middle of a tick; requests that die with the process are in Registrations
Restart ==
    /\ \E t \in Ticks : ~Doing(t, "idle")
    /\ deeds < MaxDeeds /\ deeds' = deeds + 1
    /\ tick' = [t \in Ticks |-> Resting]
    /\ unmarked' = (unmarked \/ \E t \in Ticks : Doing(t, "mark"))
    /\ UNCHANGED <<club, desk, issued, clock, raced, lastDigest, told, late, warned, unsent>>

(***************************************************************************)
(* The rest of the club, with what the history has to say about it.        *)
(***************************************************************************)
\* a signup that commits when a digest up to its instant has counted already
Missed(at) ==
    \/ at <= lastDigest
    \/ \E t \in Ticks : tick[t].pc \in {"mail", "advance"} /\ at <= tick[t].now

Commit(g) ==
    LET n == Len(signups') IN
    /\ RegisterCommit(g)
    /\ late' = IF n > Len(signups) /\ Missed(arriving[g].at) THEN late \cup {n} ELSE late
    /\ UNCHANGED <<lastDigest, tick, told, warned, unsent, unmarked>>

Init ==
    /\ EInit
    /\ lastDigest = 0 /\ tick = [t \in Ticks |-> Resting]
    /\ told = [i \in 1 .. MaxSignups |-> 0] /\ late = {}
    /\ warned = [i \in 1 .. MaxSignups |-> 0] /\ unsent = {} /\ unmarked = FALSE

Others ==
    /\ \/ Organizing
       \/ \E g \in Guests : RegisterBegin(g)
       \/ \E i \in DOMAIN signups, s \in {"decided", "cancelled"} : Settle(i, s)
       \/ Pass
    /\ UNCHANGED jvars

Advance(t) ==
    \/ \E ok \in BOOLEAN : DigestMail(t, ok) \/ EscalationMail(t, ok)
    \/ Begin(t) \/ DigestEvents(t) \/ DigestCount(t) \/ DigestAdvance(t)
    \/ EscalationRead(t) \/ EscalationMark(t) \/ Sweep(t)

Next ==
    \/ Others
    \/ \E g \in Guests : Commit(g)
    \/ \E t \in Ticks : Advance(t) \/ StatementFails(t)
    \/ Restart

\* setInterval calls back for ever, and a statement or a mail is answered at last
Spec == Init /\ [][Next]_vars /\ WF_vars(\E t \in Ticks : Advance(t))
-----------------------------------------------------------------------------
(***************************************************************************)
(* Properties.                                                             *)
(***************************************************************************)
\* Every variable keeps its type, and the digest window ends in the past.
JobsTypeOK ==
    /\ TypeOK
    /\ lastDigest \in 0 .. clock /\ tick \in [Ticks -> TickStates]
    /\ told \in [1 .. MaxSignups -> Nat] /\ late \subseteq 1 .. MaxSignups
    /\ warned \in [1 .. MaxSignups -> Nat] /\ unsent \subseteq 1 .. MaxSignups /\ unmarked \in BOOLEAN

\* The variables keep their types, and the digest window does not move past a
\* signup before a mail that counts it has gone out, however mails fail and ticks
\* break off; only a signup whose transaction commits after the count escapes it.
NothingSwallowed ==
    JobsTypeOK /\ \A i \in DOMAIN signups :
        signups[i].at <= lastDigest /\ signups[i].status # "cancelled"
            => told[i] > 0 \/ i \in late

\* An organizer is warned once of a signup, unless a failure falls between the
\* mail and its mark.
WarnedOnce == unmarked \/ \A i \in 1 .. MaxSignups : warned[i] <= 1

\* A signup that stays pending for too long on an event that is published and not
\* over is escalated: a mail about it goes out, whatever breaks off the ticks
\* meanwhile, unless the mail is refused, which nothing makes up for.
EscalationComes ==
    \A i \in 1 .. MaxSignups :
        <>[](i \in DOMAIN signups /\ Running /\ signups[i].status = "pending"
               /\ signups[i].at < clock - Patience)
          => <>(warned[i] > 0 \/ i \in unsent)
=============================================================================
