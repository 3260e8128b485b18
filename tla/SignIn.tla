-------------------------------- MODULE SignIn --------------------------------
(***************************************************************************)
(* Sign-in without a password (auth/service.ts): a mail carries a link and *)
(* a six-digit code, either opens a session, and the session is renewed as *)
(* it is used.  No statement runs in a transaction, so every statement is  *)
(* a step, and a crash can fall between any two.                           *)
(*                                                                         *)
(* A link is named by its place in the order of creation.  Time is counted *)
(* in units shorter than the lifetimes; a request lasts at most one unit.  *)
(*                                                                         *)
(* Left out: the profile fields of a user, the texts of mails and pages,   *)
(* and the addresses of the callers (all of them come from one network).   *)
(***************************************************************************)
EXTENDS Integers, Sequences, FiniteSets

CONSTANTS
    Emails,
    Workers,        \* requests in flight
    LinkTTL,        \* MAGIC_LINK_TTL_MS
    MaxAttempts,    \* MAX_VERIFY_ATTEMPTS
    EmailLimit, EmailWindow, IpLimit, IpWindow,
    Persistent, Ephemeral,  \* lifetimes of sessions
    Rest,           \* a session younger than this is not renewed
    MaxTime,        \* bound of the clock
    MaxLinks        \* bound on mails

ASSUME SignInAssumption ==
    /\ {LinkTTL, EmailWindow, IpWindow, Persistent, Ephemeral} \subseteq Nat
    /\ {MaxAttempts, EmailLimit, IpLimit, Rest} \subseteq Nat \ {0}
    /\ {MaxTime, MaxLinks} \subseteq Nat /\ IsFiniteSet(Workers)

VARIABLES
    now,
    welcome,    \* addresses let in without an account: CMU, organizers, +1 links
    users,      \* addresses with an account
    links,      \* magic_links in order of creation
    sessions,   \* sessions in order of creation
    emailBucket, ipBucket,
    req,        \* what each request is doing
    sent,       \* history: when mails went out since the process started
    misses      \* history: wrong codes judged against each unused link, or Raced

rows == <<welcome, users, links, sessions>>
buckets == <<emailBucket, ipBucket>>
vars == <<now, rows, buckets, req, sent, misses>>

\* failed is history: the mail failed, and its request has not broken off
Links == [email: Emails, expires: Nat, attempts: Nat, consumed: BOOLEAN,
          keep: BOOLEAN, gone: BOOLEAN, failed: BOOLEAN]
Sessions == [email: Emails, from: Nat, keep: BOOLEAN, seen: Nat, expires: Nat,
             used: Nat, revoked: BOOLEAN]     \* from and used are history
Buckets == [count: Nat, resetAt: Int]
NoBucket == [count |-> 0, resetAt |-> -1]
Raced == -1     \* one guess was judged before another was counted, or never counted

Idle == [pc |-> "idle", link |-> 0, code |-> 0, session |-> 0, at |-> 0]
Steps == {"idle", "mail", "retract", "compare", "count", "admit", "open", "roll"}
Requests == [pc: Steps, link: Nat, code: Nat, session: Nat, at: Nat]

At(w, pc) == req[w].pc = pc
Become(w, r) == req' = [req EXCEPT ![w] = r]
Finish(w) == Become(w, Idle)
Lifetime(keep) == IF keep THEN Persistent ELSE Ephemeral

Init ==
    /\ now = 0 /\ welcome = Emails /\ users = {}
    /\ links = <<>> /\ sessions = <<>>
    /\ emailBucket = [e \in Emails |-> NoBucket] /\ ipBucket = NoBucket
    /\ req = [w \in Workers |-> Idle]
    /\ sent = <<>> /\ misses = <<>>

Pending(l) == ~links[l].gone /\ ~links[l].consumed
Live(l) == Pending(l) /\ links[l].expires > now
LiveLinks(e) == {l \in DOMAIN links : links[l].email = e /\ Live(l)}

(***************************************************************************)
(* startAuth.  The definitions called Faulty... are wrong on purpose and   *)
(* stand in for the one below them when a property is tested.              *)
(***************************************************************************)
FaultyBumped(b, window) ==      \* forgets to count
    IF b.resetAt < now THEN [count |-> 1, resetAt |-> now + window] ELSE b

Bumped(b, window) ==
    IF b.resetAt < now THEN [count |-> 1, resetAt |-> now + window]
    ELSE [b EXCEPT !.count = @ + 1]

Within(b, limit, window) == Bumped(b, window).count <= limit

\* the address's bucket is bumped even when the network's turns the caller away
StartRefused(e) ==
    LET b == emailBucket[e] IN
    /\ e \in welcome \cup users
    /\ b.count <= EmailLimit /\ ipBucket.count <= IpLimit   \* bounds the counts
    /\ emailBucket' = [emailBucket EXCEPT ![e] = Bumped(@, EmailWindow)]
    /\ IF Within(b, EmailLimit, EmailWindow)
       THEN /\ ~Within(ipBucket, IpLimit, IpWindow)
            /\ ipBucket' = Bumped(ipBucket, IpWindow)
       ELSE UNCHANGED ipBucket
    /\ UNCHANGED <<now, rows, req, sent, misses>>

Start(w, e, keep) ==
    /\ At(w, "idle") /\ e \in welcome \cup users
    /\ Len(links) < MaxLinks
    /\ Within(emailBucket[e], EmailLimit, EmailWindow) /\ Within(ipBucket, IpLimit, IpWindow)
    /\ emailBucket' = [emailBucket EXCEPT ![e] = Bumped(@, EmailWindow)]
    /\ ipBucket' = Bumped(ipBucket, IpWindow)
    /\ links' = Append(links, [email |-> e, expires |-> now + LinkTTL, attempts |-> 0,
                               consumed |-> FALSE, keep |-> keep, gone |-> FALSE,
                               failed |-> FALSE])
    /\ misses' = Append(misses, 0)
    /\ sent' = Append(sent, [to |-> e, at |-> now])
    /\ Become(w, [Idle EXCEPT !.pc = "mail", !.link = Len(links) + 1])
    /\ UNCHANGED <<now, welcome, users, sessions>>

FaultyAfterMail(ok) == "idle"       \* a failed mail leaves its link

AfterMail(ok) == IF ok THEN "idle" ELSE "retract"

Mail(w, ok) ==
    /\ At(w, "mail")
    /\ links' = [links EXCEPT ![req[w].link].failed = ~ok]
    /\ Become(w, IF AfterMail(ok) = "idle" THEN Idle ELSE [req[w] EXCEPT !.pc = AfterMail(ok)])
    /\ UNCHANGED <<now, welcome, users, sessions, buckets, sent, misses>>

Retract(w) ==
    /\ At(w, "retract") /\ Finish(w)
    /\ links' = [links EXCEPT ![req[w].link] = [@ EXCEPT !.gone = TRUE, !.failed = FALSE]]
    /\ UNCHANGED <<now, welcome, users, sessions, buckets, sent, misses>>

(***************************************************************************)
(* consumeCode and verifyByToken, and the session they open.  A code is    *)
(* the number of the link it was sent with, or 0 for any other.            *)
(***************************************************************************)
Look(w, e, code) ==
    /\ At(w, "idle")
    /\ \E l \in LiveLinks(e) :
         /\ \A k \in LiveLinks(e) : k <= l
         /\ Become(w, [Idle EXCEPT !.pc = "compare", !.link = l, !.code = IF code = l THEN l ELSE 0])
    /\ UNCHANGED <<now, rows, buckets, sent, misses>>

FaultyOpenTo(l) == ~links[l].gone /\ links[l].attempts < MaxAttempts   \* used or not

OpenTo(l) == Pending(l) /\ links[l].attempts < MaxAttempts

\* the requests whose code was wrong and not counted yet
Guessing(l) == {w \in Workers : At(w, "count") /\ req[w].link = l}

\* the first UPDATE: code, single use and the cap in one WHERE, no expiry
Compare(w) ==
    LET l == req[w].link IN
    /\ At(w, "compare")
    /\ IF OpenTo(l) /\ req[w].code = l
       THEN /\ links' = [links EXCEPT ![l].consumed = TRUE]
            /\ misses' = [misses EXCEPT ![l] = 0]
            /\ Become(w, [Idle EXCEPT !.pc = "admit", !.link = l])
       ELSE /\ misses' = [misses EXCEPT ![l] = IF ~OpenTo(l) THEN @
                                                ELSE IF @ = Raced \/ Guessing(l) # {} THEN Raced
                                                ELSE @ + 1]
            /\ Become(w, [Idle EXCEPT !.pc = "count", !.link = l])
            /\ UNCHANGED links
    /\ UNCHANGED <<now, welcome, users, sessions, buckets, sent>>

FaultyCounted(l) == IF links[l].consumed THEN 1 ELSE 0

Counted(l) == IF OpenTo(l) THEN 1 ELSE 0

\* the second UPDATE: one attempt more, of a link still open
Count(w) ==
    LET l == req[w].link IN
    /\ At(w, "count") /\ Finish(w)
    /\ links' = [links EXCEPT ![l].attempts = @ + Counted(l)]
    /\ UNCHANGED <<now, welcome, users, sessions, buckets, sent, misses>>

FaultyClick(w, l) ==            \* a link that was used opens again
    /\ At(w, "idle") /\ ~links[l].gone /\ links[l].expires > now
    /\ Become(w, [Idle EXCEPT !.pc = "admit", !.link = l])
    /\ UNCHANGED <<now, rows, buckets, sent, misses>>

\* the link of the mail, confirmed: no look at the attempts
Click(w, l) ==
    /\ At(w, "idle") /\ Live(l)
    /\ links' = [links EXCEPT ![l].consumed = TRUE]
    /\ misses' = [misses EXCEPT ![l] = 0]
    /\ Become(w, [Idle EXCEPT !.pc = "admit", !.link = l])
    /\ UNCHANGED <<now, welcome, users, sessions, buckets, sent>>

Admit(w) ==
    /\ At(w, "admit")
    /\ users' = users \cup {links[req[w].link].email}
    /\ Become(w, [req[w] EXCEPT !.pc = "open"])
    /\ UNCHANGED <<now, welcome, links, sessions, buckets, sent, misses>>

OpenSession(w) ==
    LET l == req[w].link IN
    /\ At(w, "open") /\ Finish(w)
    /\ sessions' = Append(sessions,
         [email |-> links[l].email, from |-> l, keep |-> links[l].keep, seen |-> now,
          expires |-> now + Lifetime(links[l].keep), used |-> now, revoked |-> FALSE])
    /\ UNCHANGED <<now, welcome, users, links, buckets, sent, misses>>

(***************************************************************************)
(* resolveSession, which runs before every request to the API, and         *)
(* revokeSession.                                                          *)
(***************************************************************************)
Resolve(w, s) ==
    /\ At(w, "idle") /\ ~sessions[s].revoked /\ sessions[s].expires > now
    /\ IF now - sessions[s].seen > Rest
       THEN /\ Become(w, [Idle EXCEPT !.pc = "roll", !.session = s, !.at = now])
            /\ UNCHANGED sessions
       ELSE /\ sessions' = [sessions EXCEPT ![s].used = now]
            /\ UNCHANGED req
    /\ UNCHANGED <<now, welcome, users, links, buckets, sent, misses>>

Latest(a, b) == IF a < b THEN b ELSE a

FaultyRolled(s, at) ==          \* the end stays where it was
    [s EXCEPT !.seen = at, !.used = Latest(@, at)]

Rolled(s, at) ==
    [s EXCEPT !.seen = at, !.expires = at + Lifetime(s.keep), !.used = Latest(@, at)]

\* UPDATE by id, with the time the request began
Roll(w) ==
    LET r == req[w] IN
    /\ At(w, "roll") /\ Finish(w)
    /\ sessions' = [sessions EXCEPT ![r.session] = Rolled(@, r.at)]
    /\ UNCHANGED <<now, welcome, users, links, buckets, sent, misses>>

SignOut(s) ==
    /\ ~sessions[s].revoked
    /\ sessions' = [sessions EXCEPT ![s].revoked = TRUE]
    /\ UNCHANGED <<now, welcome, users, links, buckets, req, sent, misses>>

(***************************************************************************)
(* The surroundings: an organizer is removed or a +1 link is used up, time *)
(* passes, the process restarts with empty buckets.                        *)
(***************************************************************************)
Unwelcome(e) ==
    /\ e \in welcome
    /\ welcome' = welcome \ {e}
    /\ UNCHANGED <<now, users, links, sessions, buckets, req, sent, misses>>

Tick ==
    /\ now < MaxTime
    /\ \A w \in Workers : At(w, "roll") => req[w].at = now
    /\ now' = now + 1
    /\ UNCHANGED <<rows, buckets, req, sent, misses>>

\* requests break off: nobody learns that a mail failed or counts a wrong code
BreakOff(ws) ==
    /\ links' = [l \in DOMAIN links |-> [links[l] EXCEPT
                    !.failed = @ /\ ~\E w \in ws : At(w, "retract") /\ req[w].link = l]]
    /\ misses' = [l \in DOMAIN links |->
                    IF OpenTo(l) /\ Guessing(l) \cap ws # {} THEN Raced ELSE misses[l]]

\* a statement fails: the request answers 500, and what it had written stays
Fail(w) ==
    /\ req[w].pc \notin {"idle", "mail"} /\ Finish(w) /\ BreakOff({w})
    /\ UNCHANGED <<now, welcome, users, sessions, buckets, sent>>

Restart ==
    /\ emailBucket' = [e \in Emails |-> NoBucket] /\ ipBucket' = NoBucket
    /\ req' = [w \in Workers |-> Idle]
    /\ sent' = <<>> /\ BreakOff(Workers)
    /\ UNCHANGED <<now, welcome, users, sessions>>

Next ==
    \/ \E e \in Emails : StartRefused(e) \/ Unwelcome(e)
    \/ \E w \in Workers, e \in Emails, keep \in BOOLEAN : Start(w, e, keep)
    \/ \E w \in Workers, e \in Emails, code \in 0 .. Len(links) : Look(w, e, code)
    \/ \E w \in Workers, l \in DOMAIN links : Click(w, l)
    \/ \E w \in Workers, s \in DOMAIN sessions : Resolve(w, s)
    \/ \E w \in Workers, ok \in BOOLEAN : Mail(w, ok)
    \/ \E w \in Workers :
         \/ Retract(w) \/ Compare(w) \/ Count(w) \/ Fail(w)
         \/ Admit(w) \/ OpenSession(w) \/ Roll(w)
    \/ \E s \in DOMAIN sessions : SignOut(s)
    \/ Tick
    \/ Restart

Spec == Init /\ [][Next]_vars
-----------------------------------------------------------------------------
(***************************************************************************)
(* Properties.                                                             *)
(***************************************************************************)
\* Every variable keeps its type.
TypeOK ==
    /\ now \in Nat /\ welcome \subseteq Emails /\ users \subseteq Emails
    /\ links \in Seq(Links) /\ sessions \in Seq(Sessions)
    /\ emailBucket \in [Emails -> Buckets] /\ ipBucket \in Buckets
    /\ req \in [Workers -> Requests]
    /\ \A w \in Workers :
         /\ req[w].pc \notin {"idle", "roll"} => req[w].link \in DOMAIN links
         /\ At(w, "roll") => req[w].session \in DOMAIN sessions
    /\ sent \in Seq([to: Emails, at: Nat])
    /\ misses \in Seq(Int) /\ Len(misses) = Len(links)

Entering(w) == req[w].pc \in {"admit", "open"}

\* However its code and its link are used, and by however many requests at
\* once, one mail opens at most one session.
OneSessionPerLink ==
    \A i, j \in DOMAIN sessions : sessions[i].from = sessions[j].from => i = j

\* What makes it so: a request on its way to a session holds a link that is
\* consumed, that nobody else holds and that opened no session before.
Claims ==
    /\ \A i \in DOMAIN sessions :
         /\ sessions[i].from \in DOMAIN links
         /\ links[sessions[i].from].consumed
    /\ \A w \in Workers : Entering(w) =>
         /\ links[req[w].link].consumed
         /\ \A i \in DOMAIN sessions : sessions[i].from # req[w].link
         /\ \A v \in Workers \ {w} : Entering(v) => req[v].link # req[w].link

\* A session outlives the last request it served by its whole lifetime, up to the
\* hour in which it is not renewed again, even when renewals overtake each other.
SignedInWhileUsed ==
    \A s \in DOMAIN sessions :
        sessions[s].expires >= sessions[s].used + Lifetime(sessions[s].keep) - Rest

\* No more than MaxAttempts wrong codes are judged against a link until it is
\* used, restarts included, as long as each is counted before the next is judged.
\* Guesses judged at the same time are not capped, nor is one whose count is lost.
GuessesCapped == \A l \in DOMAIN links : misses[l] <= MaxAttempts

\* The mails to one address since its bucket was started stay within the limit,
\* whatever runs at once and whatever the network's bucket did in between.
MailsLimited ==
    \A e \in Emails :
        Cardinality({j \in DOMAIN sent :
            sent[j].to = e /\ sent[j].at + EmailWindow >= emailBucket[e].resetAt}) <= EmailLimit

\* A code that cannot have reached anybody does not stand in front of an older
\* one: a link whose mail failed is live only until its request deletes it, unless
\* the DELETE fails or the process restarts before it.
NothingShadows ==
    \A l \in DOMAIN links :
        Live(l) /\ links[l].failed =>
            \E w \in Workers : At(w, "retract") /\ req[w].link = l
=============================================================================
