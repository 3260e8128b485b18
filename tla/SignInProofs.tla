----------------------------- MODULE SignInProofs -----------------------------
(***************************************************************************)
(* What SignIn keeps for every set of addresses and requests and for every *)
(* lifetime and limit.                                                     *)
(***************************************************************************)
EXTENDS SignIn, FiniteSetTheorems, SequenceTheorems, TLAPS

-----------------------------------------------------------------------------
LEMMA InitTypeOK == Init => TypeOK
<1> SUFFICES ASSUME Init PROVE TypeOK
  OBVIOUS
<1>1. Idle \in Requests /\ NoBucket \in Buckets /\ Idle.pc = "idle"
  BY DEF Idle, Requests, Steps, NoBucket, Buckets
<1>2. links = <<>> /\ sessions = <<>> /\ sent = <<>> /\ misses = <<>>
  BY DEF Init
<1>3. <<>> \in Seq(Links) /\ <<>> \in Seq(Sessions) /\ <<>> \in Seq(Int)
      /\ <<>> \in Seq([to: Emails, at: Nat])
  OBVIOUS
<1>4. req \in [Workers -> Requests] /\ \A w \in Workers : req[w].pc = "idle"
  BY <1>1 DEF Init
<1> QED BY <1>1, <1>2, <1>3, <1>4 DEF Init, TypeOK, At

\* A request that takes a step to a well-formed record leaves the others alone.
LEMMA Moved ==
    ASSUME TypeOK, NEW w \in Workers, NEW r \in Requests, Become(w, r)
    PROVE  /\ req' \in [Workers -> Requests]
           /\ req'[w] = r
           /\ \A v \in Workers \ {w} : req'[v] = req[v]
BY DEF TypeOK, Become

\* What every request refers to exists; rows are only added.
Refers(r, ls, ss) ==
    /\ r.pc \notin {"idle", "roll"} => r.link \in DOMAIN ls
    /\ r.pc = "roll" => r.session \in DOMAIN ss

LEMMA RefersKept ==
    ASSUME TypeOK, NEW w \in Workers, NEW r \in Requests, Become(w, r), Refers(r, links', sessions'),
           DOMAIN links \subseteq DOMAIN links', DOMAIN sessions \subseteq DOMAIN sessions'
    PROVE  \A v \in Workers :
             /\ req'[v].pc \notin {"idle", "roll"} => req'[v].link \in DOMAIN links'
             /\ At(v, "roll")' => req'[v].session \in DOMAIN sessions'
<1>1. \A v \in Workers : v = w \/ req'[v] = req[v]
  BY Moved
<1>2. req'[w] = r
  BY Moved
<1> QED BY <1>1, <1>2 DEF TypeOK, Refers, At

LEMMA Bump ==
    ASSUME TypeOK, NEW b \in Buckets, NEW window \in Nat
    PROVE  Bumped(b, window) \in Buckets
<1>1. now \in Nat
  BY DEF TypeOK
<1>2. b.count \in Nat /\ b.resetAt \in Int
  BY DEF Buckets
<1>3. now + window \in Int /\ b.count + 1 \in Nat
  BY <1>1, <1>2
<1>4. [b EXCEPT !.count = b.count + 1] \in Buckets
  BY <1>3 DEF Buckets
<1>5. [count |-> 1, resetAt |-> now + window] \in Buckets
  BY <1>3 DEF Buckets
<1> QED BY <1>4, <1>5 DEF Bumped

\* What the type of the state says of each row and each request.
LEMMA Typed ==
    ASSUME TypeOK
    PROVE  /\ now \in Nat
           /\ \A l \in DOMAIN links : links[l] \in Links /\ l \in Nat
                                     /\ l \in DOMAIN misses /\ misses[l] \in Int
           /\ \A s \in DOMAIN sessions : sessions[s] \in Sessions /\ s \in Nat
           /\ \A w \in Workers : /\ req[w] \in Requests
                                 /\ req[w].pc \notin {"idle", "roll"} => req[w].link \in DOMAIN links
                                 /\ req[w].pc = "roll" => req[w].session \in DOMAIN sessions
<1>1. now \in Nat
  BY DEF TypeOK
<1>2. ASSUME NEW l \in DOMAIN links
      PROVE  links[l] \in Links /\ l \in Nat /\ l \in DOMAIN misses /\ misses[l] \in Int
  <2>1. links \in Seq(Links) /\ misses \in Seq(Int) /\ Len(misses) = Len(links)
    BY DEF TypeOK
  <2> QED BY <2>1, ElementOfSeq
<1>3. ASSUME NEW s \in DOMAIN sessions PROVE sessions[s] \in Sessions /\ s \in Nat
  <2>1. sessions \in Seq(Sessions)
    BY DEF TypeOK
  <2> QED BY <2>1, ElementOfSeq
<1>4. ASSUME NEW w \in Workers
      PROVE  /\ req[w] \in Requests
             /\ req[w].pc \notin {"idle", "roll"} => req[w].link \in DOMAIN links
             /\ req[w].pc = "roll" => req[w].session \in DOMAIN sessions
  BY DEF TypeOK, At
<1> QED BY <1>1, <1>2, <1>3, <1>4

LEMMA IdleFits == Idle \in Requests /\ Refers(Idle, links', sessions')
BY DEF Idle, Requests, Steps, Refers

\* Replacing a row of a table by a row of the same type.
LEMMA RowReplaced ==
    ASSUME NEW R, NEW t \in Seq(R), NEW i \in DOMAIN t, NEW x \in R
    PROVE  [t EXCEPT ![i] = x] \in Seq(R) /\ DOMAIN [t EXCEPT ![i] = x] = DOMAIN t
           /\ Len([t EXCEPT ![i] = x]) = Len(t)
BY ExceptSeq

LEMMA RowAdded ==
    ASSUME NEW R, NEW t \in Seq(R), NEW x \in R
    PROVE  /\ Append(t, x) \in Seq(R) /\ Len(Append(t, x)) = Len(t) + 1
           /\ DOMAIN t \subseteq DOMAIN Append(t, x)
           /\ Len(t) + 1 \in DOMAIN Append(t, x)
           /\ Append(t, x)[Len(t) + 1] = x
           /\ \A i \in DOMAIN t : Append(t, x)[i] = t[i]
           /\ \A i \in DOMAIN Append(t, x) : i \in DOMAIN t \/ i = Len(t) + 1
BY AppendProperties

\* Requests that break off change nothing of a link but the history kept of it.
LEMMA BrokenOff ==
    ASSUME TypeOK, NEW ws \in SUBSET Workers, BreakOff(ws)
    PROVE  /\ links' \in Seq(Links) /\ Len(links') = Len(links) /\ DOMAIN links' = DOMAIN links
           /\ misses' \in Seq(Int) /\ Len(misses') = Len(misses)
           /\ \A l \in DOMAIN links :
                /\ links'[l].gone = links[l].gone /\ links'[l].consumed = links[l].consumed
                /\ links'[l].attempts = links[l].attempts
                /\ links'[l].failed <=> /\ links[l].failed
                                       /\ \A w \in ws : ~ (At(w, "retract") /\ req[w].link = l)
                /\ misses'[l] = IF OpenTo(l) /\ Guessing(l) \cap ws # {} THEN Raced ELSE misses[l]
<1>1. PICK f \in [DOMAIN links -> BOOLEAN] :
        \A l \in DOMAIN links : f[l] <=> /\ links[l].failed
                                        /\ \A w \in ws : ~ (At(w, "retract") /\ req[w].link = l)
  <2> DEFINE f == [l \in DOMAIN links |->
                     links[l].failed /\ ~\E w \in ws : At(w, "retract") /\ req[w].link = l]
  <2>1. f \in [DOMAIN links -> BOOLEAN]
    BY Zenon, Typed DEF Links
  <2> QED BY <2>1
<1>2. PICK g : g = [l \in DOMAIN links |-> [links[l] EXCEPT !.failed = f[l]]]
  OBVIOUS
<1>3. links' = g
  BY <1>1, <1>2, Typed DEF BreakOff, Links
<1>4. \A l \in DOMAIN links : /\ g[l] \in Links /\ g[l].gone = links[l].gone
                             /\ g[l].consumed = links[l].consumed
                             /\ g[l].attempts = links[l].attempts /\ g[l].failed = f[l]
  BY <1>1, <1>2, Typed DEF Links
<1>5. links \in Seq(Links) /\ misses \in Seq(Int) /\ Len(misses) = Len(links)
  BY DEF TypeOK
<1>6. g \in Seq(Links) /\ Len(g) = Len(links) /\ DOMAIN g = DOMAIN links
  BY <1>2, <1>4, <1>5
<1>7. PICK m : m = [l \in DOMAIN links |->
                      IF OpenTo(l) /\ Guessing(l) \cap ws # {} THEN Raced ELSE misses[l]]
  OBVIOUS
<1>8. misses' = m
  BY <1>7 DEF BreakOff
<1>9. \A l \in DOMAIN links : m[l] \in Int
  BY <1>7, Typed DEF Raced
<1>10. m \in Seq(Int) /\ Len(m) = Len(links)
  BY <1>5, <1>7, <1>9
<1> QED BY <1>1, <1>3, <1>4, <1>5, <1>6, <1>7, <1>8, <1>10

LEMMA StepTypeOK == TypeOK /\ [Next]_vars => TypeOK'
<1> SUFFICES ASSUME TypeOK, [Next]_vars PROVE TypeOK'
  OBVIOUS
<1> USE SignInAssumption
<1>1. ASSUME NEW e \in Emails, StartRefused(e) PROVE TypeOK'
  <2>1. Bumped(emailBucket[e], EmailWindow) \in Buckets /\ Bumped(ipBucket, IpWindow) \in Buckets
    BY Bump DEF TypeOK
  <2> QED BY <1>1, <2>1 DEF StartRefused, TypeOK, At, rows
<1>2. ASSUME NEW e \in Emails, Unwelcome(e) PROVE TypeOK'
  BY <1>2 DEF Unwelcome, TypeOK, At, buckets
<1>3. ASSUME NEW w \in Workers, NEW e \in Emails, NEW keep \in BOOLEAN, Start(w, e, keep)
      PROVE  TypeOK'
  <2>1. Bumped(emailBucket[e], EmailWindow) \in Buckets /\ Bumped(ipBucket, IpWindow) \in Buckets
    BY Bump DEF TypeOK
  <2> DEFINE l == [email |-> e, expires |-> now + LinkTTL, attempts |-> 0, consumed |-> FALSE,
                   keep |-> keep, gone |-> FALSE, failed |-> FALSE]
             r == [Idle EXCEPT !.pc = "mail", !.link = Len(links) + 1]
             s == [to |-> e, at |-> now]
  <2>2. l \in Links /\ s \in [to: Emails, at: Nat] /\ 0 \in Int
    BY DEF Links, TypeOK
  <2>3. r \in Requests /\ r.pc = "mail" /\ r.link = Len(links) + 1
    <3>1. Len(links) + 1 \in Nat
      BY DEF TypeOK
    <3> QED BY <3>1 DEF Requests, Idle, Steps
  <2>4. /\ links' = Append(links, l) /\ sent' = Append(sent, s) /\ misses' = Append(misses, 0)
        /\ Become(w, r) /\ UNCHANGED <<now, welcome, users, sessions>>
        /\ emailBucket' = [emailBucket EXCEPT ![e] = Bumped(@, EmailWindow)]
        /\ ipBucket' = Bumped(ipBucket, IpWindow)
    BY <1>3 DEF Start
  <2> HIDE DEF l, r, s
  <2>5. /\ links' \in Seq(Links) /\ DOMAIN links \subseteq DOMAIN links'
        /\ Len(links) + 1 \in DOMAIN links' /\ Len(links') = Len(links) + 1
    BY <2>2, <2>4, RowAdded DEF TypeOK
  <2>6. sent' \in Seq([to: Emails, at: Nat])
    BY <2>2, <2>4, RowAdded DEF TypeOK
  <2>7. misses' \in Seq(Int) /\ Len(misses') = Len(misses) + 1
    BY <2>4, RowAdded DEF TypeOK
  <2>8. Refers(r, links', sessions')
    BY <2>3, <2>5 DEF Refers
  <2>9. \A v \in Workers :
             /\ req'[v].pc \notin {"idle", "roll"} => req'[v].link \in DOMAIN links'
             /\ At(v, "roll")' => req'[v].session \in DOMAIN sessions'
    BY <2>3, <2>4, <2>5, <2>8, RefersKept
  <2>10. req' \in [Workers -> Requests]
    BY <2>3, <2>4, Moved
  <2> QED BY <2>1, <2>4, <2>5, <2>6, <2>7, <2>9, <2>10 DEF TypeOK
\* Steps of one request that add no row and replace none but one link.
<1>4. ASSUME NEW w \in Workers, NEW r \in Requests, Become(w, r), Refers(r, links', sessions'),
             links' \in Seq(Links), Len(links') = Len(links), Len(misses') = Len(misses),
             users' \subseteq Emails, misses' \in Seq(Int),
             sessions' \in Seq(Sessions), Len(sessions') = Len(sessions),
             UNCHANGED <<now, welcome, buckets, sent>>
      PROVE  TypeOK'
  <2>1. DOMAIN links' = DOMAIN links /\ DOMAIN sessions' = DOMAIN sessions
    BY <1>4 DEF TypeOK
  <2>2. \A v \in Workers :
             /\ req'[v].pc \notin {"idle", "roll"} => req'[v].link \in DOMAIN links'
             /\ At(v, "roll")' => req'[v].session \in DOMAIN sessions'
    BY <1>4, <2>1, RefersKept
  <2>3. req' \in [Workers -> Requests]
    BY <1>4, Moved
  <2> QED BY <1>4, <2>2, <2>3 DEF TypeOK, buckets
<1>5. ASSUME NEW w \in Workers, NEW ok \in BOOLEAN, Mail(w, ok) PROVE TypeOK'
  <2> DEFINE l == req[w].link
             x == [links[l] EXCEPT !.failed = ~ok]
             r == IF AfterMail(ok) = "idle" THEN Idle ELSE [req[w] EXCEPT !.pc = AfterMail(ok)]
  <2>1. l \in DOMAIN links /\ links[l] \in Links /\ req[w] \in Requests
    BY <1>5, Typed DEF Mail, At
  <2>2. x \in Links
    BY <2>1 DEF Links
  <2>3. r \in Requests /\ (r.pc # "idle" => r.pc = "retract" /\ r.link = l)
    BY <2>1, IdleFits DEF AfterMail, Requests, Steps, Idle
  <2>4. links' = [links EXCEPT ![l] = x] /\ Become(w, r)
        /\ UNCHANGED <<now, welcome, users, sessions, buckets, sent, misses>>
    BY <1>5 DEF Mail
  <2> HIDE DEF x, r, l
  <2>5. links' \in Seq(Links) /\ Len(links') = Len(links) /\ DOMAIN links' = DOMAIN links
    BY <2>1, <2>2, <2>4, RowReplaced DEF TypeOK
  <2>6. Refers(r, links', sessions')
    BY <2>1, <2>3, <2>5 DEF Refers
  <2> QED BY <1>4, <2>3, <2>4, <2>5, <2>6 DEF TypeOK
<1>6. ASSUME NEW w \in Workers, Retract(w) PROVE TypeOK'
  <2> DEFINE l == req[w].link
             x == [links[l] EXCEPT !.gone = TRUE, !.failed = FALSE]
  <2>1. l \in DOMAIN links /\ links[l] \in Links
    BY <1>6, Typed DEF Retract, At
  <2>2. x \in Links
    BY <2>1 DEF Links
  <2>3. links' = [links EXCEPT ![l] = x] /\ Become(w, Idle)
        /\ UNCHANGED <<now, welcome, users, sessions, buckets, sent, misses>>
    BY <1>6 DEF Retract, Finish
  <2> HIDE DEF x, l
  <2>4. links' \in Seq(Links) /\ Len(links') = Len(links)
    BY <2>1, <2>2, <2>3, RowReplaced DEF TypeOK
  <2> QED BY <1>4, <2>3, <2>4, IdleFits DEF TypeOK
<1>7. ASSUME NEW w \in Workers, NEW e \in Emails, NEW code \in 0 .. Len(links), Look(w, e, code)
      PROVE  TypeOK'
  <2>1. PICK l \in LiveLinks(e), c \in Nat :
           Become(w, [Idle EXCEPT !.pc = "compare", !.link = l, !.code = c])
    BY <1>7, Typed DEF Look, LiveLinks
  <2> DEFINE r == [Idle EXCEPT !.pc = "compare", !.link = l, !.code = c]
  <2>2. l \in DOMAIN links /\ l \in Nat /\ c \in Nat
    BY DEF LiveLinks, TypeOK
  <2>3. r \in Requests /\ r.pc = "compare" /\ r.link = l
    BY <2>2 DEF Requests, Steps, Idle
  <2>4. Become(w, r)
    BY <2>1
  <2> HIDE DEF r
  <2>5. UNCHANGED <<now, welcome, users, links, sessions, buckets, sent, misses>>
    BY <1>7 DEF Look, rows
  <2>6. Refers(r, links', sessions')
    BY <2>2, <2>3, <2>5 DEF Refers
  <2> QED BY <1>4, <2>3, <2>4, <2>5, <2>6 DEF TypeOK
<1>8. ASSUME NEW w \in Workers, Compare(w) PROVE TypeOK'
  <2> DEFINE l == req[w].link
             x == [links[l] EXCEPT !.consumed = TRUE]
  <2>1. l \in DOMAIN links /\ links[l] \in Links /\ l \in DOMAIN misses /\ misses[l] \in Int
    BY <1>8, Typed DEF Compare, At
  <2>2. x \in Links
    BY <2>1 DEF Links
  <2>3. UNCHANGED <<now, welcome, users, sessions, buckets, sent>>
    BY <1>8 DEF Compare
  <2>4. links' = [links EXCEPT ![l] = x] \/ links' = links
    BY <1>8 DEF Compare
  <2>5. PICK n \in Int : misses' = [misses EXCEPT ![l] = n]
    BY <1>8, <2>1 DEF Compare, Raced
  <2>6. PICK r \in Requests : Become(w, r) /\ r.pc \in {"admit", "count"} /\ r.link = l
    <3>1. l \in Nat
      BY <2>1, Typed
    <3>2. \A pc \in {"admit", "count"} :
            /\ [Idle EXCEPT !.pc = pc, !.link = l] \in Requests
            /\ [Idle EXCEPT !.pc = pc, !.link = l].pc = pc
            /\ [Idle EXCEPT !.pc = pc, !.link = l].link = l
      BY <3>1 DEF Requests, Steps, Idle
    <3> QED BY <1>8, <3>2 DEF Compare
  <2> HIDE DEF x, l
  <2>7. /\ links' \in Seq(Links) /\ Len(links') = Len(links) /\ DOMAIN links' = DOMAIN links
        /\ misses' \in Seq(Int) /\ Len(misses') = Len(misses)
    <3>1. links \in Seq(Links) /\ misses \in Seq(Int)
      BY DEF TypeOK
    <3>2. [links EXCEPT ![l] = x] \in Seq(Links) /\ Len([links EXCEPT ![l] = x]) = Len(links)
          /\ DOMAIN [links EXCEPT ![l] = x] = DOMAIN links
      BY <2>1, <2>2, <3>1, RowReplaced
    <3>3. [misses EXCEPT ![l] = n] \in Seq(Int) /\ Len([misses EXCEPT ![l] = n]) = Len(misses)
      BY <2>1, <3>1, RowReplaced
    <3> QED BY <2>4, <2>5, <3>1, <3>2, <3>3
  <2>8. Refers(r, links', sessions')
    BY <2>1, <2>6, <2>7 DEF Refers
  <2> QED BY <1>4, <2>3, <2>6, <2>7, <2>8 DEF TypeOK
<1>9. ASSUME NEW w \in Workers, Count(w) PROVE TypeOK'
  <2> DEFINE l == req[w].link
             x == [links[l] EXCEPT !.attempts = @ + Counted(l)]
  <2>1. l \in DOMAIN links /\ links[l] \in Links
    BY <1>9, Typed DEF Count, At
  <2>2. x \in Links
    BY <2>1 DEF Links, Counted
  <2>3. links' = [links EXCEPT ![l] = x] /\ Become(w, Idle)
        /\ UNCHANGED <<now, welcome, users, sessions, buckets, sent, misses>>
    BY <1>9 DEF Count, Finish
  <2> HIDE DEF x, l
  <2>4. links' \in Seq(Links) /\ Len(links') = Len(links)
    BY <2>1, <2>2, <2>3, RowReplaced DEF TypeOK
  <2> QED BY <1>4, <2>3, <2>4, IdleFits DEF TypeOK
<1>10. ASSUME NEW w \in Workers, NEW l \in DOMAIN links, Click(w, l) PROVE TypeOK'
  <2> DEFINE x == [links[l] EXCEPT !.consumed = TRUE]
             r == [Idle EXCEPT !.pc = "admit", !.link = l]
  <2>1. links[l] \in Links /\ l \in Nat
    BY Typed
  <2>2. x \in Links /\ r \in Requests /\ r.pc = "admit" /\ r.link = l
    BY <2>1 DEF Links, Requests, Steps, Idle
  <2>3. links' = [links EXCEPT ![l] = x] /\ Become(w, r)
        /\ misses' = [misses EXCEPT ![l] = 0]
        /\ UNCHANGED <<now, welcome, users, sessions, buckets, sent>>
    BY <1>10 DEF Click
  <2> HIDE DEF x, r
  <2>4. links' \in Seq(Links) /\ Len(links') = Len(links) /\ DOMAIN links' = DOMAIN links
    BY <2>2, <2>3, RowReplaced DEF TypeOK
  <2>5. misses' \in Seq(Int) /\ Len(misses') = Len(misses)
    <3>1. l \in DOMAIN misses /\ 0 \in Int
      BY Typed
    <3> QED BY <2>3, <3>1, RowReplaced DEF TypeOK
  <2>6. Refers(r, links', sessions')
    BY <2>2, <2>4 DEF Refers
  <2> QED BY <1>4, <2>2, <2>3, <2>4, <2>5, <2>6 DEF TypeOK
<1>11. ASSUME NEW w \in Workers, Admit(w) PROVE TypeOK'
  <2> DEFINE l == req[w].link
             r == [req[w] EXCEPT !.pc = "open"]
  <2>1. l \in DOMAIN links /\ links[l] \in Links /\ req[w] \in Requests
    BY <1>11, Typed DEF Admit, At
  <2>2. r \in Requests /\ r.pc = "open" /\ r.link = l /\ links[l].email \in Emails
    BY <2>1 DEF Requests, Steps, Links
  <2>3. users' = users \cup {links[l].email} /\ Become(w, r)
        /\ UNCHANGED <<now, welcome, links, sessions, buckets, sent, misses>>
    BY <1>11 DEF Admit
  <2> HIDE DEF r, l
  <2>4. Refers(r, links', sessions')
    BY <2>1, <2>2, <2>3 DEF Refers
  <2> QED BY <1>4, <2>2, <2>3, <2>4 DEF TypeOK
<1>12. ASSUME NEW w \in Workers, OpenSession(w) PROVE TypeOK'
  <2> DEFINE l == req[w].link
             x == [email |-> links[l].email, from |-> l, keep |-> links[l].keep, seen |-> now,
                   expires |-> now + Lifetime(links[l].keep), used |-> now, revoked |-> FALSE]
  <2>1. l \in DOMAIN links /\ links[l] \in Links /\ l \in Nat
    BY <1>12, Typed DEF OpenSession, At
  <2>2. x \in Sessions
    <3>1. /\ links[l].email \in Emails /\ links[l].keep \in BOOLEAN /\ now \in Nat
          /\ now + Lifetime(links[l].keep) \in Nat
      BY <2>1, Typed DEF Links, Lifetime
    <3> QED BY <2>1, <3>1 DEF Sessions
  <2>3. sessions' = Append(sessions, x) /\ Become(w, Idle)
        /\ UNCHANGED <<now, welcome, users, links, buckets, sent, misses>>
    BY <1>12 DEF OpenSession, Finish
  <2> HIDE DEF x, l
  <2>4. sessions' \in Seq(Sessions) /\ DOMAIN sessions \subseteq DOMAIN sessions'
    BY <2>2, <2>3, RowAdded DEF TypeOK
  <2>5. \A v \in Workers :
             /\ req'[v].pc \notin {"idle", "roll"} => req'[v].link \in DOMAIN links'
             /\ At(v, "roll")' => req'[v].session \in DOMAIN sessions'
    BY <2>3, <2>4, IdleFits, RefersKept
  <2>6. req' \in [Workers -> Requests]
    BY <2>3, IdleFits, Moved
  <2> QED BY <2>3, <2>4, <2>5, <2>6 DEF TypeOK, buckets
<1>13. ASSUME NEW w \in Workers, NEW s \in DOMAIN sessions, Resolve(w, s) PROVE TypeOK'
  <2>1. sessions[s] \in Sessions /\ s \in Nat /\ now \in Nat
    BY Typed
  <2>2. CASE now - sessions[s].seen > Rest
    <3> DEFINE r == [Idle EXCEPT !.pc = "roll", !.session = s, !.at = now]
    <3>1. r \in Requests /\ r.pc = "roll" /\ r.session = s
      BY <2>1 DEF Requests, Steps, Idle
    <3>2. Become(w, r) /\ UNCHANGED <<now, welcome, users, links, sessions, buckets, sent, misses>>
      BY <1>13, <2>2 DEF Resolve
    <3> HIDE DEF r
    <3>3. Refers(r, links', sessions')
      BY <3>1, <3>2 DEF Refers
    <3> QED BY <1>4, <3>1, <3>2, <3>3 DEF TypeOK
  <2>3. CASE ~(now - sessions[s].seen > Rest)
    <3> DEFINE x == [sessions[s] EXCEPT !.used = now]
    <3>1. x \in Sessions
      BY <2>1 DEF Sessions
    <3>2. sessions' = [sessions EXCEPT ![s] = x]
          /\ UNCHANGED <<now, welcome, users, links, buckets, sent, misses, req>>
      BY <1>13, <2>3 DEF Resolve
    <3> HIDE DEF x
    <3>3. sessions' \in Seq(Sessions) /\ DOMAIN sessions' = DOMAIN sessions
      BY <3>1, <3>2, RowReplaced DEF TypeOK
    <3> QED BY <3>2, <3>3 DEF TypeOK, At, buckets
  <2> QED BY <2>2, <2>3
<1>14. ASSUME NEW w \in Workers, Roll(w) PROVE TypeOK'
  <2> DEFINE r == req[w]
             s == r.session
             x == Rolled(sessions[s], r.at)
  <2>1. s \in DOMAIN sessions /\ sessions[s] \in Sessions /\ r.at \in Nat
    BY <1>14, Typed DEF Roll, At, Requests
  <2>2. x \in Sessions
    <3>1. /\ r.at + Lifetime(sessions[s].keep) \in Nat
          /\ Latest(sessions[s].used, r.at) \in Nat
      BY <2>1 DEF Sessions, Lifetime, Latest
    <3> QED BY <2>1, <3>1 DEF Rolled, Sessions
  <2>3. sessions' = [sessions EXCEPT ![s] = x] /\ Become(w, Idle)
        /\ UNCHANGED <<now, welcome, users, links, buckets, sent, misses>>
    BY <1>14 DEF Roll, Finish
  <2> HIDE DEF x, s
  <2>4. sessions' \in Seq(Sessions) /\ Len(sessions') = Len(sessions)
    BY <2>1, <2>2, <2>3, RowReplaced DEF TypeOK
  <2> QED BY <1>4, <2>3, <2>4, IdleFits DEF TypeOK
<1>15. ASSUME NEW s \in DOMAIN sessions, SignOut(s) PROVE TypeOK'
  <2> DEFINE x == [sessions[s] EXCEPT !.revoked = TRUE]
  <2>1. x \in Sessions
    BY Typed DEF Sessions
  <2>2. sessions' = [sessions EXCEPT ![s] = x]
        /\ UNCHANGED <<now, welcome, users, links, buckets, sent, misses, req>>
    BY <1>15 DEF SignOut
  <2> HIDE DEF x
  <2>3. sessions' \in Seq(Sessions) /\ DOMAIN sessions' = DOMAIN sessions
    BY <2>1, <2>2, RowReplaced DEF TypeOK
  <2> QED BY <2>2, <2>3 DEF TypeOK, At, buckets
<1>16. CASE Tick
  BY <1>16 DEF Tick, TypeOK, At, rows, buckets
<1>17. CASE Restart
  <2>1. NoBucket \in Buckets /\ Idle \in Requests /\ Idle.pc = "idle"
    BY DEF NoBucket, Buckets, Idle, Requests, Steps
  <2>2. /\ links' \in Seq(Links) /\ Len(links') = Len(links)
        /\ misses' \in Seq(Int) /\ Len(misses') = Len(links)
    <3>1. BreakOff(Workers) /\ Workers \in SUBSET Workers
      BY <1>17 DEF Restart
    <3> QED BY <3>1, BrokenOff DEF TypeOK
  <2>3. sent' \in Seq([to: Emails, at: Nat])
    BY <1>17 DEF Restart
  <2> QED BY <1>17, <2>1, <2>2, <2>3 DEF Restart, TypeOK, At
<1>19. ASSUME NEW w \in Workers, Fail(w) PROVE TypeOK'
  <2>1. /\ BreakOff({w}) /\ {w} \in SUBSET Workers /\ Become(w, Idle)
        /\ UNCHANGED <<now, welcome, users, sessions, buckets, sent>>
    BY <1>19 DEF Fail, Finish
  <2>2. /\ links' \in Seq(Links) /\ Len(links') = Len(links)
        /\ misses' \in Seq(Int) /\ Len(misses') = Len(misses)
    BY <2>1, BrokenOff
  <2> QED BY <1>4, <2>1, <2>2, IdleFits DEF TypeOK
<1>18. CASE UNCHANGED vars
  BY <1>18 DEF vars, rows, buckets, TypeOK, At
<1> QED
  BY <1>1, <1>2, <1>3, <1>5, <1>6, <1>7, <1>8, <1>9, <1>10, <1>11, <1>12, <1>13, <1>14,
     <1>15, <1>16, <1>17, <1>18, <1>19 DEF Next

\* The requests and tables of SignIn keep their types.
THEOREM TypeCorrect == Spec => []TypeOK
<1>1. Init => TypeOK BY InitTypeOK
<1>2. TypeOK /\ [Next]_vars => TypeOK' BY StepTypeOK
<1> QED BY <1>1, <1>2, PTL DEF Spec

-----------------------------------------------------------------------------
Inv == TypeOK /\ Claims /\ OneSessionPerLink

\* A step that opens no session, uses no link and brings nobody closer to a
\* session.
LEMMA Bystander ==
    ASSUME Inv, TypeOK',
           \A w \in Workers : Entering(w)' => Entering(w) /\ req'[w].link = req[w].link,
           \A l \in DOMAIN links : l \in DOMAIN links' /\ (links[l].consumed => links'[l].consumed),
           DOMAIN sessions' = DOMAIN sessions,
           \A i \in DOMAIN sessions : sessions'[i].from = sessions[i].from
    PROVE  Claims' /\ OneSessionPerLink'
<1>1. \A w \in Workers : Entering(w) => req[w].link \in DOMAIN links
  BY Typed DEF Inv, Entering
<1> QED BY <1>1 DEF Inv, Claims, OneSessionPerLink

\* A request that takes a link nobody has used.
LEMMA Taken ==
    ASSUME Inv, NEW w \in Workers, NEW l \in DOMAIN links, ~links[l].consumed,
           DOMAIN links' = DOMAIN links, links'[l].consumed,
           \A k \in DOMAIN links : links[k].consumed => links'[k].consumed,
           sessions' = sessions, req'[w].link = l,
           \A v \in Workers \ {w} : req'[v] = req[v]
    PROVE  Claims' /\ OneSessionPerLink'
<1>1. \A i \in DOMAIN sessions : sessions[i].from # l
  BY DEF Inv, Claims
<1>2. \A v \in Workers : Entering(v) => req[v].link # l
  BY DEF Inv, Claims
<1>3. \A v \in Workers \ {w} : Entering(v)' => Entering(v)
  BY DEF Entering
<1>4. \A v \in Workers : Entering(v) => req[v].link \in DOMAIN links
  BY Typed DEF Inv, Entering
<1> QED BY <1>1, <1>2, <1>3, <1>4 DEF Inv, Claims, OneSessionPerLink

LEMMA StepClaims == Inv /\ [Next]_vars => Claims' /\ OneSessionPerLink'
<1> SUFFICES ASSUME Inv, [Next]_vars PROVE Claims' /\ OneSessionPerLink'
  OBVIOUS
<1>0. TypeOK /\ TypeOK'
  BY StepTypeOK DEF Inv
\* Steps of one request that is not on its way to a session afterwards.
<1>1. ASSUME NEW w \in Workers, NEW r \in Requests, Become(w, r), r.pc \notin {"admit", "open"},
             UNCHANGED sessions,
             \A l \in DOMAIN links : l \in DOMAIN links' /\ (links[l].consumed => links'[l].consumed)
      PROVE  Claims' /\ OneSessionPerLink'
  <2>1. \A v \in Workers : Entering(v)' => v # w /\ req'[v] = req[v]
    BY <1>0, <1>1, Moved DEF Entering
  <2> QED BY <1>0, <1>1, <2>1, Bystander DEF Entering
<1>2. ASSUME UNCHANGED <<req, links>>, DOMAIN sessions' = DOMAIN sessions,
             \A i \in DOMAIN sessions : sessions'[i].from = sessions[i].from
      PROVE  Claims' /\ OneSessionPerLink'
  BY <1>0, <1>2, Bystander DEF Entering
<1>3. ASSUME NEW w \in Workers, NEW e \in Emails, NEW keep \in BOOLEAN, Start(w, e, keep)
      PROVE  Claims' /\ OneSessionPerLink'
  <2> DEFINE r == [Idle EXCEPT !.pc = "mail", !.link = Len(links) + 1]
  <2>1. links \in Seq(Links) /\ Len(links) + 1 \in Nat
    BY <1>0 DEF TypeOK
  <2>2. r \in Requests /\ r.pc = "mail"
    BY <2>1 DEF Requests, Steps, Idle
  <2>3. PICK x \in Links : links' = Append(links, x) /\ Become(w, r) /\ UNCHANGED sessions
    <3>1. [email |-> e, expires |-> now + LinkTTL, attempts |-> 0, consumed |-> FALSE,
           keep |-> keep, gone |-> FALSE, failed |-> FALSE] \in Links
      BY <1>0, SignInAssumption, Typed DEF Links
    <3> QED BY <1>3, <3>1 DEF Start
  <2>4. \A l \in DOMAIN links : l \in DOMAIN links' /\ links'[l] = links[l]
    BY <2>1, <2>3, RowAdded
  <2> HIDE DEF r
  <2> QED BY <1>1, <2>2, <2>3, <2>4
<1>4. ASSUME NEW w \in Workers, NEW ok \in BOOLEAN, Mail(w, ok)
      PROVE  Claims' /\ OneSessionPerLink'
  <2> DEFINE r == IF AfterMail(ok) = "idle" THEN Idle ELSE [req[w] EXCEPT !.pc = AfterMail(ok)]
  <2>1. r \in Requests /\ r.pc \in {"idle", "retract"}
    BY <1>0, Typed DEF AfterMail, Requests, Steps, Idle
  <2>2. Become(w, r) /\ UNCHANGED sessions
        /\ links' = [links EXCEPT ![req[w].link].failed = ~ok]
    BY <1>4 DEF Mail
  <2>3. \A l \in DOMAIN links : l \in DOMAIN links' /\ (links[l].consumed => links'[l].consumed)
    BY <1>0, <2>2, Typed DEF Links
  <2> HIDE DEF r
  <2> QED BY <1>1, <2>1, <2>2, <2>3
<1>5. ASSUME NEW w \in Workers, Retract(w) PROVE Claims' /\ OneSessionPerLink'
  <2>1. \A l \in DOMAIN links : l \in DOMAIN links' /\ (links[l].consumed => links'[l].consumed)
    BY <1>0, <1>5, Typed DEF Retract, Links
  <2> QED BY <1>1, <1>5, <2>1, IdleFits DEF Retract, Finish, Idle
<1>6. ASSUME NEW w \in Workers, NEW e \in Emails, NEW code \in 0 .. Len(links), Look(w, e, code)
      PROVE  Claims' /\ OneSessionPerLink'
  <2>1. PICK l \in LiveLinks(e), c \in Nat :
           Become(w, [Idle EXCEPT !.pc = "compare", !.link = l, !.code = c])
    BY <1>0, <1>6, Typed DEF Look, LiveLinks
  <2>2. l \in Nat /\ c \in Nat
    BY <1>0, Typed DEF LiveLinks
  <2>3. [Idle EXCEPT !.pc = "compare", !.link = l, !.code = c] \in Requests
        /\ [Idle EXCEPT !.pc = "compare", !.link = l, !.code = c].pc = "compare"
    BY <2>2 DEF Requests, Steps, Idle
  <2>4. UNCHANGED <<links, sessions>>
    BY <1>6 DEF Look, rows
  <2> QED BY <1>1, <2>1, <2>3, <2>4
<1>7. ASSUME NEW w \in Workers, Compare(w) PROVE Claims' /\ OneSessionPerLink'
  <2> DEFINE l == req[w].link
  <2>1. l \in DOMAIN links /\ links[l] \in Links /\ l \in Nat
    BY <1>0, <1>7, Typed DEF Compare, At
  <2>2. CASE OpenTo(l) /\ req[w].code = l
    <3> DEFINE r == [Idle EXCEPT !.pc = "admit", !.link = l]
    <3>1. r \in Requests /\ r.link = l /\ ~links[l].consumed
      BY <2>1, <2>2 DEF Requests, Steps, Idle, OpenTo, Pending
    <3>2. links' = [links EXCEPT ![l].consumed = TRUE] /\ Become(w, r) /\ sessions' = sessions
      BY <1>7, <2>2 DEF Compare
    <3>3. /\ DOMAIN links' = DOMAIN links /\ links'[l].consumed
          /\ \A k \in DOMAIN links : links[k].consumed => links'[k].consumed
      BY <1>0, <2>1, <3>2, Typed DEF Links
    <3> HIDE DEF r, l
    <3>4. req'[w] = r /\ \A v \in Workers \ {w} : req'[v] = req[v]
      BY <1>0, <3>1, <3>2, Moved
    <3> QED BY <2>1, <3>1, <3>2, <3>3, <3>4, Taken
  <2>3. CASE ~(OpenTo(l) /\ req[w].code = l)
    <3>1. /\ [Idle EXCEPT !.pc = "count", !.link = l] \in Requests
          /\ [Idle EXCEPT !.pc = "count", !.link = l].pc = "count"
      BY <2>1 DEF Requests, Steps, Idle
    <3>2. Become(w, [Idle EXCEPT !.pc = "count", !.link = l]) /\ UNCHANGED <<links, sessions>>
      BY <1>7, <2>3 DEF Compare
    <3> QED BY <1>1, <3>1, <3>2
  <2> QED BY <2>2, <2>3
<1>8. ASSUME NEW w \in Workers, Count(w) PROVE Claims' /\ OneSessionPerLink'
  <2>1. \A l \in DOMAIN links : l \in DOMAIN links' /\ (links[l].consumed => links'[l].consumed)
    BY <1>0, <1>8, Typed DEF Count, Links
  <2> QED BY <1>1, <1>8, <2>1, IdleFits DEF Count, Finish, Idle
<1>9. ASSUME NEW w \in Workers, NEW l \in DOMAIN links, Click(w, l)
      PROVE  Claims' /\ OneSessionPerLink'
  <2> DEFINE r == [Idle EXCEPT !.pc = "admit", !.link = l]
  <2>1. l \in Nat /\ links[l] \in Links /\ ~links[l].consumed
    BY <1>0, <1>9, Typed DEF Click, Live, Pending
  <2>2. r \in Requests /\ r.link = l
    BY <2>1 DEF Requests, Steps, Idle
  <2>3. links' = [links EXCEPT ![l].consumed = TRUE] /\ Become(w, r) /\ sessions' = sessions
    BY <1>9 DEF Click
  <2>4. /\ DOMAIN links' = DOMAIN links /\ links'[l].consumed
        /\ \A k \in DOMAIN links : links[k].consumed => links'[k].consumed
    BY <1>0, <2>1, <2>3, Typed DEF Links
  <2> HIDE DEF r
  <2>5. req'[w] = r /\ \A v \in Workers \ {w} : req'[v] = req[v]
    BY <1>0, <2>2, <2>3, Moved
  <2> QED BY <2>1, <2>2, <2>3, <2>4, <2>5, Taken
<1>10. ASSUME NEW w \in Workers, Admit(w) PROVE Claims' /\ OneSessionPerLink'
  <2> DEFINE r == [req[w] EXCEPT !.pc = "open"]
  <2>1. r \in Requests /\ r.link = req[w].link /\ Entering(w)
    BY <1>0, <1>10, Typed DEF Admit, At, Entering, Requests, Steps
  <2>2. Become(w, r) /\ UNCHANGED <<links, sessions>>
    BY <1>10 DEF Admit
  <2> HIDE DEF r
  <2>3. \A v \in Workers : req'[v] = req[v] \/ (v = w /\ req'[v] = r)
    BY <1>0, <2>1, <2>2, Moved
  <2>4. \A v \in Workers : Entering(v)' => Entering(v) /\ req'[v].link = req[v].link
    BY <2>1, <2>3 DEF Entering
  <2> QED BY <1>0, <2>2, <2>4, Bystander
<1>11. ASSUME NEW w \in Workers, OpenSession(w) PROVE Claims' /\ OneSessionPerLink'
  <2> DEFINE l == req[w].link
             x == [email |-> links[l].email, from |-> l, keep |-> links[l].keep, seen |-> now,
                   expires |-> now + Lifetime(links[l].keep), used |-> now, revoked |-> FALSE]
  <2>1. l \in DOMAIN links /\ links[l] \in Links /\ l \in Nat /\ now \in Nat /\ Entering(w)
    BY <1>0, <1>11, Typed DEF OpenSession, At, Entering
  <2>2. x \in Sessions /\ x.from = l
    <3>1. now + Lifetime(links[l].keep) \in Nat
      BY <2>1, SignInAssumption DEF Lifetime
    <3> QED BY <2>1, <3>1 DEF Sessions, Links
  <2>3. sessions' = Append(sessions, x) /\ Become(w, Idle) /\ links' = links
    BY <1>11 DEF OpenSession, Finish
  <2> HIDE DEF x
  <2>4. sessions \in Seq(Sessions)
    BY <1>0 DEF TypeOK
  <2>5. /\ \A i \in DOMAIN sessions : sessions'[i] = sessions[i]
        /\ \A i \in DOMAIN sessions' : i \in DOMAIN sessions \/ (i = Len(sessions) + 1 /\ sessions'[i] = x)
    BY <2>2, <2>3, <2>4, RowAdded
  <2>6. \A i \in DOMAIN sessions : sessions[i].from # l
    BY <2>1 DEF Inv, Claims
  <2>7. \A v \in Workers : Entering(v)' => v # w /\ req'[v] = req[v]
    BY <1>0, <2>3, IdleFits, Moved DEF Entering, Idle
  <2>8. \A v \in Workers : Entering(v)' => Entering(v) /\ req[v].link # l
    BY <2>1, <2>7 DEF Inv, Claims, Entering
  <2>9. OneSessionPerLink'
    BY <2>2, <2>5, <2>6 DEF Inv, OneSessionPerLink
  <2>10. \A i \in DOMAIN sessions' : sessions'[i].from \in DOMAIN links' /\ links'[sessions'[i].from].consumed
    BY <2>1, <2>2, <2>3, <2>5 DEF Inv, Claims
  <2>11. ASSUME NEW v \in Workers, Entering(v)'
         PROVE  /\ links'[req'[v].link].consumed
                /\ \A i \in DOMAIN sessions' : sessions'[i].from # req'[v].link
                /\ \A u \in Workers \ {v} : Entering(u)' => req'[u].link # req'[v].link
    BY <2>2, <2>3, <2>5, <2>7, <2>8, <2>11 DEF Inv, Claims
  <2> QED BY <2>9, <2>10, <2>11 DEF Claims
<1>12. ASSUME NEW w \in Workers, NEW s \in DOMAIN sessions, Resolve(w, s)
       PROVE  Claims' /\ OneSessionPerLink'
  <2>1. s \in Nat /\ now \in Nat
    BY <1>0, Typed
  <2>2. [Idle EXCEPT !.pc = "roll", !.session = s, !.at = now] \in Requests
        /\ [Idle EXCEPT !.pc = "roll", !.session = s, !.at = now].pc = "roll"
    BY <2>1 DEF Requests, Steps, Idle
  <2>3. \/ Become(w, [Idle EXCEPT !.pc = "roll", !.session = s, !.at = now]) /\ UNCHANGED sessions
        \/ sessions' = [sessions EXCEPT ![s].used = now] /\ UNCHANGED req
    BY <1>12 DEF Resolve
  <2>4. UNCHANGED links
    BY <1>12 DEF Resolve
  <2>5. CASE Become(w, [Idle EXCEPT !.pc = "roll", !.session = s, !.at = now]) /\ UNCHANGED sessions
    BY <1>1, <2>2, <2>4, <2>5
  <2>6. CASE sessions' = [sessions EXCEPT ![s].used = now] /\ UNCHANGED req
    <3>1. DOMAIN sessions' = DOMAIN sessions
          /\ \A i \in DOMAIN sessions : sessions'[i].from = sessions[i].from
      BY <1>0, <2>6, Typed DEF Sessions
    <3> QED BY <1>2, <2>4, <2>6, <3>1
  <2> QED BY <2>3, <2>5, <2>6
<1>13. ASSUME NEW w \in Workers, Roll(w) PROVE Claims' /\ OneSessionPerLink'
  <2>1. req[w].session \in DOMAIN sessions
    BY <1>0, <1>13, Typed DEF Roll, At
  <2>2. sessions' = [sessions EXCEPT ![req[w].session] = Rolled(sessions[req[w].session], req[w].at)]
        /\ Become(w, Idle) /\ UNCHANGED links
    BY <1>13 DEF Roll, Finish
  <2>3. DOMAIN sessions' = DOMAIN sessions
        /\ \A i \in DOMAIN sessions : sessions'[i].from = sessions[i].from
    BY <1>0, <2>1, <2>2, Typed DEF Sessions, Rolled
  <2>4. \A v \in Workers : Entering(v)' => v # w /\ req'[v] = req[v]
    BY <1>0, <2>2, IdleFits, Moved DEF Entering, Idle
  <2> QED BY <1>0, <2>2, <2>3, <2>4, Bystander DEF Entering
<1>14. ASSUME NEW s \in DOMAIN sessions, SignOut(s) PROVE Claims' /\ OneSessionPerLink'
  <2>1. DOMAIN sessions' = DOMAIN sessions
        /\ \A i \in DOMAIN sessions : sessions'[i].from = sessions[i].from
    BY <1>0, <1>14, Typed DEF SignOut, Sessions
  <2> QED BY <1>2, <1>14, <2>1 DEF SignOut
<1>15. CASE Restart
  <2>1. \A w \in Workers : ~Entering(w)'
    BY <1>15 DEF Restart, Entering, Idle
  <2>2. DOMAIN links' = DOMAIN links /\ \A l \in DOMAIN links : links'[l].consumed = links[l].consumed
    <3>1. BreakOff(Workers) /\ Workers \in SUBSET Workers
      BY <1>15 DEF Restart
    <3> QED BY <1>0, <3>1, BrokenOff
  <2> QED BY <1>0, <1>15, <2>1, <2>2, Bystander DEF Restart
<1>16. CASE (\E e \in Emails : StartRefused(e) \/ Unwelcome(e)) \/ Tick \/ UNCHANGED vars
  <2>1. UNCHANGED <<req, links, sessions>>
    BY <1>16 DEF StartRefused, Unwelcome, Tick, vars, rows
  <2> QED BY <1>2, <2>1
<1>17. ASSUME NEW w \in Workers, Fail(w) PROVE Claims' /\ OneSessionPerLink'
  <2>1. BreakOff({w}) /\ {w} \in SUBSET Workers /\ Become(w, Idle) /\ UNCHANGED sessions
    BY <1>17 DEF Fail, Finish
  <2>2. DOMAIN links' = DOMAIN links /\ \A l \in DOMAIN links : links'[l].consumed = links[l].consumed
    BY <1>0, <2>1, BrokenOff
  <2>3. Idle \in Requests /\ Idle.pc \notin {"admit", "open"}
    BY IdleFits DEF Idle
  <2> QED BY <1>1, <2>1, <2>2, <2>3
<1> QED
  BY <1>3, <1>4, <1>5, <1>6, <1>7, <1>8, <1>9, <1>10, <1>11, <1>12, <1>13, <1>14, <1>15, <1>16,
     <1>17 DEF Next

LEMMA InitClaims == Init => Claims /\ OneSessionPerLink
BY DEF Init, Claims, OneSessionPerLink, Entering, Idle

LEMMA AlwaysInv == Spec => []Inv
<1>1. Init => Inv BY InitTypeOK, InitClaims DEF Inv
<1>2. Inv /\ [Next]_vars => Inv' BY StepTypeOK, StepClaims DEF Inv
<1> QED BY <1>1, <1>2, PTL DEF Spec

\* A link that a request holds on its way to a session, or that opened one, is
\* consumed, and nobody else holds it.
THEOREM ClaimsExclusive == Spec => []Claims
<1>1. Inv => Claims BY DEF Inv
<1> QED BY <1>1, AlwaysInv, PTL

\* One mail opens at most one session, for any number of requests that present
\* its code or its link at once, and across restarts.
THEOREM LinksOpenOnce == Spec => []OneSessionPerLink
<1>1. Inv => OneSessionPerLink BY DEF Inv
<1> QED BY <1>1, AlwaysInv, PTL
-----------------------------------------------------------------------------
(***************************************************************************)
(* Mails that fail, and sessions that are used.                            *)
(***************************************************************************)
\* Every link whose mail failed, expired or not, has a request that will delete it.
FailuresHeld ==
    \A l \in DOMAIN links :
        links[l].failed /\ ~links[l].gone =>
            \E w \in Workers : At(w, "retract") /\ req[w].link = l

\* A step that makes no mail fail and takes no request from deleting its link.
LEMMA HeldStill ==
    ASSUME FailuresHeld,
           \A l \in DOMAIN links' : links'[l].failed /\ ~links'[l].gone =>
               l \in DOMAIN links /\ links[l].failed /\ ~links[l].gone,
           \A w \in Workers : At(w, "retract") => req'[w] = req[w]
    PROVE  FailuresHeld'
BY DEF FailuresHeld, At

LEMMA StepHeld == TypeOK /\ FailuresHeld /\ [Next]_vars => FailuresHeld'
<1> SUFFICES ASSUME TypeOK, FailuresHeld, [Next]_vars PROVE FailuresHeld'
  OBVIOUS
\* Steps of one request that was not deleting a link, and leave the failures alone.
<1>1. ASSUME NEW w \in Workers, NEW r \in Requests, Become(w, r), ~At(w, "retract"),
             DOMAIN links' = DOMAIN links,
             \A l \in DOMAIN links : links'[l].failed = links[l].failed /\ links'[l].gone = links[l].gone
      PROVE  FailuresHeld'
  <2>1. \A v \in Workers : At(v, "retract") => req'[v] = req[v]
    BY <1>1, Moved
  <2> QED BY <1>1, <2>1, HeldStill
<1>2. ASSUME NEW w \in Workers, NEW e \in Emails, NEW keep \in BOOLEAN, Start(w, e, keep)
      PROVE  FailuresHeld'
  <2> DEFINE x == [email |-> e, expires |-> now + LinkTTL, attempts |-> 0, consumed |-> FALSE,
                   keep |-> keep, gone |-> FALSE, failed |-> FALSE]
             r == [Idle EXCEPT !.pc = "mail", !.link = Len(links) + 1]
  <2>1. links \in Seq(Links) /\ Len(links) + 1 \in Nat
    BY DEF TypeOK
  <2>2. x \in Links /\ ~x.failed /\ r \in Requests
    <3>1. x \in Links /\ ~x.failed
      BY SignInAssumption, Typed DEF Links
    <3>2. r \in Requests
      BY <2>1 DEF Requests, Steps, Idle
    <3> QED BY <3>1, <3>2
  <2>3. links' = Append(links, x) /\ Become(w, r) /\ At(w, "idle")
    BY <1>2 DEF Start
  <2> HIDE DEF x, r
  <2>4. \A l \in DOMAIN links' : (l \in DOMAIN links /\ links'[l] = links[l]) \/ ~links'[l].failed
    BY <2>1, <2>2, <2>3, RowAdded
  <2>5. \A v \in Workers : At(v, "retract") => req'[v] = req[v]
    BY <2>2, <2>3, Moved DEF At
  <2> QED BY <2>4, <2>5, HeldStill
<1>3. ASSUME NEW w \in Workers, NEW ok \in BOOLEAN, Mail(w, ok) PROVE FailuresHeld'
  <2>1. /\ req[w].link \in DOMAIN links /\ req[w] \in Requests /\ At(w, "mail")
        /\ \A l \in DOMAIN links : links[l] \in Links
    BY <1>3, Typed DEF Mail, At
  <2>2. links' = [links EXCEPT ![req[w].link].failed = ~ok]
    BY <1>3 DEF Mail
  <2>3. /\ DOMAIN links' = DOMAIN links /\ links'[req[w].link].failed = ~ok
        /\ \A l \in DOMAIN links : l # req[w].link => links'[l] = links[l]
    BY <2>1, <2>2 DEF Links
  <2>4. CASE ok
    <3>1. Become(w, Idle)
      BY <1>3, <2>4 DEF Mail, AfterMail
    <3>2. \A v \in Workers : At(v, "retract") => req'[v] = req[v]
      BY <2>1, <3>1, IdleFits, Moved DEF At
    <3> QED BY <2>3, <2>4, <3>2, HeldStill
  <2>5. CASE ~ok
    <3> DEFINE r == [req[w] EXCEPT !.pc = "retract"]
    <3>1. Become(w, r) /\ r \in Requests /\ r.pc = "retract" /\ r.link = req[w].link
      BY <1>3, <2>1, <2>5 DEF Mail, AfterMail, Requests, Steps
    <3> HIDE DEF r
    <3>2. req'[w] = r /\ \A v \in Workers : v # w => req'[v] = req[v]
      BY <3>1, Moved
    <3>3. ASSUME NEW l \in DOMAIN links', links'[l].failed, ~links'[l].gone
          PROVE  \E v \in Workers : At(v, "retract")' /\ req'[v].link = l
      <4>1. CASE l = req[w].link
        BY <3>1, <3>2, <4>1 DEF At
      <4>2. CASE l # req[w].link
        <5>1. PICK v \in Workers : At(v, "retract") /\ req[v].link = l
          BY <2>3, <3>3, <4>2 DEF FailuresHeld
        <5> QED BY <2>1, <3>2, <5>1 DEF At
      <4> QED BY <4>1, <4>2
    <3> QED BY <3>3 DEF FailuresHeld
  <2> QED BY <2>4, <2>5
<1>4. ASSUME NEW w \in Workers, Retract(w) PROVE FailuresHeld'
  <2>1. /\ req[w].link \in DOMAIN links /\ \A l \in DOMAIN links : links[l] \in Links
        /\ Become(w, Idle)
    BY <1>4, Typed DEF Retract, At, Finish
  <2>2. links' = [links EXCEPT ![req[w].link] = [@ EXCEPT !.gone = TRUE, !.failed = FALSE]]
    BY <1>4 DEF Retract
  <2>3. /\ DOMAIN links' = DOMAIN links /\ links'[req[w].link].gone
        /\ \A l \in DOMAIN links : l # req[w].link => links'[l] = links[l]
    BY <2>1, <2>2 DEF Links
  <2>4. \A v \in Workers : v # w => req'[v] = req[v]
    BY <2>1, IdleFits, Moved
  <2>5. ASSUME NEW l \in DOMAIN links', links'[l].failed, ~links'[l].gone
        PROVE  \E v \in Workers : At(v, "retract")' /\ req'[v].link = l
    <3>1. l # req[w].link /\ l \in DOMAIN links /\ links'[l] = links[l]
      BY <2>3, <2>5
    <3>2. PICK v \in Workers : At(v, "retract") /\ req[v].link = l
      BY <2>5, <3>1 DEF FailuresHeld
    <3> QED BY <2>4, <3>1, <3>2 DEF At
  <2> QED BY <2>5 DEF FailuresHeld
<1>5. ASSUME NEW w \in Workers, NEW e \in Emails, NEW code \in 0 .. Len(links), Look(w, e, code)
      PROVE  FailuresHeld'
  <2>1. PICK l \in LiveLinks(e), c \in Nat :
           Become(w, [Idle EXCEPT !.pc = "compare", !.link = l, !.code = c])
    BY <1>5, Typed DEF Look, LiveLinks
  <2>2. l \in Nat /\ c \in Nat
    BY Typed DEF LiveLinks
  <2>3. [Idle EXCEPT !.pc = "compare", !.link = l, !.code = c] \in Requests
    BY <2>2 DEF Requests, Steps, Idle
  <2>4. UNCHANGED links /\ ~At(w, "retract")
    BY <1>5 DEF Look, rows, At
  <2> QED BY <1>1, <2>1, <2>3, <2>4
<1>6. ASSUME NEW w \in Workers, Compare(w) \/ Count(w) \/ Admit(w) \/ OpenSession(w) \/ Roll(w)
      PROVE  FailuresHeld'
  <2>1. ~At(w, "retract") /\ req[w] \in Requests /\ \A l \in DOMAIN links : links[l] \in Links
    BY <1>6, Typed DEF Compare, Count, Admit, OpenSession, Roll, At
  <2>2. PICK r \in Requests : Become(w, r)
    <3>1. \A pc \in {"admit", "count"} : [Idle EXCEPT !.pc = pc, !.link = req[w].link] \in Requests
      BY <2>1 DEF Requests, Steps, Idle
    <3> QED BY <1>6, <2>1, <3>1, IdleFits
            DEF Compare, Count, Admit, OpenSession, Roll, Finish, Requests, Steps
  <2>3. \/ links' = links
        \/ links' = [links EXCEPT ![req[w].link].consumed = TRUE]
        \/ links' = [links EXCEPT ![req[w].link].attempts = @ + Counted(req[w].link)]
    BY <1>6 DEF Compare, Count, Admit, OpenSession, Roll
  <2>4. /\ DOMAIN links' = DOMAIN links
        /\ \A l \in DOMAIN links : links'[l].failed = links[l].failed /\ links'[l].gone = links[l].gone
    BY <2>1, <2>3 DEF Links
  <2> QED BY <1>1, <2>1, <2>2, <2>4
<1>7. ASSUME NEW w \in Workers, NEW l \in DOMAIN links, Click(w, l) PROVE FailuresHeld'
  <2>1. [Idle EXCEPT !.pc = "admit", !.link = l] \in Requests
    BY Typed DEF Requests, Steps, Idle
  <2>2. /\ Become(w, [Idle EXCEPT !.pc = "admit", !.link = l]) /\ ~At(w, "retract")
        /\ links' = [links EXCEPT ![l].consumed = TRUE]
    BY <1>7 DEF Click, At
  <2>3. /\ DOMAIN links' = DOMAIN links
        /\ \A k \in DOMAIN links : links'[k].failed = links[k].failed /\ links'[k].gone = links[k].gone
    BY <2>2, Typed DEF Links
  <2> QED BY <1>1, <2>1, <2>2, <2>3
<1>8. ASSUME NEW w \in Workers, NEW s \in DOMAIN sessions, Resolve(w, s) PROVE FailuresHeld'
  <2>1. UNCHANGED links /\ \A v \in Workers : At(v, "retract") => v # w
    BY <1>8 DEF Resolve, At
  <2>2. [Idle EXCEPT !.pc = "roll", !.session = s, !.at = now] \in Requests
    BY Typed DEF Requests, Steps, Idle
  <2>3. \A v \in Workers : v # w => req'[v] = req[v]
    BY <1>8, <2>2, Moved DEF Resolve
  <2> QED BY <2>1, <2>3, HeldStill
<1>9. CASE Restart
  <2>1. BreakOff(Workers) /\ Workers \in SUBSET Workers
    BY <1>9 DEF Restart
  <2>2. /\ DOMAIN links' = DOMAIN links
        /\ \A l \in DOMAIN links : links'[l].failed /\ ~links'[l].gone =>
             /\ links[l].failed /\ ~links[l].gone
             /\ \A w \in Workers : ~ (At(w, "retract") /\ req[w].link = l)
    BY <2>1, BrokenOff
  <2> QED BY <2>2 DEF FailuresHeld
<1>12. ASSUME NEW w \in Workers, Fail(w) PROVE FailuresHeld'
  <2>1. BreakOff({w}) /\ {w} \in SUBSET Workers /\ Become(w, Idle)
    BY <1>12 DEF Fail, Finish
  <2>2. /\ DOMAIN links' = DOMAIN links
        /\ \A l \in DOMAIN links : links'[l].failed /\ ~links'[l].gone =>
             /\ links[l].failed /\ ~links[l].gone
             /\ ~ (At(w, "retract") /\ req[w].link = l)
    BY <2>1, BrokenOff
  <2>3. \A v \in Workers : v # w => req'[v] = req[v]
    BY <2>1, IdleFits, Moved
  <2>4. ASSUME NEW l \in DOMAIN links', links'[l].failed, ~links'[l].gone
        PROVE  \E v \in Workers : At(v, "retract")' /\ req'[v].link = l
    <3>1. PICK v \in Workers : At(v, "retract") /\ req[v].link = l
      BY <2>2, <2>4 DEF FailuresHeld
    <3>2. v # w
      BY <2>2, <2>4, <3>1
    <3> QED BY <2>3, <3>1, <3>2 DEF At
  <2> QED BY <2>4 DEF FailuresHeld
<1>10. ASSUME UNCHANGED <<req, links>> PROVE FailuresHeld'
  BY <1>10, HeldStill
<1>11. CASE \/ \E e \in Emails : StartRefused(e) \/ Unwelcome(e)
            \/ \E s \in DOMAIN sessions : SignOut(s)
            \/ Tick \/ UNCHANGED vars
  <2>1. UNCHANGED <<req, links>>
    BY <1>11 DEF StartRefused, Unwelcome, SignOut, Tick, vars, rows
  <2> QED BY <1>10, <2>1
<1> QED
  BY <1>2, <1>3, <1>4, <1>5, <1>6, <1>7, <1>8, <1>9, <1>11, <1>12 DEF Next

\* A code that reached nobody never hides an older one for longer than its request
\* takes to delete it, for any number of requests and mails that fail; the requests
\* that break off before the DELETE leave theirs, and it is exempted.
THEOREM FailuresDoNotShadow == Spec => []NothingShadows
<1>1. Init => TypeOK /\ FailuresHeld
  BY InitTypeOK DEF Init, FailuresHeld
<1>2. TypeOK /\ FailuresHeld /\ [Next]_vars => TypeOK' /\ FailuresHeld'
  BY StepTypeOK, StepHeld
<1>3. FailuresHeld => NothingShadows
  BY DEF FailuresHeld, NothingShadows, Live, Pending
<1> QED BY <1>1, <1>2, <1>3, PTL DEF Spec

-----------------------------------------------------------------------------
\* A session ends one lifetime after its last renewal and serves nobody later than
\* Rest after it; a request about to renew one began in this unit or the last.
Renewed(s, t) ==
    /\ s.expires = s.seen + Lifetime(s.keep)
    /\ s.used <= s.seen + Rest /\ s.used <= t

Rolling(w) == At(w, "roll") => req[w].at <= now /\ now <= req[w].at + 1

Renewals == (\A i \in DOMAIN sessions : Renewed(sessions[i], now)) /\ (\A w \in Workers : Rolling(w))

\* Steps that change no session and put no request on its way to renew one.
LEMMA RenewalsKept ==
    ASSUME Renewals, UNCHANGED <<now, sessions>>,
           \A w \in Workers : req'[w] = req[w] \/ req'[w].pc # "roll"
    PROVE  Renewals'
BY DEF Renewals, Renewed, Rolling, At

LEMMA StepRenewals == TypeOK /\ Renewals /\ [Next]_vars => Renewals'
<1> SUFFICES ASSUME TypeOK, Renewals, [Next]_vars PROVE Renewals'
  OBVIOUS
<1> USE SignInAssumption
<1>1. ASSUME NEW w \in Workers, NEW r \in Requests, Become(w, r), r.pc # "roll",
             UNCHANGED <<now, sessions>>
      PROVE  Renewals'
  <2>1. \A v \in Workers : req'[v] = req[v] \/ req'[v].pc # "roll"
    BY <1>1, Moved
  <2> QED BY <1>1, <2>1, RenewalsKept
<1>2. ASSUME NEW w \in Workers, NEW e \in Emails, NEW keep \in BOOLEAN, Start(w, e, keep)
      PROVE  Renewals'
  <2>1. Len(links) + 1 \in Nat
    BY DEF TypeOK
  <2>2. /\ [Idle EXCEPT !.pc = "mail", !.link = Len(links) + 1] \in Requests
        /\ [Idle EXCEPT !.pc = "mail", !.link = Len(links) + 1].pc # "roll"
    BY <2>1 DEF Requests, Steps, Idle
  <2> QED BY <1>1, <1>2, <2>2 DEF Start
<1>3. ASSUME NEW w \in Workers, NEW e \in Emails, NEW code \in 0 .. Len(links), Look(w, e, code)
      PROVE  Renewals'
  <2>1. PICK l \in LiveLinks(e), c \in Nat :
           Become(w, [Idle EXCEPT !.pc = "compare", !.link = l, !.code = c])
    BY <1>3, Typed DEF Look, LiveLinks
  <2>2. l \in Nat /\ c \in Nat
    BY Typed DEF LiveLinks
  <2>3. /\ [Idle EXCEPT !.pc = "compare", !.link = l, !.code = c] \in Requests
        /\ [Idle EXCEPT !.pc = "compare", !.link = l, !.code = c].pc # "roll"
    BY <2>2 DEF Requests, Steps, Idle
  <2>4. UNCHANGED <<now, sessions>>
    BY <1>3 DEF Look, rows
  <2> QED BY <1>1, <2>1, <2>3, <2>4
<1>4. ASSUME NEW w \in Workers, NEW l \in DOMAIN links, Click(w, l) PROVE Renewals'
  <2>1. /\ [Idle EXCEPT !.pc = "admit", !.link = l] \in Requests
        /\ [Idle EXCEPT !.pc = "admit", !.link = l].pc # "roll"
    BY Typed DEF Requests, Steps, Idle
  <2> QED BY <1>1, <1>4, <2>1 DEF Click
<1>5. ASSUME NEW w \in Workers, (\E ok \in BOOLEAN : Mail(w, ok)) \/ Retract(w) \/ Compare(w) \/ Count(w) \/ Admit(w)
      PROVE  Renewals'
  <2>1. PICK r : Become(w, r) /\ r \in Requests /\ r.pc # "roll"
    <3>1. Idle \in Requests /\ Idle.pc # "roll" /\ req[w] \in Requests
      BY IdleFits, Typed DEF Idle
    <3>2. \A pc \in {"retract", "open"} :
            [req[w] EXCEPT !.pc = pc] \in Requests /\ [req[w] EXCEPT !.pc = pc].pc # "roll"
      BY <3>1 DEF Requests, Steps
    <3>3. \A pc \in {"admit", "count"} :
            /\ [Idle EXCEPT !.pc = pc, !.link = req[w].link] \in Requests
            /\ [Idle EXCEPT !.pc = pc, !.link = req[w].link].pc # "roll"
      BY <3>1 DEF Requests, Steps, Idle
    <3> QED BY <1>5, <3>1, <3>2, <3>3 DEF Mail, AfterMail, Retract, Compare, Count, Admit, Finish
  <2>2. UNCHANGED <<now, sessions>>
    BY <1>5 DEF Mail, Retract, Compare, Count, Admit
  <2> QED BY <1>1, <2>1, <2>2
<1>6. ASSUME NEW w \in Workers, OpenSession(w) PROVE Renewals'
  <2> DEFINE l == req[w].link
  <2>1. l \in DOMAIN links /\ links[l] \in Links /\ l \in Nat /\ now \in Nat
    BY <1>6, Typed DEF OpenSession, At
  <2>2. PICK x \in Sessions : /\ sessions' = Append(sessions, x) /\ x.seen = now /\ x.used = now
                              /\ x.expires = now + Lifetime(x.keep)
    <3> DEFINE x == [email |-> links[l].email, from |-> l, keep |-> links[l].keep, seen |-> now,
                     expires |-> now + Lifetime(links[l].keep), used |-> now, revoked |-> FALSE]
    <3>1. now + Lifetime(links[l].keep) \in Nat
      BY <2>1 DEF Lifetime
    <3>2. x \in Sessions /\ x.seen = now /\ x.used = now /\ x.expires = now + Lifetime(x.keep)
      BY <2>1, <3>1 DEF Sessions, Links
    <3>3. sessions' = Append(sessions, x)
      BY <1>6 DEF OpenSession
    <3> QED BY <3>2, <3>3
  <2>3. Become(w, Idle) /\ now' = now
    BY <1>6 DEF OpenSession, Finish
  <2>4. x.used <= x.seen + Rest
    BY <2>1, <2>2
  <2>5. \A i \in DOMAIN sessions' :
           (i \in DOMAIN sessions /\ sessions'[i] = sessions[i]) \/ sessions'[i] = x
    BY <2>2, RowAdded DEF TypeOK
  <2>6. ASSUME NEW i \in DOMAIN sessions' PROVE Renewed(sessions'[i], now')
    <3>1. Renewed(x, now)
      BY <2>1, <2>2, <2>4 DEF Renewed
    <3>2. \A j \in DOMAIN sessions : Renewed(sessions[j], now)
      BY DEF Renewals
    <3> QED BY <2>3, <2>5, <3>1, <3>2
  <2>7. \A v \in Workers : Rolling(v)'
    BY <2>3, IdleFits, Moved DEF Renewals, Rolling, At, Idle
  <2> QED BY <2>6, <2>7 DEF Renewals
\* One session is replaced by another that is renewed as it should be.
<1>7. ASSUME NEW s \in DOMAIN sessions, NEW x \in Sessions, Renewed(x, now), now' = now,
             sessions' = [sessions EXCEPT ![s] = x],
             \A w \in Workers : req'[w] = req[w] \/ req'[w].pc # "roll"
      PROVE  Renewals'
  <2>1. DOMAIN sessions' = DOMAIN sessions
        /\ \A i \in DOMAIN sessions : sessions'[i] = sessions[i] \/ sessions'[i] = x
    BY <1>7
  <2>2. \A i \in DOMAIN sessions' : Renewed(sessions'[i], now')
    BY <1>7, <2>1 DEF Renewals, Renewed, Lifetime
  <2>3. \A w \in Workers : Rolling(w)'
    BY <1>7 DEF Renewals, Rolling, At
  <2> QED BY <2>2, <2>3 DEF Renewals
<1>8. ASSUME NEW w \in Workers, NEW s \in DOMAIN sessions, Resolve(w, s) PROVE Renewals'
  <2>1. sessions[s] \in Sessions /\ s \in Nat /\ now \in Nat /\ Renewed(sessions[s], now)
    BY Typed DEF Renewals
  <2>2. CASE now - sessions[s].seen > Rest
    <3> DEFINE r == [Idle EXCEPT !.pc = "roll", !.session = s, !.at = now]
    <3>1. r \in Requests /\ r.at = now
      BY <2>1 DEF Requests, Steps, Idle
    <3>2. Become(w, r) /\ UNCHANGED <<now, sessions>>
      BY <1>8, <2>2 DEF Resolve
    <3> HIDE DEF r
    <3>3. \A v \in Workers : req'[v] = req[v] \/ req'[v].at = now
      BY <3>1, <3>2, Moved
    <3>4. \A v \in Workers : Rolling(v)'
      BY <2>1, <3>2, <3>3 DEF Renewals, Rolling, At
    <3> QED BY <3>2, <3>4 DEF Renewals, Renewed
  <2>3. CASE ~(now - sessions[s].seen > Rest)
    <3>1. now <= sessions[s].seen + Rest
      BY <2>1, <2>3 DEF Sessions
    <3>2. PICK x : /\ x = [sessions[s] EXCEPT !.used = now] /\ x \in Sessions
                   /\ x.used = now /\ x.seen = sessions[s].seen /\ x.keep = sessions[s].keep
                   /\ x.expires = sessions[s].expires
      <4> DEFINE y == [sessions[s] EXCEPT !.used = now]
      <4>1. y \in Sessions /\ y.used = now
            /\ y.seen = sessions[s].seen /\ y.keep = sessions[s].keep
            /\ y.expires = sessions[s].expires
        BY <2>1 DEF Sessions
      <4>2. y = [sessions[s] EXCEPT !.used = now]
        OBVIOUS
      <4> HIDE DEF y
      <4> QED BY <4>1, <4>2
    <3>3. Renewed(x, now)
      BY <2>1, <3>1, <3>2 DEF Renewed
    <3>4. sessions' = [sessions EXCEPT ![s] = x] /\ UNCHANGED <<now, req>>
      BY <1>8, <2>3, <3>2 DEF Resolve
    <3> QED BY <1>7, <3>2, <3>3, <3>4
  <2> QED BY <2>2, <2>3
<1>9. ASSUME NEW w \in Workers, Roll(w) PROVE Renewals'
  <2> DEFINE s == req[w].session
             at == req[w].at
  <2>1. /\ s \in DOMAIN sessions /\ sessions[s] \in Sessions /\ at \in Nat /\ now \in Nat
        /\ at <= now /\ now <= at + 1 /\ Renewed(sessions[s], now)
    BY <1>9, Typed DEF Roll, At, Requests, Renewals, Rolling
  <2>2. sessions' = [sessions EXCEPT ![s] = Rolled(sessions[s], at)] /\ Become(w, Idle) /\ now' = now
    BY <1>9 DEF Roll, Finish
  <2>3. /\ at + Lifetime(sessions[s].keep) \in Nat /\ Latest(sessions[s].used, at) \in Nat
        /\ Latest(sessions[s].used, at) <= now
    BY <2>1 DEF Sessions, Lifetime, Latest, Renewed
  <2>4. Latest(sessions[s].used, at) <= at + Rest
    <3>1. now <= at + Rest
      BY <2>1
    <3> QED BY <2>1, <2>3, <3>1
  <2>5. PICK x : /\ x = Rolled(sessions[s], at) /\ x \in Sessions /\ x.seen = at
                 /\ x.used = Latest(sessions[s].used, at) /\ x.keep = sessions[s].keep
                 /\ x.expires = at + Lifetime(sessions[s].keep)
    <3> DEFINE y == Rolled(sessions[s], at)
    <3>1. y \in Sessions /\ y.seen = at
          /\ y.used = Latest(sessions[s].used, at) /\ y.keep = sessions[s].keep
          /\ y.expires = at + Lifetime(sessions[s].keep)
      BY <2>1, <2>3 DEF Rolled, Sessions
    <3>2. y = Rolled(sessions[s], at)
      OBVIOUS
    <3> HIDE DEF y
    <3> QED BY <3>1, <3>2
  <2>6. Renewed(x, now)
    BY <2>3, <2>4, <2>5 DEF Renewed
  <2>7. \A v \in Workers : req'[v] = req[v] \/ req'[v].pc # "roll"
    BY <2>2, IdleFits, Moved DEF Idle
  <2> HIDE DEF s, at
  <2> QED BY <1>7, <2>1, <2>2, <2>5, <2>6, <2>7
<1>10. ASSUME NEW s \in DOMAIN sessions, SignOut(s) PROVE Renewals'
  <2>1. sessions[s] \in Sessions /\ Renewed(sessions[s], now)
    BY Typed DEF Renewals
  <2>2. PICK x : /\ x = [sessions[s] EXCEPT !.revoked = TRUE] /\ x \in Sessions
                 /\ x.used = sessions[s].used /\ x.seen = sessions[s].seen
                 /\ x.keep = sessions[s].keep /\ x.expires = sessions[s].expires
    <3> DEFINE y == [sessions[s] EXCEPT !.revoked = TRUE]
    <3>1. y \in Sessions /\ y.used = sessions[s].used /\ y.seen = sessions[s].seen
          /\ y.keep = sessions[s].keep /\ y.expires = sessions[s].expires
      BY <2>1 DEF Sessions
    <3>2. y = [sessions[s] EXCEPT !.revoked = TRUE]
      OBVIOUS
    <3> HIDE DEF y
    <3> QED BY <3>1, <3>2
  <2>3. sessions' = [sessions EXCEPT ![s] = x] /\ UNCHANGED <<now, req>>
    BY <1>10, <2>2 DEF SignOut
  <2>4. Renewed(x, now)
    BY <2>1, <2>2 DEF Renewed
  <2> QED BY <1>7, <2>2, <2>3, <2>4
<1>11. CASE Tick
  <2>1. now \in Nat /\ now' = now + 1 /\ UNCHANGED <<req, sessions>>
    BY <1>11, Typed DEF Tick, rows
  <2>2. ASSUME NEW i \in DOMAIN sessions' PROVE Renewed(sessions'[i], now')
    <3>1. sessions[i] \in Sessions /\ Renewed(sessions[i], now)
      BY <2>1, <2>2, Typed DEF Renewals
    <3> QED BY <2>1, <3>1 DEF Renewed, Sessions, Lifetime
  <2>3. \A w \in Workers : Rolling(w)'
    BY <1>11, <2>1 DEF Tick, Rolling, At
  <2> QED BY <2>2, <2>3 DEF Renewals
<1>12. CASE Restart
  <2>1. UNCHANGED <<now, sessions>> /\ \A w \in Workers : req'[w].pc # "roll"
    BY <1>12 DEF Restart, Idle
  <2> QED BY <2>1, RenewalsKept
<1>13. CASE (\E e \in Emails : StartRefused(e) \/ Unwelcome(e)) \/ UNCHANGED vars
  <2>1. UNCHANGED <<now, req, sessions>>
    BY <1>13 DEF StartRefused, Unwelcome, vars, rows
  <2> QED BY <2>1, RenewalsKept
<1>14. ASSUME NEW w \in Workers, Fail(w) PROVE Renewals'
  <2>1. Become(w, Idle) /\ Idle.pc # "roll" /\ UNCHANGED <<now, sessions>>
    BY <1>14 DEF Fail, Finish, Idle
  <2> QED BY <1>1, <2>1, IdleFits
<1> QED
  BY <1>2, <1>3, <1>4, <1>5, <1>6, <1>8, <1>9, <1>10, <1>11, <1>12, <1>13, <1>14 DEF Next

\* Whoever keeps coming back stays signed in, however renewals overtake each other,
\* for every lifetime and every hour of rest.
THEOREM UsedSessionsLast == Spec => []SignedInWhileUsed
<1>1. Init => TypeOK /\ Renewals
  BY InitTypeOK DEF Init, Renewals, Rolling, At, Idle
<1>2. TypeOK /\ Renewals /\ [Next]_vars => TypeOK' /\ Renewals'
  BY StepTypeOK, StepRenewals
<1>3. ASSUME TypeOK, Renewals PROVE SignedInWhileUsed
  <2>1. ASSUME NEW s \in DOMAIN sessions
        PROVE  sessions[s].expires >= sessions[s].used + Lifetime(sessions[s].keep) - Rest
    <3>1. sessions[s] \in Sessions /\ Renewed(sessions[s], now) /\ Lifetime(sessions[s].keep) \in Nat
      BY <1>3, Typed, SignInAssumption DEF Renewals, Lifetime
    <3> QED BY <3>1, SignInAssumption DEF Renewed, Sessions
  <2> QED BY <2>1 DEF SignedInWhileUsed
<1> QED BY <1>1, <1>2, <1>3, PTL DEF Spec

-----------------------------------------------------------------------------
\* The mails to an address that count against its bucket: those since the bucket was
\* started.  None is younger than the start of a bucket that has run out.
MailsSince(ss, e, t) == {j \in DOMAIN ss : ss[j].to = e /\ ss[j].at + EmailWindow >= t}
Mailed(ss, e, b) ==
    /\ Cardinality(MailsSince(ss, e, b.resetAt)) <= b.count
    /\ Cardinality(MailsSince(ss, e, b.resetAt)) <= EmailLimit
    /\ \A j \in DOMAIN ss : ss[j].to = e => ss[j].at <= b.resetAt
Posted == [to: Emails, at: Nat]

LEMMA MailsCounted ==
    ASSUME NEW ss \in Seq(Posted), NEW e, NEW t
    PROVE  /\ IsFiniteSet(MailsSince(ss, e, t)) /\ Cardinality(MailsSince(ss, e, t)) \in Nat
           /\ \A j \in DOMAIN ss : ss[j] \in Posted /\ ss[j].at \in Nat
<1>1. PICK n \in Nat : n = Len(ss) /\ DOMAIN ss = 1 .. n
  OBVIOUS
<1>2. IsFiniteSet(DOMAIN ss)
  BY <1>1, FS_Interval
<1>3. MailsSince(ss, e, t) \subseteq DOMAIN ss
  BY DEF MailsSince
<1>4. \A j \in DOMAIN ss : ss[j] \in Posted
  BY ElementOfSeq
<1> QED BY <1>2, <1>3, <1>4, FS_Subset, FS_CardinalityType DEF Posted

\* What happens to a bucket: it runs on, or starts again when it has run out.
LEMMA BucketRuns ==
    ASSUME TypeOK, NEW b \in Buckets, NEW c, c = Bumped(b, EmailWindow)
    PROVE  /\ c \in Buckets /\ now <= c.resetAt /\ b.resetAt <= c.resetAt
           /\ \/ b.resetAt < now /\ c.count = 1 /\ c.resetAt = now + EmailWindow
              \/ c.resetAt = b.resetAt /\ c.count = b.count + 1
<1>1. now \in Nat /\ EmailWindow \in Nat /\ b.count \in Nat /\ b.resetAt \in Int
  BY SignInAssumption DEF TypeOK, Buckets
<1>2. c \in Buckets
  BY <1>1, Bump
<1>3. CASE b.resetAt < now
  <2>1. c = [count |-> 1, resetAt |-> now + EmailWindow]
    BY <1>3 DEF Bumped
  <2> QED BY <1>1, <1>2, <1>3, <2>1
<1>4. CASE ~ (b.resetAt < now)
  <2>1. c = [b EXCEPT !.count = b.count + 1]
    BY <1>4 DEF Bumped
  <2>2. c.count = b.count + 1 /\ c.resetAt = b.resetAt
    BY <2>1 DEF Buckets
  <2> QED BY <1>1, <1>2, <1>4, <2>2
<1> QED BY <1>3, <1>4

\* The mails of a bucket that is bumped: none if it starts again.
LEMMA MailsLeft ==
    ASSUME TypeOK, NEW ss \in Seq(Posted), NEW e \in Emails, NEW b \in Buckets, Mailed(ss, e, b),
           NEW c, c = Bumped(b, EmailWindow)
    PROVE  /\ Cardinality(MailsSince(ss, e, c.resetAt)) + 1 <= c.count
           /\ Cardinality(MailsSince(ss, e, c.resetAt)) <= EmailLimit
           /\ \A j \in DOMAIN ss : ss[j].to = e => ss[j].at <= c.resetAt
<1>1. /\ now \in Nat /\ EmailWindow \in Nat /\ EmailLimit \in Nat
      /\ b.count \in Nat /\ b.resetAt \in Int /\ c.count \in Nat /\ c.resetAt \in Int
  BY SignInAssumption, BucketRuns DEF TypeOK, Buckets
<1>2. \A j \in DOMAIN ss : ss[j].at \in Nat
  BY MailsCounted
<1>3. \A j \in DOMAIN ss : ss[j].to = e => ss[j].at <= c.resetAt
  BY <1>1, <1>2, BucketRuns DEF Mailed
<1>4. CASE b.resetAt < now /\ c.count = 1 /\ c.resetAt = now + EmailWindow
  <2>1. ASSUME NEW j \in MailsSince(ss, e, c.resetAt) PROVE FALSE
    <3>1. j \in DOMAIN ss /\ ss[j].to = e /\ ss[j].at + EmailWindow >= now + EmailWindow
      BY <1>4 DEF MailsSince
    <3>2. ss[j].at <= b.resetAt
      BY <3>1 DEF Mailed
    <3> QED BY <1>1, <1>2, <1>4, <3>1, <3>2
  <2>2. MailsSince(ss, e, c.resetAt) = {}
    BY <2>1
  <2>3. Cardinality(MailsSince(ss, e, c.resetAt)) = 0
    BY <2>2, FS_EmptySet
  <2> QED BY <1>1, <1>3, <1>4, <2>3
<1>5. CASE c.resetAt = b.resetAt /\ c.count = b.count + 1
  <2>1. Cardinality(MailsSince(ss, e, b.resetAt)) \in Nat
    BY MailsCounted
  <2> QED BY <1>1, <1>3, <1>5, <2>1 DEF Mailed
<1> QED BY <1>4, <1>5, BucketRuns

\* A mail that goes out is one more in its own bucket and in no other.
LEMMA MailSent ==
    ASSUME TypeOK, NEW ss \in Seq(Posted), NEW e \in Emails, NEW d \in Emails, NEW b \in Buckets,
           Mailed(ss, d, b), NEW tt, tt = Append(ss, [to |-> e, at |-> now]), NEW c,
           c = IF d = e THEN Bumped(b, EmailWindow) ELSE b, d = e => c.count <= EmailLimit
    PROVE  Mailed(tt, d, c)
<1>1. PICK m : m = [to |-> e, at |-> now]
  OBVIOUS
<1>2. m \in Posted /\ m.to = e /\ m.at = now
  BY <1>1 DEF TypeOK, Posted
<1>3. PICK n \in Nat : n = Len(ss) /\ DOMAIN ss = 1 .. n
  OBVIOUS
<1>4. /\ \A j \in DOMAIN tt : j \in DOMAIN ss \/ j = n + 1
      /\ \A j \in DOMAIN ss : tt[j] = ss[j]
      /\ tt[n + 1] = m /\ tt \in Seq(Posted)
  BY <1>1, <1>2, <1>3, RowAdded
<1>5. CASE d # e
  <2>1. MailsSince(tt, d, b.resetAt) \subseteq MailsSince(ss, d, b.resetAt)
    BY <1>2, <1>4, <1>5 DEF MailsSince
  <2>2. /\ IsFiniteSet(MailsSince(ss, d, b.resetAt))
        /\ Cardinality(MailsSince(ss, d, b.resetAt)) \in Nat
        /\ Cardinality(MailsSince(tt, d, b.resetAt)) \in Nat
    BY <1>4, MailsCounted
  <2>3. Cardinality(MailsSince(tt, d, b.resetAt)) <= Cardinality(MailsSince(ss, d, b.resetAt))
    BY <2>1, <2>2, FS_Subset
  <2>4. b.count \in Nat /\ EmailLimit \in Nat
    BY SignInAssumption DEF Buckets
  <2>5. \A j \in DOMAIN tt : tt[j].to = d => tt[j].at <= b.resetAt
    BY <1>2, <1>4, <1>5 DEF Mailed
  <2> QED BY <1>5, <2>2, <2>3, <2>4, <2>5 DEF Mailed
<1>6. CASE d = e
  <2>1. c = Bumped(b, EmailWindow) /\ c.count <= EmailLimit
    BY <1>6
  <2>2. PICK S : S = MailsSince(ss, e, c.resetAt)
    OBVIOUS
  <2>3. Cardinality(S) + 1 <= c.count /\ \A j \in DOMAIN ss : ss[j].to = e => ss[j].at <= c.resetAt
    BY <1>6, <2>1, <2>2, MailsLeft
  <2>4. MailsSince(tt, e, c.resetAt) \subseteq S \cup {n + 1}
    BY <1>4, <2>2 DEF MailsSince
  <2>5. IsFiniteSet(S) /\ Cardinality(S) \in Nat /\ Cardinality(MailsSince(tt, e, c.resetAt)) \in Nat
    BY <1>4, <2>2, MailsCounted
  <2>6. IsFiniteSet(S \cup {n + 1}) /\ Cardinality(S \cup {n + 1}) <= Cardinality(S) + 1
        /\ Cardinality(S \cup {n + 1}) \in Nat
    <3>1. PICK x : x = n + 1
      OBVIOUS
    <3>2. /\ IsFiniteSet(S \cup {x})
          /\ Cardinality(S \cup {x}) = IF x \in S THEN Cardinality(S) ELSE Cardinality(S) + 1
      BY <2>5, FS_AddElement
    <3> QED BY <2>5, <3>1, <3>2
  <2>7. Cardinality(MailsSince(tt, e, c.resetAt)) <= Cardinality(S \cup {n + 1})
    BY <2>4, <2>6, FS_Subset
  <2>8. c.count \in Nat /\ EmailLimit \in Nat /\ now <= c.resetAt
    BY <2>1, SignInAssumption, BucketRuns DEF Buckets
  <2>9. \A j \in DOMAIN tt : tt[j].to = e => tt[j].at <= c.resetAt
    BY <1>2, <1>4, <2>3, <2>8
  <2>10. /\ Cardinality(MailsSince(tt, e, c.resetAt)) <= c.count
         /\ Cardinality(MailsSince(tt, e, c.resetAt)) <= EmailLimit
    BY <2>1, <2>3, <2>5, <2>6, <2>7, <2>8
  <2> QED BY <1>6, <2>9, <2>10 DEF Mailed
<1> QED BY <1>5, <1>6

AllMailed == \A e \in Emails : Mailed(sent, e, emailBucket[e])

LEMMA NothingMailed == \A e \in Emails : Mailed(<<>>, e, NoBucket)
<1> SUFFICES ASSUME NEW e \in Emails PROVE Mailed(<<>>, e, NoBucket)
  OBVIOUS
<1>1. MailsSince(<<>>, e, NoBucket.resetAt) = {} /\ Cardinality({}) = 0
  BY FS_EmptySet DEF MailsSince
<1>2. NoBucket.count = 0 /\ 0 <= EmailLimit /\ DOMAIN <<>> = {}
  BY SignInAssumption DEF NoBucket
<1>3. /\ Cardinality(MailsSince(<<>>, e, NoBucket.resetAt)) = 0
      /\ \A j \in DOMAIN <<>> : <<>>[j].to = e => <<>>[j].at <= NoBucket.resetAt
  BY <1>1, <1>2
<1> QED BY <1>2, <1>3 DEF Mailed

LEMMA StepMailed == TypeOK /\ AllMailed /\ [Next]_vars => AllMailed'
<1> SUFFICES ASSUME TypeOK, AllMailed, [Next]_vars PROVE AllMailed'
  OBVIOUS
<1>1. sent \in Seq(Posted) /\ emailBucket \in [Emails -> Buckets]
  BY DEF TypeOK, Posted
<1>2. ASSUME NEW e \in Emails, StartRefused(e) PROVE AllMailed'
  <2>1. sent' = sent /\ emailBucket' = [emailBucket EXCEPT ![e] = Bumped(emailBucket[e], EmailWindow)]
    BY <1>2 DEF StartRefused
  <2>2. ASSUME NEW d \in Emails PROVE Mailed(sent, d, emailBucket'[d])
    <3>1. CASE d # e
      BY <1>1, <2>1, <3>1 DEF AllMailed
    <3>2. CASE d = e
      <4>1. PICK c : c = emailBucket'[e] /\ c = Bumped(emailBucket[e], EmailWindow)
        BY <1>1, <2>1
      <4>2. /\ Cardinality(MailsSince(sent, e, c.resetAt)) + 1 <= c.count
            /\ Cardinality(MailsSince(sent, e, c.resetAt)) <= EmailLimit
            /\ \A j \in DOMAIN sent : sent[j].to = e => sent[j].at <= c.resetAt
        BY <1>1, <4>1, MailsLeft DEF AllMailed
      <4>3. Cardinality(MailsSince(sent, e, c.resetAt)) \in Nat /\ c.count \in Nat
        BY <1>1, <4>1, MailsCounted, BucketRuns DEF Buckets
      <4> QED BY <3>2, <4>1, <4>2, <4>3 DEF Mailed
    <3> QED BY <3>1, <3>2
  <2> QED BY <2>1, <2>2 DEF AllMailed
<1>3. ASSUME NEW w \in Workers, NEW e \in Emails, NEW keep \in BOOLEAN, Start(w, e, keep)
      PROVE  AllMailed'
  <2>1. /\ emailBucket' = [emailBucket EXCEPT ![e] = Bumped(emailBucket[e], EmailWindow)]
        /\ sent' = Append(sent, [to |-> e, at |-> now])
        /\ Bumped(emailBucket[e], EmailWindow).count <= EmailLimit
    BY <1>3 DEF Start, Within
  <2>2. ASSUME NEW d \in Emails PROVE Mailed(sent', d, emailBucket'[d])
    <3>1. PICK tt : tt = sent' /\ tt = Append(sent, [to |-> e, at |-> now])
      BY <2>1
    <3>2. PICK b \in Buckets : b = emailBucket[d] /\ Mailed(sent, d, b)
      BY <1>1 DEF AllMailed
    <3>3. PICK c : /\ c = emailBucket'[d] /\ c = IF d = e THEN Bumped(b, EmailWindow) ELSE b
                   /\ d = e => c.count <= EmailLimit
      BY <1>1, <2>1, <3>2
    <3>4. Mailed(tt, d, c)
      BY <1>1, <3>1, <3>2, <3>3, MailSent
    <3> QED BY <3>1, <3>3, <3>4
  <2> QED BY <2>2 DEF AllMailed
<1>4. CASE Restart
  <2>1. sent' = <<>> /\ emailBucket' = [e \in Emails |-> NoBucket]
    BY <1>4 DEF Restart
  <2> QED BY <2>1, NothingMailed DEF AllMailed
<1>5. ASSUME UNCHANGED <<sent, emailBucket>> PROVE AllMailed'
  BY <1>5 DEF AllMailed
<1>6. CASE \/ \E e \in Emails : Unwelcome(e)
           \/ \E w \in Workers, e \in Emails, code \in 0 .. Len(links) : Look(w, e, code)
           \/ \E w \in Workers, l \in DOMAIN links : Click(w, l)
           \/ \E w \in Workers, s \in DOMAIN sessions : Resolve(w, s)
           \/ \E w \in Workers, ok \in BOOLEAN : Mail(w, ok)
           \/ \E w \in Workers :
                Retract(w) \/ Compare(w) \/ Count(w) \/ Fail(w) \/ Admit(w) \/ OpenSession(w) \/ Roll(w)
           \/ \E s \in DOMAIN sessions : SignOut(s)
           \/ Tick \/ UNCHANGED vars
  <2>1. UNCHANGED <<sent, emailBucket>>
    BY <1>6 DEF Unwelcome, Look, Click, Resolve, Mail, Retract, Compare, Count, Fail, Admit, OpenSession,
                Roll, SignOut, Tick, vars, buckets
  <2> QED BY <1>5, <2>1
<1> QED BY <1>2, <1>3, <1>4, <1>6 DEF Next

\* The mails to an address since its bucket was started stay within its limit, for
\* any number of requests, addresses and restarts and any limits.
THEOREM MailsAreLimited == Spec => []MailsLimited
<1>1. Init => TypeOK /\ AllMailed
  BY InitTypeOK, NothingMailed DEF Init, AllMailed
<1>2. TypeOK /\ AllMailed /\ [Next]_vars => TypeOK' /\ AllMailed'
  BY StepTypeOK, StepMailed
<1>3. AllMailed => MailsLimited
  BY DEF AllMailed, Mailed, MailsSince, MailsLimited
<1> QED BY <1>1, <1>2, <1>3, PTL DEF Spec

-----------------------------------------------------------------------------
\* Wrong codes: while a link is open and its guesses come one after the other, each
\* was counted, except for the last, whose request is about to count it.
Guessed ==
    \A l \in DOMAIN links :
        /\ misses[l] <= MaxAttempts
        /\ OpenTo(l) /\ misses[l] # Raced =>
             /\ misses[l] <= links[l].attempts + 1
             /\ Guessing(l) = {} => misses[l] <= links[l].attempts
             /\ \A v \in Guessing(l), w \in Guessing(l) : v = w

\* A step in which no code is compared with an open link and no request counts.
LEMMA GuessesKept ==
    ASSUME Guessed, DOMAIN links' = DOMAIN links,
           \A l \in DOMAIN links :
             /\ misses'[l] <= MaxAttempts
             /\ OpenTo(l)' => OpenTo(l) /\ links'[l].attempts = links[l].attempts
             /\ OpenTo(l)' /\ misses'[l] # Raced => misses'[l] = misses[l] /\ Guessing(l)' = Guessing(l)
    PROVE  Guessed'
<1>1. ASSUME NEW l \in DOMAIN links', OpenTo(l)', misses'[l] # Raced
      PROVE  /\ misses'[l] <= links'[l].attempts + 1
             /\ Guessing(l)' = {} => misses'[l] <= links'[l].attempts
             /\ \A v \in Guessing(l)', w \in Guessing(l)' : v = w
  BY <1>1 DEF Guessed
<1> QED BY <1>1 DEF Guessed

\* Guesses are waiting as before when one request moves that did not count before
\* and does not afterwards.
LEMMA GuessingKept ==
    ASSUME TypeOK, NEW w \in Workers, NEW r \in Requests, Become(w, r), ~At(w, "count"), r.pc # "count"
    PROVE  \A l : Guessing(l)' = Guessing(l)
BY Moved DEF Guessing, At

LEMMA StartGuesses ==
    ASSUME TypeOK, Guessed, NEW w \in Workers, NEW e \in Emails, NEW keep \in BOOLEAN, Start(w, e, keep)
    PROVE  Guessed'
<1>1. PICK x : x = [email |-> e, expires |-> now + LinkTTL, attempts |-> 0, consumed |-> FALSE,
                    keep |-> keep, gone |-> FALSE, failed |-> FALSE]
  OBVIOUS
<1>2. PICK r : r = [Idle EXCEPT !.pc = "mail", !.link = Len(links) + 1]
  OBVIOUS
<1>3. /\ links \in Seq(Links) /\ misses \in Seq(Int) /\ Len(misses) = Len(links)
      /\ MaxAttempts \in Nat \ {0}
  BY SignInAssumption DEF TypeOK
<1>4. x \in Links /\ x.attempts = 0 /\ r \in Requests /\ r.pc = "mail"
  <2>1. x \in Links
    BY <1>1, SignInAssumption, Typed DEF Links
  <2>2. r \in Requests
    <3>1. Len(links) + 1 \in Nat
      BY <1>3
    <3> QED BY <1>2, <3>1 DEF Requests, Steps, Idle
  <2> QED BY <1>1, <1>2, <2>1, <2>2 DEF Idle
<1>5. links' = Append(links, x) /\ misses' = Append(misses, 0) /\ Become(w, r) /\ At(w, "idle")
  BY <1>1, <1>2 DEF Start
<1>6. /\ \A l \in DOMAIN links' : l \in DOMAIN links \/ l = Len(links) + 1
      /\ \A l \in DOMAIN links : links'[l] = links[l] /\ misses'[l] = misses[l]
      /\ misses'[Len(links) + 1] = 0 /\ links'[Len(links) + 1] = x
  <2>1. DOMAIN links = DOMAIN misses
    BY <1>3
  <2> QED BY <1>3, <1>4, <1>5, <2>1, RowAdded
<1>7. \A l : Guessing(l)' = Guessing(l)
  BY <1>4, <1>5, GuessingKept DEF At
<1>8. ASSUME NEW l \in DOMAIN links'
      PROVE  /\ misses'[l] <= MaxAttempts
             /\ OpenTo(l)' /\ misses'[l] # Raced =>
                  /\ misses'[l] <= links'[l].attempts + 1
                  /\ Guessing(l)' = {} => misses'[l] <= links'[l].attempts
                  /\ \A v \in Guessing(l)', u \in Guessing(l)' : v = u
  <2>1. CASE l \in DOMAIN links
    <3>1. OpenTo(l)' => OpenTo(l)
      BY <1>6, <2>1 DEF OpenTo, Pending
    <3> QED BY <1>6, <1>7, <2>1, <3>1 DEF Guessed
  <2>2. CASE l = Len(links) + 1
    <3>1. Guessing(l) = {}
      <4>1. \A v \in Workers : At(v, "count") => req[v].link \in DOMAIN links
        BY Typed DEF At
      <4>2. l \notin DOMAIN links
        BY <1>3, <2>2
      <4> QED BY <4>1, <4>2 DEF Guessing
    <3>2. misses'[l] = 0 /\ links'[l].attempts = 0
      BY <1>4, <1>6, <2>2
    <3> QED BY <1>3, <1>7, <3>1, <3>2
  <2> QED BY <1>6, <2>1, <2>2
<1> QED BY <1>8 DEF Guessed

\* A link that was used is open no more, whatever was guessed.
LEMMA UseGuesses ==
    ASSUME TypeOK, Guessed, NEW l \in DOMAIN links, links' = [links EXCEPT ![l].consumed = TRUE],
           misses' = [misses EXCEPT ![l] = 0], \A k : Guessing(k)' = Guessing(k)
    PROVE  Guessed'
<1>1. /\ \A k \in DOMAIN links : links[k] \in Links /\ k \in DOMAIN misses
      /\ MaxAttempts \in Nat
  BY Typed, SignInAssumption
<1>2. /\ DOMAIN links' = DOMAIN links /\ ~OpenTo(l)'
      /\ \A k \in DOMAIN links : k # l => links'[k] = links[k]
  BY <1>1 DEF Links, OpenTo, Pending
<1>3. misses'[l] = 0 /\ \A k \in DOMAIN links : k # l => misses'[k] = misses[k]
  BY <1>1
<1>4. ASSUME NEW k \in DOMAIN links
      PROVE  /\ misses'[k] <= MaxAttempts
             /\ OpenTo(k)' => OpenTo(k) /\ links'[k].attempts = links[k].attempts
             /\ OpenTo(k)' /\ misses'[k] # Raced => misses'[k] = misses[k] /\ Guessing(k)' = Guessing(k)
  <2>1. CASE k = l
    BY <1>1, <1>2, <1>3, <2>1
  <2>2. CASE k # l
    BY <1>2, <1>3, <2>2 DEF OpenTo, Pending, Guessed
  <2> QED BY <2>1, <2>2
<1> QED BY <1>2, <1>4, GuessesKept

LEMMA CompareGuesses ==
    ASSUME TypeOK, Guessed, NEW w \in Workers, Compare(w)
    PROVE  Guessed'
<1>1. PICK l : l = req[w].link
  OBVIOUS
<1>2. /\ l \in DOMAIN links /\ l \in Nat /\ At(w, "compare") /\ ~At(w, "count")
      /\ \A k \in DOMAIN links : links[k] \in Links /\ k \in DOMAIN misses /\ misses[k] \in Int
      /\ MaxAttempts \in Nat \ {0}
  BY <1>1, Typed, SignInAssumption DEF Compare, At
<1>3. CASE OpenTo(l) /\ req[w].code = l
  <2>1. PICK r : r = [Idle EXCEPT !.pc = "admit", !.link = l]
    OBVIOUS
  <2>2. r \in Requests /\ r.pc # "count"
    BY <1>2, <2>1 DEF Requests, Steps, Idle
  <2>3. /\ links' = [links EXCEPT ![l].consumed = TRUE] /\ Become(w, r)
        /\ misses' = [misses EXCEPT ![l] = 0]
    BY <1>1, <1>3, <2>1 DEF Compare
  <2>4. \A k : Guessing(k)' = Guessing(k)
    BY <1>2, <2>2, <2>3, GuessingKept
  <2> QED BY <1>2, <2>3, <2>4, UseGuesses
<1>4. CASE ~ (OpenTo(l) /\ req[w].code = l)
  <2>1. PICK r : r = [Idle EXCEPT !.pc = "count", !.link = l]
    OBVIOUS
  <2>2. r \in Requests /\ r.pc = "count" /\ r.link = l
    BY <1>2, <2>1 DEF Requests, Steps, Idle
  <2>3. PICK n : n = IF ~OpenTo(l) THEN misses[l]
                     ELSE IF misses[l] = Raced \/ Guessing(l) # {} THEN Raced
                     ELSE misses[l] + 1
    OBVIOUS
  <2>4. misses' = [misses EXCEPT ![l] = n] /\ Become(w, r) /\ links' = links
    BY <1>1, <1>4, <2>1, <2>3 DEF Compare
  <2>5. req'[w] = r /\ \A v \in Workers : v # w => req'[v] = req[v]
    BY <2>2, <2>4, Moved
  <2>6. /\ Guessing(l)' = Guessing(l) \cup {w}
        /\ \A k : k # l => Guessing(k)' = Guessing(k)
    BY <1>2, <2>2, <2>5 DEF Guessing, At
  <2>7. misses'[l] = n /\ \A k \in DOMAIN links : k # l => misses'[k] = misses[k]
    BY <1>2, <2>4
  <2>8. links[l].attempts \in Nat /\ (OpenTo(l) => links[l].attempts < MaxAttempts)
    BY <1>2 DEF Links, OpenTo
  <2>9. OpenTo(l) /\ n # Raced => /\ n <= links[l].attempts + 1 /\ Guessing(l) = {}
    BY <1>2, <2>3, <2>8 DEF Guessed
  <2>10. n <= MaxAttempts
    <3>1. CASE ~OpenTo(l)
      BY <1>2, <2>3, <3>1 DEF Guessed
    <3>2. CASE OpenTo(l) /\ n = Raced
      BY <1>2, <3>2 DEF Raced
    <3>3. CASE OpenTo(l) /\ n # Raced
      <4>1. n = misses[l] + 1 /\ n \in Int
        BY <1>2, <2>3, <3>3
      <4> QED BY <1>2, <2>8, <2>9, <3>3, <4>1
    <3> QED BY <3>1, <3>2, <3>3
  <2>11. \A k \in DOMAIN links : OpenTo(k)' <=> OpenTo(k)
    BY <2>4 DEF OpenTo, Pending
  <2>12. ASSUME NEW k \in DOMAIN links'
         PROVE  /\ misses'[k] <= MaxAttempts
                /\ OpenTo(k)' /\ misses'[k] # Raced =>
                     /\ misses'[k] <= links'[k].attempts + 1
                     /\ Guessing(k)' = {} => misses'[k] <= links'[k].attempts
                     /\ \A v \in Guessing(k)', u \in Guessing(k)' : v = u
    <3>1. CASE k = l
      BY <1>2, <2>4, <2>6, <2>7, <2>9, <2>10, <2>11, <3>1
    <3>2. CASE k # l
      BY <2>4, <2>6, <2>7, <2>11, <3>2 DEF Guessed
    <3> QED BY <3>1, <3>2
  <2> QED BY <2>12 DEF Guessed
<1> QED BY <1>3, <1>4

LEMMA CountGuesses ==
    ASSUME TypeOK, Guessed, NEW w \in Workers, Count(w)
    PROVE  Guessed'
<1>1. PICK l : l = req[w].link
  OBVIOUS
<1>2. /\ l \in DOMAIN links /\ At(w, "count") /\ Become(w, Idle)
      /\ \A k \in DOMAIN links : links[k] \in Links /\ misses[k] \in Int
      /\ misses' = misses
      /\ links' = [links EXCEPT ![l].attempts = @ + (IF OpenTo(l) THEN 1 ELSE 0)]
  BY <1>1, Typed DEF Count, At, Finish, Counted
<1>3. req'[w] = Idle /\ \A v \in Workers : v # w => req'[v] = req[v]
  BY <1>2, IdleFits, Moved
<1>4. /\ DOMAIN links' = DOMAIN links
      /\ \A k \in DOMAIN links : k # l => links'[k] = links[k]
      /\ links'[l].consumed = links[l].consumed /\ links'[l].gone = links[l].gone
      /\ links'[l].attempts = links[l].attempts + (IF OpenTo(l) THEN 1 ELSE 0)
  BY <1>2 DEF Links
<1>5. Guessing(l)' = Guessing(l) \ {w} /\ w \in Guessing(l)
  BY <1>1, <1>2, <1>3 DEF Guessing, At, Idle
<1>6. \A k : k # l => Guessing(k)' = Guessing(k)
  BY <1>1, <1>2, <1>3 DEF Guessing, At, Idle
<1>7. links[l].attempts \in Nat /\ misses[l] \in Int /\ MaxAttempts \in Nat
  BY <1>2, SignInAssumption DEF Links
<1>8. OpenTo(l)' => OpenTo(l)
  <2> SUFFICES ASSUME OpenTo(l)' PROVE OpenTo(l)
    OBVIOUS
  <2>1. links'[l].attempts < MaxAttempts /\ ~ links'[l].gone /\ ~ links'[l].consumed
    BY DEF OpenTo, Pending
  <2>2. links[l].attempts <= links'[l].attempts /\ links'[l].attempts \in Nat
    BY <1>4, <1>7
  <2>3. links[l].attempts < MaxAttempts
    BY <1>7, <2>1, <2>2
  <2> QED BY <1>4, <2>1, <2>3 DEF OpenTo, Pending
<1>9. ASSUME OpenTo(l)', misses[l] # Raced
      PROVE  misses[l] <= links'[l].attempts /\ Guessing(l)' = {}
  <2>1. OpenTo(l) /\ links'[l].attempts = links[l].attempts + 1
    BY <1>4, <1>8, <1>9
  <2>2. misses[l] <= links[l].attempts + 1 /\ \A v \in Guessing(l), u \in Guessing(l) : v = u
    BY <1>2, <1>9, <2>1 DEF Guessed
  <2> QED BY <1>5, <2>1, <2>2
<1>10. ASSUME NEW k \in DOMAIN links'
       PROVE  /\ misses'[k] <= MaxAttempts
              /\ OpenTo(k)' /\ misses'[k] # Raced =>
                   /\ misses'[k] <= links'[k].attempts + 1
                   /\ Guessing(k)' = {} => misses'[k] <= links'[k].attempts
                   /\ \A v \in Guessing(k)', u \in Guessing(k)' : v = u
  <2>1. k \in DOMAIN links /\ misses'[k] = misses[k]
    BY <1>2, <1>4
  <2>2. CASE k = l
    <3>1. misses[l] <= MaxAttempts
      BY <1>2 DEF Guessed
    <3>2. links'[l].attempts \in Nat
      BY <1>4, <1>7
    <3> QED BY <1>2, <1>7, <1>9, <2>2, <3>1, <3>2
  <2>3. CASE k # l
    BY <1>4, <1>6, <2>1, <2>3 DEF Guessed, OpenTo, Pending
  <2> QED BY <2>2, <2>3
<1> QED BY <1>10 DEF Guessed

\* Requests that break off take their guesses along, which are never counted then.
LEMMA BreakGuesses ==
    ASSUME TypeOK, Guessed, NEW ws \in SUBSET Workers, BreakOff(ws),
           \A v \in Workers \ ws : req'[v] = req[v],
           \A v \in ws : ~At(v, "count")'
    PROVE  Guessed'
<1>1. /\ DOMAIN links' = DOMAIN links
      /\ \A l \in DOMAIN links :
           /\ links'[l].gone = links[l].gone /\ links'[l].consumed = links[l].consumed
           /\ links'[l].attempts = links[l].attempts
           /\ misses'[l] = IF OpenTo(l) /\ Guessing(l) \cap ws # {} THEN Raced ELSE misses[l]
  BY BrokenOff
<1>2. \A l : Guessing(l)' = Guessing(l) \ ws
  BY DEF Guessing, At
<1>3. MaxAttempts \in Nat
  BY SignInAssumption
<1>4. ASSUME NEW l \in DOMAIN links
      PROVE  /\ misses'[l] <= MaxAttempts
             /\ OpenTo(l)' => OpenTo(l) /\ links'[l].attempts = links[l].attempts
             /\ OpenTo(l)' /\ misses'[l] # Raced => misses'[l] = misses[l] /\ Guessing(l)' = Guessing(l)
  <2>1. misses'[l] <= MaxAttempts
    BY <1>1, <1>3 DEF Guessed, Raced
  <2>2. OpenTo(l)' => OpenTo(l) /\ links'[l].attempts = links[l].attempts
    BY <1>1 DEF OpenTo, Pending
  <2>3. ASSUME OpenTo(l)', misses'[l] # Raced
        PROVE  misses'[l] = misses[l] /\ Guessing(l)' = Guessing(l)
    <3>1. Guessing(l) \cap ws = {} /\ misses'[l] = misses[l]
      BY <1>1, <2>2, <2>3
    <3> QED BY <1>2, <3>1
  <2> QED BY <2>1, <2>2, <2>3
<1> QED BY <1>1, <1>4, GuessesKept

LEMMA StepGuessed == TypeOK /\ Guessed /\ [Next]_vars => Guessed'
<1> SUFFICES ASSUME TypeOK, Guessed, [Next]_vars PROVE Guessed'
  OBVIOUS
\* Steps that leave the guesses alone.
<1>1. ASSUME \A l : Guessing(l)' = Guessing(l),
             DOMAIN links' = DOMAIN links, misses' = misses,
             \A l \in DOMAIN links : OpenTo(l)' => OpenTo(l) /\ links'[l].attempts = links[l].attempts
      PROVE  Guessed'
  <2>1. \A l \in DOMAIN links : misses'[l] <= MaxAttempts
    BY <1>1 DEF Guessed
  <2> QED BY <1>1, <2>1, GuessesKept
<1>2. ASSUME NEW w \in Workers, NEW ok \in BOOLEAN, Mail(w, ok) PROVE Guessed'
  <2>1. /\ req[w].link \in DOMAIN links /\ req[w] \in Requests /\ ~At(w, "count")
        /\ \A l \in DOMAIN links : links[l] \in Links
        /\ links' = [links EXCEPT ![req[w].link].failed = ~ok] /\ misses' = misses
    BY <1>2, Typed DEF Mail, At
  <2>2. /\ DOMAIN links' = DOMAIN links
        /\ \A l \in DOMAIN links : OpenTo(l)' => OpenTo(l) /\ links'[l].attempts = links[l].attempts
    BY <2>1 DEF Links, OpenTo, Pending
  <2>3. PICK r \in Requests : Become(w, r) /\ r.pc # "count"
    BY <1>2, <2>1, IdleFits DEF Mail, AfterMail, Requests, Steps, Idle
  <2>4. \A l : Guessing(l)' = Guessing(l)
    BY <2>1, <2>3, GuessingKept
  <2> QED BY <1>1, <2>1, <2>2, <2>4
<1>3. ASSUME NEW w \in Workers, Retract(w) PROVE Guessed'
  <2>1. /\ req[w].link \in DOMAIN links /\ ~At(w, "count") /\ Become(w, Idle)
        /\ \A l \in DOMAIN links : links[l] \in Links
        /\ links' = [links EXCEPT ![req[w].link] = [@ EXCEPT !.gone = TRUE, !.failed = FALSE]]
        /\ misses' = misses
    BY <1>3, Typed DEF Retract, At, Finish
  <2>2. /\ DOMAIN links' = DOMAIN links
        /\ \A l \in DOMAIN links : OpenTo(l)' => OpenTo(l) /\ links'[l].attempts = links[l].attempts
    BY <2>1 DEF Links, OpenTo, Pending
  <2>3. \A l : Guessing(l)' = Guessing(l)
    BY <2>1, IdleFits, GuessingKept DEF Idle
  <2> QED BY <1>1, <2>1, <2>2, <2>3
<1>4. ASSUME NEW w \in Workers, NEW r \in Requests, Become(w, r), ~At(w, "count"), r.pc # "count",
             UNCHANGED <<links, misses>>
      PROVE  Guessed'
  <2>1. \A k \in DOMAIN links : OpenTo(k)' => OpenTo(k) /\ links'[k].attempts = links[k].attempts
    BY <1>4 DEF OpenTo, Pending
  <2>2. \A l : Guessing(l)' = Guessing(l)
    BY <1>4, GuessingKept
  <2> QED BY <1>1, <1>4, <2>1, <2>2
<1>5. ASSUME NEW w \in Workers, NEW e \in Emails, NEW code \in 0 .. Len(links), Look(w, e, code)
      PROVE  Guessed'
  <2>1. PICK l \in LiveLinks(e), c \in Nat :
           Become(w, [Idle EXCEPT !.pc = "compare", !.link = l, !.code = c])
    BY <1>5, Typed DEF Look, LiveLinks
  <2>2. l \in Nat /\ c \in Nat
    BY Typed DEF LiveLinks
  <2>3. /\ [Idle EXCEPT !.pc = "compare", !.link = l, !.code = c] \in Requests
        /\ [Idle EXCEPT !.pc = "compare", !.link = l, !.code = c].pc # "count"
    BY <2>2 DEF Requests, Steps, Idle
  <2>4. UNCHANGED <<links, misses>> /\ ~At(w, "count")
    BY <1>5 DEF Look, rows, At
  <2> QED BY <1>4, <2>1, <2>3, <2>4
<1>6. ASSUME NEW w \in Workers, Admit(w) \/ OpenSession(w) \/ Roll(w) PROVE Guessed'
  <2>1. UNCHANGED <<links, misses>> /\ ~At(w, "count") /\ req[w] \in Requests
    BY <1>6, Typed DEF Admit, OpenSession, Roll, At
  <2>2. PICK r \in Requests : Become(w, r) /\ r.pc # "count"
    BY <1>6, <2>1, IdleFits DEF Admit, OpenSession, Roll, Finish, Requests, Steps, Idle
  <2> QED BY <1>4, <2>1, <2>2
<1>7. ASSUME NEW w \in Workers, NEW l \in DOMAIN links, Click(w, l) PROVE Guessed'
  <2>1. /\ [Idle EXCEPT !.pc = "admit", !.link = l] \in Requests
        /\ [Idle EXCEPT !.pc = "admit", !.link = l].pc # "count"
    BY Typed DEF Requests, Steps, Idle
  <2>2. /\ Become(w, [Idle EXCEPT !.pc = "admit", !.link = l]) /\ ~At(w, "count")
        /\ links' = [links EXCEPT ![l].consumed = TRUE] /\ misses' = [misses EXCEPT ![l] = 0]
    BY <1>7 DEF Click, At
  <2>3. \A k : Guessing(k)' = Guessing(k)
    BY <2>1, <2>2, GuessingKept
  <2> QED BY <2>2, <2>3, UseGuesses
<1>8. ASSUME NEW w \in Workers, NEW s \in DOMAIN sessions, Resolve(w, s) PROVE Guessed'
  <2>1. UNCHANGED <<links, misses>> /\ ~At(w, "count")
    BY <1>8 DEF Resolve, At
  <2>2. /\ [Idle EXCEPT !.pc = "roll", !.session = s, !.at = now] \in Requests
        /\ [Idle EXCEPT !.pc = "roll", !.session = s, !.at = now].pc # "count"
    BY Typed DEF Requests, Steps, Idle
  <2>3. CASE Become(w, [Idle EXCEPT !.pc = "roll", !.session = s, !.at = now])
    BY <1>4, <2>1, <2>2, <2>3
  <2>4. CASE UNCHANGED req
    <3>1. \A l : Guessing(l)' = Guessing(l)
      BY <2>4 DEF Guessing, At
    <3>2. \A k \in DOMAIN links : OpenTo(k)' => OpenTo(k) /\ links'[k].attempts = links[k].attempts
      BY <2>1 DEF OpenTo, Pending
    <3> QED BY <1>1, <2>1, <3>1, <3>2
  <2> QED BY <1>8, <2>3, <2>4 DEF Resolve
<1>9. CASE Restart
  <2>1. BreakOff(Workers) /\ Workers \in SUBSET Workers
    BY <1>9 DEF Restart
  <2>2. \A v \in Workers : ~At(v, "count")'
    BY <1>9 DEF Restart, At, Idle
  <2> QED BY <2>1, <2>2, BreakGuesses
<1>10. ASSUME NEW w \in Workers, Fail(w) PROVE Guessed'
  <2>1. BreakOff({w}) /\ {w} \in SUBSET Workers /\ Become(w, Idle)
    BY <1>10 DEF Fail, Finish
  <2>2. ~At(w, "count")' /\ \A v \in Workers \ {w} : req'[v] = req[v]
    BY <2>1, IdleFits, Moved DEF At, Idle
  <2> QED BY <2>1, <2>2, BreakGuesses
<1>11. CASE \/ \E e \in Emails : StartRefused(e) \/ Unwelcome(e)
            \/ \E s \in DOMAIN sessions : SignOut(s)
            \/ Tick \/ UNCHANGED vars
  <2>1. UNCHANGED <<req, links, misses>>
    BY <1>11 DEF StartRefused, Unwelcome, SignOut, Tick, vars, rows
  <2>2. \A l : Guessing(l)' = Guessing(l)
    BY <2>1 DEF Guessing, At
  <2>3. \A k \in DOMAIN links : OpenTo(k)' => OpenTo(k) /\ links'[k].attempts = links[k].attempts
    BY <2>1 DEF OpenTo, Pending
  <2> QED BY <1>1, <2>1, <2>2, <2>3
<1> QED
  BY <1>2, <1>3, <1>5, <1>6, <1>7, <1>8, <1>9, <1>10, <1>11, StartGuesses, CompareGuesses, CountGuesses
     DEF Next

\* As long as each wrong code is counted before the next is judged, no more than the
\* cap are judged against a link until it is used, for any number of requests, mails,
\* failures and restarts and any cap; it says nothing of codes judged at once.
THEOREM GuessesAreCapped == Spec => []GuessesCapped
<1>1. Init => TypeOK /\ Guessed
  BY InitTypeOK DEF Init, Guessed
<1>2. TypeOK /\ Guessed /\ [Next]_vars => TypeOK' /\ Guessed'
  BY StepTypeOK, StepGuessed
<1>3. Guessed => GuessesCapped
  BY DEF Guessed, GuessesCapped
<1> QED BY <1>1, <1>2, <1>3, PTL DEF Spec
=============================================================================
