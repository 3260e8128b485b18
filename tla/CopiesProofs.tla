----------------------------- MODULE CopiesProofs -----------------------------
(***************************************************************************)
(* The copies of the club's data that are kept outside its database: the   *)
(* class and the promises of Google Wallet (WalletApi) and the signups on  *)
(* an organizer's screen (Dashboard).  The two share no state; each is     *)
(* proved about by itself, for every value of its constants.               *)
(***************************************************************************)
EXTENDS WalletApi, Dashboard, TLAPS

(***************************************************************************)
(* WalletApi: the caches tell the truth for every set of callers and       *)
(* whatever the bounds.                                                    *)
(***************************************************************************)
Works(c) == call[c].pc \in Working

\* The body a caller waits for is one the event has had.
Bodies == \A c \in Callers : call[c].pc # "idle" => call[c].body \in 1 .. title

\* tokenInFlight has a promise just while its one request is under way.
Fetches ==
    /\ fetching = (\E c \in Callers : At(c, "fetch"))
    /\ \A c, d \in Callers : At(c, "fetch") /\ At(d, "fetch") => c = d

\* upsertInFlight is the set of bodies under way, each by one request.
Upserts ==
    /\ \A b \in inFlight : \E c \in Callers : Works(c) /\ call[c].body = b
    /\ \A c \in Callers : Works(c) => call[c].body \in inFlight
    /\ \A c, d \in Callers : Works(c) /\ Works(d) /\ call[c].body = call[d].body => c = d

\* While no upserts have overlapped there is one request at most, and what it has
\* done to the class so far is known from its step.
Truth ==
    ~ crossed =>
       /\ \A c, d \in Callers : Works(c) /\ Works(d) => c = d
       /\ \A c \in Callers : At(c, "made") => class = call[c].body
       /\ (\A c \in Callers : ~ At(c, "made")) => upserted \in {0, class}

Inv == TypeOK /\ Bodies /\ Fetches /\ Upserts /\ Truth /\ cached \notin refused

\* One caller moves on.
LEMMA StepFields ==
    ASSUME TypeOK, NEW c \in Callers, NEW pc \in Steps, Step(c, pc)
    PROVE  /\ call' \in [Callers -> Calls]
           /\ call'[c].pc = pc /\ call'[c].body = call[c].body /\ call'[c].token = call[c].token
           /\ \A d \in Callers : d # c => call'[d] = call[d]
<1>1. call \in [Callers -> Calls]
  BY DEF TypeOK
<1>2. PICK x : x = [call[c] EXCEPT !.pc = pc]
  OBVIOUS
<1>3. x \in Calls /\ x.pc = pc /\ x.body = call[c].body /\ x.token = call[c].token
  BY <1>1, <1>2 DEF Calls
<1>4. call' = [call EXCEPT ![c] = x]
  BY <1>1, <1>2 DEF Step
<1> QED BY <1>1, <1>3, <1>4

LEMMA IdleFields ==
    /\ Idle \in Calls /\ Idle.pc = "idle" /\ "idle" \notin Working
    /\ "idle" # "fetch" /\ "idle" # "upsert" /\ "idle" # "class" /\ "idle" # "made"
BY DEF Idle, Calls, Steps, Working

\* A promise settles: its request is over, the body leaves the map.
LEMMA SettleStep ==
    ASSUME TypeOK, Bodies, Upserts, Fetches, NEW c \in Callers, Works(c), Settle(c),
           UNCHANGED <<title, fetching>>
    PROVE  /\ call' \in [Callers -> Calls] /\ inFlight' \subseteq 1 .. title'
           /\ \A d \in Callers : call'[d] = Idle \/ call'[d] = call[d]
           /\ call'[c] = Idle
           /\ \A d \in Callers : d # c /\ Works(d) => call'[d] = call[d]
           /\ Bodies' /\ Upserts' /\ Fetches'
<1>1. /\ call \in [Callers -> Calls] /\ inFlight \subseteq 1 .. title
      /\ inFlight' = inFlight \ {call[c].body}
  BY DEF TypeOK, Settle
<1>2. /\ call' \in [Callers -> Calls] /\ call'[c] = Idle
      /\ \A d \in Callers : call'[d] = (IF d = c \/ d \in Waiting("class", call[c].body) THEN Idle ELSE call[d])
  BY <1>1, IdleFields DEF Settle
<1>3. \A d \in Waiting("class", call[c].body) : At(d, "class")
  BY DEF Waiting
<1>4. \A d \in Callers : d # c /\ (Works(d) \/ At(d, "fetch")) => call'[d] = call[d]
  BY <1>2, <1>3 DEF Works, At, Working
<1>5. \A d \in Callers : Works(d)' <=> Works(d) /\ d # c
  BY <1>2, <1>4, IdleFields DEF Works
<1>6. \A d \in Callers : At(d, "fetch")' <=> At(d, "fetch")
  BY <1>2, <1>4, IdleFields DEF At, Works, Working
<1>7. Upserts'
  BY <1>1, <1>4, <1>5 DEF Upserts
<1>8. Fetches'
  BY <1>6 DEF Fetches
<1>9. Bodies'
  BY <1>2, IdleFields DEF Bodies
<1> QED BY <1>1, <1>2, <1>4, <1>7, <1>8, <1>9 DEF TypeOK

\* Callers that do not work may change, and the bodies stay in flight.
LEMMA WorkKept ==
    ASSUME Upserts, UNCHANGED inFlight,
           \A d \in Callers : Works(d)' <=> Works(d),
           \A d \in Callers : Works(d) => call'[d].body = call[d].body
    PROVE  Upserts'
BY DEF Upserts

LEMMA Bounds == MaxEdits \in Nat \ {0} /\ MaxTokens \in Nat /\ MaxClicks \in Nat
BY WalletAssumption

LEMMA InitHolds == Init => Inv
<1> SUFFICES ASSUME Init PROVE Inv
  OBVIOUS
<1>1. \A c \in Callers : call[c].pc = "idle"
  BY DEF Init, Idle
<1>2. TypeOK
  <2>2. call \in [Callers -> Calls]
    BY IdleFields DEF Init
  <2>3. \A c \in Callers : call[c].pc \notin Working \cup {"upsert", "class"}
    BY <1>1, IdleFields
  <2>4. title = 1 /\ cached = 0 /\ fetching = FALSE /\ upserted = 0 /\ inFlight = {} /\ class = 0
        /\ dead = {} /\ issued = 0 /\ clicks = 0 /\ refused = {} /\ crossed = FALSE
    BY DEF Init
  <2>5. /\ title \in 1 .. MaxEdits /\ cached \in 0 .. issued /\ upserted \in 0 .. title /\ class \in 0 .. title
        /\ issued \in 0 .. MaxTokens /\ clicks \in 0 .. MaxClicks
    BY <2>4, Bounds
  <2> QED BY <2>2, <2>3, <2>4, <2>5 DEF TypeOK
<1> QED BY <1>1, <1>2, IdleFields DEF Init, Inv, Bodies, Fetches, Upserts, Truth, Works, At

\* Every step keeps the invariant.
LEMMA StepKeeps ==
    ASSUME Inv, [Next]_vars
    PROVE  Inv'
<1> USE Bounds
<1>1. /\ title \in 1 .. MaxEdits /\ cached \in 0 .. issued /\ fetching \in BOOLEAN
      /\ upserted \in 0 .. title /\ inFlight \subseteq 1 .. title /\ call \in [Callers -> Calls]
      /\ class \in 0 .. title /\ dead \subseteq 1 .. issued /\ issued \in 0 .. MaxTokens
      /\ clicks \in 0 .. MaxClicks /\ refused \subseteq 1 .. issued /\ crossed \in BOOLEAN
      /\ \A c \in Callers : call[c].pc \in Working \cup {"upsert", "class"} => call[c].token \in 1 .. issued
      /\ TypeOK /\ Bodies /\ Fetches /\ Upserts /\ Truth /\ cached \notin refused
  BY DEF Inv, TypeOK
<1>2. \A c \in Callers : call[c] \in Calls
  BY <1>1
\* steps that change no call
<1>3. ASSUME UNCHANGED <<call, fetching, inFlight, upserted>>,
             title' \in 1 .. MaxEdits, title' >= title, UNCHANGED <<issued, clicks, refused, crossed>>,
             cached' \in {0, cached}, class' \in 0 .. title, ~ crossed => class' = class,
             dead' \subseteq 1 .. issued
      PROVE  Inv'
  <2>1. TypeOK'
    BY <1>1, <1>3 DEF TypeOK
  <2>2. Bodies'
    BY <1>1, <1>3 DEF Bodies
  <2>3. Fetches' /\ Upserts' /\ Truth'
    BY <1>1, <1>3 DEF Fetches, Upserts, Truth, Works, At
  <2> QED BY <1>1, <1>3, <2>1, <2>2, <2>3 DEF Inv
<1>4. CASE EditTitle
  BY <1>1, <1>3, <1>4 DEF EditTitle, caches, google
<1>5. CASE Expire
  BY <1>1, <1>3, <1>5 DEF Expire, google
<1>6. CASE Rotate
  BY <1>1, <1>3, <1>6 DEF Rotate, caches
<1>7. ASSUME NEW b \in 1 .. MaxEdits, Stray(b) PROVE Inv'
  BY <1>1, <1>3, <1>7 DEF Stray, caches
<1>8. CASE UNCHANGED vars
  BY <1>1, <1>3, <1>8 DEF vars, caches, google
<1>9. CASE Restart
  <2>1. /\ call' = [c \in Callers |-> Idle] /\ cached' = 0 /\ fetching' = FALSE /\ upserted' = 0 /\ inFlight' = {}
        /\ UNCHANGED <<title, class, dead, issued, clicks, refused>> /\ crossed' \in BOOLEAN
    BY <1>1, <1>9 DEF Restart, google
  <2>2. \A c \in Callers : call'[c] = Idle
    BY <2>1
  <2>3. TypeOK'
    <3>1. \A c \in Callers : call'[c].pc \notin Working \cup {"upsert", "class"}
      BY <2>2, IdleFields
    <3>2. call' \in [Callers -> Calls]
      BY <2>1, IdleFields
    <3>3. 0 \in 0 .. issued' /\ 0 \in 0 .. title' /\ {} \subseteq 1 .. title'
      BY <1>1, <2>1
    <3>4. /\ title' \in 1 .. MaxEdits /\ class' \in 0 .. title' /\ dead' \subseteq 1 .. issued'
          /\ issued' \in 0 .. MaxTokens /\ clicks' \in 0 .. MaxClicks /\ refused' \subseteq 1 .. issued'
      BY <1>1, <2>1
    <3> QED BY <2>1, <3>1, <3>2, <3>3, <3>4 DEF TypeOK
  <2>4. Bodies' /\ Fetches' /\ Upserts' /\ Truth'
    BY <2>1, <2>2, IdleFields DEF Bodies, Fetches, Upserts, Truth, Works, At
  <2> QED BY <1>1, <2>1, <2>3, <2>4 DEF Inv
\* a click and the token: nobody works before or after
<1>10. ASSUME NEW c \in Callers, Click(c) PROVE Inv'
  <2>1. PICK x : x = [pc |-> IF Usable THEN "upsert" ELSE IF fetching THEN "token" ELSE "fetch",
                      body |-> title, token |-> cached]
    OBVIOUS
  <2>2. /\ x \in Calls /\ x.body = title /\ x.pc \in {"upsert", "token", "fetch"}
        /\ x.pc = "upsert" => x.token \in 1 .. issued
        /\ x.pc = "fetch" <=> cached = 0 /\ ~ fetching
        /\ x.pc \notin Working \cup {"idle", "class", "made"}
    BY <1>1, <2>1 DEF Calls, Usable, Steps, Working
  <2>3. /\ call' = [call EXCEPT ![c] = x] /\ call[c].pc = "idle" /\ fetching' = (fetching \/ cached = 0)
        /\ clicks' \in 0 .. MaxClicks
        /\ UNCHANGED <<title, cached, upserted, inFlight, class, dead, issued, refused, crossed>>
    BY <1>1, <1>10, <2>1 DEF Click, At, google, Usable
  <2>4. call' \in [Callers -> Calls] /\ call'[c] = x /\ \A d \in Callers : d # c => call'[d] = call[d]
    BY <1>1, <2>2, <2>3
  <2>5. TypeOK'
    BY <1>1, <2>2, <2>3, <2>4 DEF TypeOK, Working
  <2>6. Bodies'
    BY <1>1, <2>2, <2>3, <2>4 DEF Bodies
  <2>7. Fetches'
    BY <1>1, <2>2, <2>3, <2>4 DEF Fetches, At
  <2>8. \A d \in Callers : (Works(d)' <=> Works(d)) /\ (At(d, "made")' <=> At(d, "made"))
    BY <2>2, <2>3, <2>4, IdleFields DEF Works, At
  <2>9. \A d \in Callers : Works(d) \/ At(d, "made") => d # c
    BY <2>3, IdleFields DEF Works, At
  <2>10. Upserts' /\ Truth'
    BY <1>1, <2>3, <2>4, <2>8, <2>9, WorkKept DEF Truth
  <2> QED BY <1>1, <2>3, <2>5, <2>6, <2>7, <2>10 DEF Inv
<1>11. ASSUME NEW c \in Callers, TokenComes(c) \/ TokenFails(c) PROVE Inv'
  <2>1. /\ At(c, "fetch") /\ fetching' = FALSE
        /\ UNCHANGED <<title, upserted, inFlight, class, dead, clicks, crossed, refused>>
        /\ \/ issued' = issued + 1 /\ issued' \in 0 .. MaxTokens /\ cached' = issued + 1
           \/ UNCHANGED <<issued, cached>>
    <3>1. CASE TokenComes(c)
      <4>1. issued \in 0 .. MaxTokens /\ issued < MaxTokens /\ issued' = issued + 1
        BY <1>1, <3>1 DEF TokenComes
      <4>2. issued' \in 0 .. MaxTokens
        BY <4>1
      <4> QED BY <3>1, <4>1, <4>2 DEF TokenComes
    <3>2. CASE TokenFails(c)
      BY <3>2 DEF TokenFails, google, Dropped
    <3> QED BY <1>11, <3>1, <3>2
  <2>2. /\ call' \in [Callers -> Calls] /\ call'[c].pc # "fetch"
        /\ \A d \in Callers : d # c /\ ~ At(d, "token") => call'[d] = call[d]
        /\ \A d \in Callers : d = c \/ At(d, "token") =>
             \/ call'[d] = Idle
             \/ call'[d].pc = "upsert" /\ call'[d].token = issued' /\ issued' = issued + 1
                /\ call'[d].body = call[d].body
    <3>1. CASE TokenComes(c)
      <4>1. /\ call' = [d \in Callers |-> IF d = c \/ At(d, "token")
                                  THEN [call[d] EXCEPT !.pc = "upsert", !.token = issued + 1]
                                  ELSE call[d]]
            /\ issued' = issued + 1
        BY <3>1 DEF TokenComes
      <4>2. PICK n \in Nat : n = issued + 1
        BY <1>1
      <4>3. ASSUME NEW d \in Callers, NEW x, x = [call[d] EXCEPT !.pc = "upsert", !.token = n]
            PROVE  x \in Calls /\ x.pc = "upsert" /\ x.token = n /\ x.body = call[d].body
        BY <1>2, <4>3 DEF Calls, Steps
      <4> QED BY <1>2, <4>1, <4>2, <4>3
    <3>2. CASE TokenFails(c)
      BY <1>2, <3>2, IdleFields DEF TokenFails
    <3> QED BY <1>11, <3>1, <3>2
  <2>3. \A d \in Callers : At(d, "fetch") => d = c
    BY <1>1, <2>1 DEF Fetches
  <2>4. \A d \in Callers : ~ At(d, "fetch")'
    <3>1. ASSUME NEW d \in Callers PROVE call'[d].pc # "fetch"
      <4>1. CASE d = c \/ At(d, "token")
        BY <2>2, <4>1, IdleFields
      <4>2. CASE d # c /\ ~ At(d, "token")
        BY <2>2, <2>3, <4>2 DEF At
      <4> QED BY <4>1, <4>2
    <3> QED BY <3>1 DEF At
  <2>5. \A d \in Callers : (d = c \/ At(d, "token")) => ~ Works(d) /\ ~ At(d, "made") /\ ~ Works(d)' /\ ~ At(d, "made")'
    BY <2>1, <2>2, IdleFields DEF Works, At, Working
  <2>6. \A d \in Callers : /\ Works(d)' <=> Works(d)
                           /\ At(d, "made")' <=> At(d, "made")
                           /\ Works(d) \/ At(d, "made") => call'[d] = call[d]
    BY <2>2, <2>5 DEF Works, At
  <2>7. Upserts' /\ Truth'
    BY <1>1, <2>1, <2>6, WorkKept DEF Truth
  <2>8. Bodies'
    BY <1>1, <2>1, <2>2, IdleFields DEF Bodies, At
  <2>9. Fetches'
    BY <2>1, <2>4 DEF Fetches
  <2>10. TypeOK'
    <3>1. \A d \in Callers : call'[d].pc \in Working \cup {"upsert", "class"} => call'[d].token \in 1 .. issued'
      BY <1>1, <2>1, <2>2, IdleFields
    <3>2. issued' \in 0 .. MaxTokens /\ cached' \in 0 .. issued' /\ 1 .. issued \subseteq 1 .. issued'
      BY <1>1, <2>1
    <3>3. dead' \subseteq 1 .. issued' /\ refused' \subseteq 1 .. issued' /\ fetching' \in BOOLEAN
      BY <1>1, <2>1, <3>2
    <3> QED BY <1>1, <2>1, <2>2, <3>1, <3>2, <3>3 DEF TypeOK
  <2> QED BY <1>1, <2>1, <2>7, <2>8, <2>9, <2>10 DEF Inv
<1>12. ASSUME NEW c \in Callers, Upsert(c) PROVE Inv'
  <2>1. /\ call[c].pc = "upsert" /\ call[c].body \in 1 .. title
        /\ UNCHANGED <<title, cached, fetching, upserted, class, dead, issued, clicks, refused>>
    BY <1>1, <1>12 DEF Upsert, At, google, Bodies
  <2>2. ~ Works(c) /\ ~ At(c, "made") /\ ~ At(c, "fetch") /\ call[c].token \in 1 .. issued
    BY <1>1, <2>1 DEF Works, At, Working
  <2>3. CASE call' = [call EXCEPT ![c] = Idle] /\ UNCHANGED <<inFlight, crossed>>
    <3>1. call' \in [Callers -> Calls] /\ call'[c] = Idle /\ \A d \in Callers : d # c => call'[d] = call[d]
      BY <1>1, <2>3, IdleFields
    <3>0. ~ Works(c)' /\ ~ At(c, "made")' /\ ~ At(c, "fetch")'
      BY <3>1, IdleFields DEF Works, At, Working
    <3>2. \A d \in Callers : /\ Works(d)' <=> Works(d)
                             /\ At(d, "made")' <=> At(d, "made")
                             /\ At(d, "fetch")' <=> At(d, "fetch")
                             /\ d # c => call'[d] = call[d]
      <4>1. ASSUME NEW d \in Callers, d # c
            PROVE  /\ Works(d)' <=> Works(d)
                   /\ At(d, "made")' <=> At(d, "made")
                   /\ At(d, "fetch")' <=> At(d, "fetch")
        BY <3>1, <4>1 DEF Works, At
      <4> QED BY <2>2, <3>0, <3>1, <4>1
    <3>3. Upserts' /\ Truth' /\ Fetches' /\ Bodies'
      <4>1. Upserts'
        BY <1>1, <2>2, <2>3, <3>2, WorkKept
      <4>2. Truth'
        BY <1>1, <2>1, <2>2, <2>3, <3>2 DEF Truth
      <4>3. Fetches' /\ Bodies'
        BY <1>1, <2>1, <3>1, <3>2, IdleFields DEF Fetches, Bodies
      <4> QED BY <4>1, <4>2, <4>3
    <3>4. TypeOK'
      <4>1. call'[c].pc \notin Working \cup {"upsert", "class"}
        BY <3>1, IdleFields
      <4>2. \A d \in Callers : call'[d].pc \in Working \cup {"upsert", "class"} => call'[d].token \in 1 .. issued
        BY <1>1, <3>1, <4>1
      <4> QED BY <1>1, <2>1, <2>3, <3>1, <4>2 DEF TypeOK
    <3> QED BY <1>1, <2>1, <3>3, <3>4 DEF Inv
  <2>4. CASE Step(c, "class") /\ UNCHANGED <<inFlight, crossed>>
    <3>1. /\ call' \in [Callers -> Calls] /\ call'[c].pc = "class" /\ call'[c].body = call[c].body
          /\ call'[c].token = call[c].token /\ \A d \in Callers : d # c => call'[d] = call[d]
      BY <1>1, <2>4, StepFields DEF Steps
    <3>0. ~ Works(c)' /\ ~ At(c, "made")' /\ ~ At(c, "fetch")'
      BY <3>1, IdleFields DEF Works, At, Working
    <3>2. \A d \in Callers : /\ Works(d)' <=> Works(d)
                             /\ At(d, "made")' <=> At(d, "made")
                             /\ At(d, "fetch")' <=> At(d, "fetch")
                             /\ d # c => call'[d] = call[d]
      <4>1. ASSUME NEW d \in Callers, d # c
            PROVE  /\ Works(d)' <=> Works(d)
                   /\ At(d, "made")' <=> At(d, "made")
                   /\ At(d, "fetch")' <=> At(d, "fetch")
        BY <3>1, <4>1 DEF Works, At
      <4> QED BY <2>2, <3>0, <3>1, <4>1
    <3>3. Upserts' /\ Truth' /\ Fetches' /\ Bodies'
      <4>1. Upserts'
        BY <1>1, <2>2, <2>4, <3>2, WorkKept
      <4>2. Truth'
        BY <1>1, <2>1, <2>2, <2>4, <3>2 DEF Truth
      <4>3. Fetches' /\ Bodies'
        BY <1>1, <2>1, <3>1, <3>2 DEF Fetches, Bodies
      <4> QED BY <4>1, <4>2, <4>3
    <3>4. TypeOK'
      BY <1>1, <2>1, <2>2, <2>4, <3>1 DEF TypeOK
    <3> QED BY <1>1, <2>1, <3>3, <3>4 DEF Inv
  <2>5. CASE /\ call[c].body \notin inFlight /\ Step(c, "post") /\ inFlight' = inFlight \cup {call[c].body}
             /\ crossed' = (crossed \/ inFlight # {})
    <3>1. /\ call' \in [Callers -> Calls] /\ call'[c].pc = "post" /\ call'[c].body = call[c].body
          /\ call'[c].token = call[c].token /\ \A d \in Callers : d # c => call'[d] = call[d]
      BY <1>1, <2>5, StepFields DEF Steps, Working
    <3>2. Works(c)' /\ ~ At(c, "made")' /\ ~ At(c, "fetch")' /\ \A d \in Callers : d # c => (Works(d)' <=> Works(d))
                                          /\ (At(d, "made")' <=> At(d, "made")) /\ (At(d, "fetch")' <=> At(d, "fetch"))
      BY <3>1 DEF Works, At, Working
    <3>3. \A d \in Callers : Works(d) => d # c /\ call[d].body # call[c].body
      BY <1>1, <2>2, <2>5 DEF Upserts
    <3>4. Upserts'
      <4>1. \A b \in inFlight' : \E d \in Callers : Works(d)' /\ call'[d].body = b
        BY <1>1, <2>5, <3>1, <3>2, <3>3 DEF Upserts
      <4>2. \A d \in Callers : Works(d)' => call'[d].body \in inFlight'
        BY <1>1, <2>5, <3>1, <3>2 DEF Upserts
      <4>3. \A d, e \in Callers : Works(d)' /\ Works(e)' /\ call'[d].body = call'[e].body => d = e
        BY <1>1, <3>1, <3>2, <3>3 DEF Upserts
      <4> QED BY <4>1, <4>2, <4>3 DEF Upserts
    <3>5. Truth'
      <4>1. SUFFICES ASSUME ~ crossed, inFlight = {}
                     PROVE  /\ \A d, e \in Callers : Works(d)' /\ Works(e)' => d = e
                            /\ \A d \in Callers : ~ At(d, "made")'
                            /\ upserted \in {0, class}
        BY <1>1, <2>1, <2>5 DEF Truth
      <4>2. \A d \in Callers : ~ Works(d) /\ ~ At(d, "made")
        BY <1>1, <4>1 DEF Upserts, Works, At, Working
      <4> QED BY <1>1, <3>2, <4>1, <4>2 DEF Truth
    <3>6. Fetches' /\ Bodies'
      BY <1>1, <2>1, <2>2, <3>1, <3>2 DEF Fetches, Bodies
    <3>7. TypeOK'
      <4>1. inFlight' \subseteq 1 .. title /\ crossed' \in BOOLEAN
        BY <1>1, <2>1, <2>5
      <4>2. \A d \in Callers : call'[d].pc \in Working \cup {"upsert", "class"} => call'[d].token \in 1 .. issued
        BY <1>1, <2>2, <3>1
      <4> QED BY <1>1, <2>1, <3>1, <4>1, <4>2 DEF TypeOK
    <3> QED BY <1>1, <2>1, <3>4, <3>5, <3>6, <3>7 DEF Inv
  <2> QED BY <1>12, <2>3, <2>4, <2>5 DEF Upsert
\* a request that works on: Google takes it, or sends it on
<1>13. ASSUME NEW c \in Callers, Works(c), NEW pc \in Working, Step(c, pc), UNCHANGED caches,
              UNCHANGED <<title, dead, issued, clicks, refused, crossed>>,
              class' \in 0 .. title,
              pc = "made" => class' = call[c].body,
              pc # "made" => class' = class /\ ~ At(c, "made")
       PROVE  Inv'
  <2>1. /\ call' \in [Callers -> Calls] /\ call'[c].pc = pc /\ call'[c].body = call[c].body
        /\ call'[c].token = call[c].token /\ \A d \in Callers : d # c => call'[d] = call[d]
    BY <1>1, <1>13, StepFields DEF Steps
  <2>2. UNCHANGED <<cached, fetching, upserted, inFlight>>
    BY <1>13 DEF caches
  <2>3. /\ Works(c)' /\ (At(c, "made")' <=> pc = "made") /\ ~ At(c, "fetch") /\ ~ At(c, "fetch")'
        /\ call[c].pc # "idle"
    BY <1>13, <2>1 DEF Works, At, Working
  <2>4. \A d \in Callers : d # c => /\ Works(d)' <=> Works(d)
                                    /\ At(d, "made")' <=> At(d, "made")
                                    /\ At(d, "fetch")' <=> At(d, "fetch")
    BY <2>1 DEF Works, At
  <2>5. Upserts'
    BY <1>1, <1>13, <2>1, <2>2, <2>3, <2>4, WorkKept
  <2>6. Truth'
    <3>1. SUFFICES ASSUME ~ crossed
                   PROVE  /\ \A d, e \in Callers : Works(d)' /\ Works(e)' => d = e
                          /\ \A d \in Callers : At(d, "made")' => class' = call'[d].body
                          /\ (\A d \in Callers : ~ At(d, "made")') => upserted \in {0, class'}
      BY <1>13, <2>2 DEF Truth
    <3>2. \A d \in Callers : Works(d) => d = c
      BY <1>1, <1>13, <3>1 DEF Truth
    <3>3. \A d \in Callers : At(d, "made") \/ At(d, "made")' => Works(d) \/ Works(d)'
      BY DEF At, Works, Working
    <3>4. \A d \in Callers : At(d, "made")' => d = c
      BY <2>3, <2>4, <3>2, <3>3
    <3>5. ASSUME ~ At(c, "made")' PROVE upserted \in {0, class'}
      <4>1. \A d \in Callers : ~ At(d, "made")
        BY <1>13, <2>3, <2>4, <3>2, <3>3, <3>5
      <4> QED BY <1>1, <1>13, <2>3, <3>1, <3>5, <4>1 DEF Truth
    <3> QED BY <1>13, <2>1, <2>3, <2>4, <3>2, <3>4, <3>5
  <2>7. Fetches' /\ Bodies'
    BY <1>1, <1>13, <2>1, <2>2, <2>3, <2>4 DEF Fetches, Bodies
  <2>8. TypeOK'
    BY <1>1, <1>13, <2>1, <2>2 DEF TypeOK, Works
  <2> QED BY <1>1, <1>13, <2>2, <2>5, <2>6, <2>7, <2>8 DEF Inv
<1>14. ASSUME NEW c \in Callers, Arrives(c) \/ AnswerExists(c) PROVE Inv'
  <2>1. CASE AnswerExists(c)
    BY <1>1, <1>13, <2>1 DEF AnswerExists, Works, At, Working, google
  <2>2. CASE Arrives(c)
    <3>1. PICK answer : answer = (IF call[c].token \in dead THEN "denied"
                                  ELSE IF At(c, "post") /\ class # 0 THEN "exists" ELSE "made")
      OBVIOUS
    <3>2. /\ answer \in {"denied", "exists", "made"} /\ Step(c, answer)
          /\ class' = (IF answer = "made" THEN call[c].body ELSE class)
          /\ call[c].pc \in {"post", "put"}
          /\ UNCHANGED <<title, dead, issued, clicks, refused, crossed>> /\ UNCHANGED caches
      BY <2>2, <3>1 DEF Arrives
    <3>3. Works(c) /\ ~ At(c, "made") /\ call[c].body \in 1 .. title
      BY <1>1, <3>2 DEF Works, At, Working, Bodies
    <3>4. answer \in Working /\ class' \in 0 .. title
      BY <1>1, <3>2, <3>3 DEF Working
    <3> QED BY <1>13, <3>2, <3>3, <3>4
  <2> QED BY <1>14, <2>1, <2>2
\* the promise settles
<1>15. ASSUME NEW c \in Callers, AnswerMade(c) \/ AnswerDenied(c) \/ TimesOut(c) PROVE Inv'
  <2>1. /\ Works(c) /\ Settle(c) /\ UNCHANGED <<title, fetching, class, dead, issued, clicks>>
    BY <1>15 DEF AnswerMade, AnswerDenied, TimesOut, Works, At, Working, google
  <2>2. /\ call' \in [Callers -> Calls] /\ inFlight' \subseteq 1 .. title'
        /\ \A d \in Callers : call'[d] = Idle \/ call'[d] = call[d]
        /\ call'[c] = Idle
        /\ \A d \in Callers : d # c /\ Works(d) => call'[d] = call[d]
        /\ Bodies' /\ Upserts' /\ Fetches'
    BY <1>1, <2>1, SettleStep
  <2>3. /\ call[c].token \in 1 .. issued /\ call[c].body \in 1 .. title
    BY <1>1, <2>1 DEF Works, Bodies, Working
  <2>4. /\ upserted' \in 0 .. title /\ crossed' \in BOOLEAN /\ refused' \subseteq 1 .. issued
        /\ cached' \in 0 .. issued /\ cached' \notin refused'
    <3>1. CASE AnswerMade(c)
      <4>1. upserted' = call[c].body /\ UNCHANGED <<cached, refused, crossed>>
        BY <3>1 DEF AnswerMade, Accepted
      <4> QED BY <1>1, <2>3, <4>1
    <3>2. CASE AnswerDenied(c)
      <4>1. cached' = 0 /\ refused' = refused \cup {call[c].token} /\ UNCHANGED <<upserted, crossed>>
        BY <3>2 DEF AnswerDenied, Keep
      <4>2. refused' \subseteq 1 .. issued
        BY <1>1, <2>3, <4>1
      <4>3. 0 \in 0 .. issued /\ 0 \notin 1 .. issued
        BY <1>1
      <4> QED BY <1>1, <4>1, <4>2, <4>3
    <3>3. CASE TimesOut(c)
      <4>1. crossed' = TRUE /\ UNCHANGED <<cached, upserted, refused>>
        BY <3>3 DEF TimesOut
      <4> QED BY <1>1, <4>1
    <3> QED BY <1>15, <3>1, <3>2, <3>3
  <2>5. TypeOK'
    <3>1. \A d \in Callers : call'[d].pc \in Working \cup {"upsert", "class"} => call'[d].token \in 1 .. issued
      BY <1>1, <2>2, IdleFields
    <3> QED BY <1>1, <2>1, <2>2, <2>4, <3>1 DEF TypeOK
  <2>6. Truth'
    <3>1. SUFFICES ASSUME ~ crossed'
                   PROVE  (\A d \in Callers : ~ Works(d)') /\ upserted' \in {0, class'}
      BY DEF Truth, Works, At, Working
    <3>2. ~ crossed /\ ~ TimesOut(c)
      BY <1>15, <3>1 DEF AnswerMade, AnswerDenied, TimesOut
    <3>3. \A d \in Callers : Works(d) => d = c
      BY <1>1, <2>1, <3>2 DEF Truth
    <3>4. \A d \in Callers : ~ Works(d)'
      BY <2>2, <3>3, IdleFields DEF Works
    <3>5. CASE AnswerMade(c)
      BY <1>1, <2>1, <3>2, <3>4, <3>5 DEF AnswerMade, Accepted, Truth
    <3>6. CASE AnswerDenied(c)
      <4>1. \A d \in Callers : ~ At(d, "made")
        BY <3>3, <3>6 DEF AnswerDenied, At, Works, Working
      <4> QED BY <1>1, <2>1, <3>2, <3>4, <3>6, <4>1 DEF AnswerDenied, Truth
    <3> QED BY <1>15, <3>2, <3>5, <3>6
  <2> QED BY <2>2, <2>4, <2>5, <2>6 DEF Inv
<1> QED BY <1>4, <1>5, <1>6, <1>7, <1>8, <1>9, <1>10, <1>11, <1>12, <1>14, <1>15 DEF Next, Answer

LEMMA AlwaysInv == Spec => []Inv
<1>1. Init => Inv
  BY InitHolds
<1>2. Inv /\ [Next]_vars => Inv'
  BY StepKeeps
<1> QED BY <1>1, <1>2, PTL DEF Spec

\* The promises that callers of accessToken and upsertEventTicketClass share belong
\* to one request each that is under way.
THEOREM PromisesAreLive == Spec => []PromisesLive
<1>1. Inv => PromisesLive
  BY DEF Inv, Fetches, Upserts, Works, PromisesLive
<1> QED BY <1>1, AlwaysInv, PTL

\* The class body and the token that the next click relies on are those Google has
\* and accepts, unless upserts overlapped or timed out.
THEOREM CachesAreTrue == Spec => []CachesTrue
<1>1. Inv => CachesTrue
  <2>1. SUFFICES ASSUME Inv, ~ crossed, inFlight = {} PROVE upserted \in {0, class}
    BY DEF Inv, CachesTrue
  <2>2. \A c \in Callers : ~ At(c, "made")
    BY <2>1 DEF Inv, Upserts, Works, At, Working
  <2> QED BY <2>1, <2>2 DEF Inv, Truth
<1> QED BY <1>1, AlwaysInv, PTL

(***************************************************************************)
(* Dashboard: what it shows at rest, for every set of guests, dashboards   *)
(* and decisions on their way.                                             *)
(***************************************************************************)
\* Once a page waits for no decision and no fetch, the last fetch that arrived was
\* read after its last decision ended: a decision that ends starts a fetch, and
\* only the arrival of that fetch, or its failure, ends the fetching.
Fresh(copy, s) == ~ copy.guess /\ copy.asOf >= s.settled
Fits(p) ==
    /\ page[p].settled <= now
    /\ page[p].fetch = "answered" => Fresh(page[p].answer, page[p])
    /\ AtRest(p) => Fresh(page[p].data, page[p])

DashboardInv == DashboardTypeOK /\ \A p \in Pages : Fits(p)

\* An answer the page waits for is waited for, and one it does not is not, whatever
\* the API does with the decision: what a page waits for is up to the page.
LEMMA WaitingKept ==
    ASSUME DashboardTypeOK, NEW c \in Clicks, NEW x, NEW p \in Pages,
           click' = [click EXCEPT ![c] = x],
           (x # Free /\ x.at = p /\ ~ x.unheard)
             <=> (click[c] # Free /\ click[c].at = p /\ ~ click[c].unheard)
    PROVE  Awaiting(p)' = Awaiting(p)
<1>1. click'[c] = x /\ \A e \in Clicks : e # c => click'[e] = click[e]
  BY DEF DashboardTypeOK
<1> QED BY <1>1 DEF Awaiting

\* A page keeps its promise over a step that leaves it and its decisions alone.
LEMMA OthersKept ==
    ASSUME DashboardTypeOK, now' \in Nat, now' >= now, NEW p \in Pages, Fits(p), page'[p] = page[p],
           Awaiting(p)' = Awaiting(p)
    PROVE  Fits(p)'
<1>1. page[p] \in Screens /\ now \in Nat
  BY DashboardAssumption DEF DashboardTypeOK
<1> QED BY <1>1 DEF Fits, AtRest, Fresh, Screens

\* The records a step makes of a page and of a decision have their types.
LEMMA Copied ==
    ASSUME DashboardTypeOK
    PROVE  /\ Blank \in Copies /\ Copy \in Copies /\ ~ Copy.guess /\ Copy.asOf = now
           /\ now \in Nat
<1>1. now \in Nat /\ rows \in [Guests -> Signups]
  BY DashboardAssumption DEF DashboardTypeOK
<1>2. Empty \in [Guests -> Signups]
  BY DEF Empty, Signups, Statuses
<1> QED BY <1>1, <1>2 DEF Blank, Copy, Copies

LEMMA SettledFields ==
    ASSUME DashboardTypeOK, NEW s \in Screens, NEW data \in Copies
    PROVE  /\ Settled(s, data) \in Screens
           /\ Settled(s, data).fetch = "sent" /\ Settled(s, data).settled = now
BY Copied DEF Settled, Screens

\* A write to the signups: the clock of changes moves on.
LEMMA Changed ==
    ASSUME DashboardTypeOK, NEW g \in Guests, NEW signup \in Signups, Change(g, signup)
    PROVE  rows' \in [Guests -> Signups] /\ now' \in Nat /\ now' >= now
BY DashboardAssumption DEF DashboardTypeOK, Change

\* The API answers: the page waits on, or there is nobody to hear.
LEMMA TellStep ==
    ASSUME DashboardTypeOK, NEW c \in Clicks, click[c] # Free, NEW answer \in {"ok", "refused"}, Tell(c, answer)
    PROVE  /\ click' \in [Clicks -> Decisions \cup {Free}]
           /\ \A p \in Pages : Awaiting(p)' = Awaiting(p)
<1>1. PICK d : d = click[c]
  OBVIOUS
<1>2. d \in Decisions /\ click \in [Clicks -> Decisions \cup {Free}]
  BY <1>1 DEF DashboardTypeOK
<1>3. PICK x : x = (IF d.unheard THEN Free ELSE [d EXCEPT !.pc = answer])
  OBVIOUS
<1>4. click' = [click EXCEPT ![c] = x]
  BY <1>1, <1>3 DEF Tell
<1>5. x \in Decisions \cup {Free}
  BY <1>2, <1>3 DEF Decisions
<1>6. ASSUME NEW p \in Pages
      PROVE  (x # Free /\ x.at = p /\ ~ x.unheard)
               <=> (click[c] # Free /\ click[c].at = p /\ ~ click[c].unheard)
  <2>1. CASE d.unheard
    BY <1>1, <1>3, <2>1
  <2>2. CASE ~ d.unheard
    <3>1. x \in Decisions /\ x.at = d.at /\ x.unheard = d.unheard
      BY <1>2, <1>3, <2>2 DEF Decisions
    <3>2. \A y \in Decisions : y # Free
      <4>1. \A y \in Decisions : y.pc # Free.pc
        BY DEF Decisions, Free
      <4> QED BY <4>1
    <3> QED BY <1>1, <1>2, <3>1, <3>2
  <2> QED BY <2>1, <2>2
<1>7. \A p \in Pages : Awaiting(p)' = Awaiting(p)
  BY <1>4, <1>6, WaitingKept
<1> QED BY <1>2, <1>4, <1>5, <1>7

LEMMA DashboardInitHolds == DashboardInit => DashboardInv
<1> SUFFICES ASSUME DashboardInit PROVE DashboardInv
  OBVIOUS
<1> USE DashboardAssumption
<1>1. Empty \in [Guests -> Signups]
  BY DEF Empty, Signups, Statuses
<1>2. Blank \in Copies /\ ~ Blank.guess /\ Blank.asOf = 0
  BY <1>1 DEF Blank, Copies
<1>3. DashboardTypeOK
  BY <1>1, <1>2 DEF DashboardInit, DashboardTypeOK, Screens
<1> QED BY <1>2, <1>3 DEF DashboardInit, DashboardInv, Fits, Fresh

\* Every step keeps the invariant.
LEMMA DashboardStepKeeps ==
    ASSUME DashboardInv, [DashboardNext]_dashboard
    PROVE  DashboardInv'
<1> USE DashboardAssumption
<1>1. /\ DashboardTypeOK /\ \A p \in Pages : Fits(p)
      /\ rows \in [Guests -> Signups] /\ now \in Nat
      /\ page \in [Pages -> Screens] /\ click \in [Clicks -> Decisions \cup {Free}]
      /\ losses \in 0 .. MaxLosses
  BY DEF DashboardInv, DashboardTypeOK
\* the API's steps leave the pages and what they wait for alone
<1>2. ASSUME rows' \in [Guests -> Signups], now' \in Nat, now' >= now,
             UNCHANGED <<page, losses>>, click' \in [Clicks -> Decisions \cup {Free}],
             \A p \in Pages : Awaiting(p)' = Awaiting(p)
      PROVE  DashboardInv'
  <2>1. \A p \in Pages : Fits(p)'
    BY <1>1, <1>2, OthersKept
  <2> QED BY <1>1, <1>2, <2>1 DEF DashboardInv, DashboardTypeOK
<1>3. ASSUME NEW g \in Guests, SignUp(g) \/ Elsewhere(g) PROVE DashboardInv'
  <2>1. \E signup \in Signups : Change(g, signup)
    BY <1>1, <1>3 DEF SignUp, Elsewhere, Signups, Statuses
  <2>2. UNCHANGED <<page, click, losses>>
    BY <1>3 DEF SignUp, Elsewhere
  <2>3. \A p \in Pages : Awaiting(p)' = Awaiting(p)
    BY <2>2 DEF Awaiting
  <2> QED BY <1>1, <1>2, <2>1, <2>2, <2>3, Changed
<1>4. ASSUME NEW c \in Clicks, Consider(c) PROVE DashboardInv'
  <2>1. click[c] # Free /\ UNCHANGED <<rows, now, page, losses>>
    BY <1>4 DEF Consider, db
  <2>2. CASE Tell(c, "ok") \/ Tell(c, "refused")
    BY <1>1, <1>2, <2>1, <2>2, TellStep
  <2>3. CASE click' = [click EXCEPT ![c].pc = "locking"]
    <3>1. PICK x : x = [click[c] EXCEPT !.pc = "locking"]
      OBVIOUS
    <3>2. click[c] \in Decisions
      BY <1>1, <2>1
    <3>3. x \in Decisions /\ x.at = click[c].at /\ x.unheard = click[c].unheard /\ x.pc = "locking"
      BY <3>1, <3>2 DEF Decisions
    <3>4. x # Free
      BY <3>3 DEF Free
    <3>5. click' = [click EXCEPT ![c] = x]
      BY <2>3, <3>1
    <3>6. \A p \in Pages : Awaiting(p)' = Awaiting(p)
      BY <1>1, <2>1, <3>3, <3>4, <3>5, WaitingKept
    <3> QED BY <1>1, <1>2, <2>1, <3>3, <3>5, <3>6
  <2> QED BY <1>4, <2>2, <2>3 DEF Consider
<1>5. ASSUME NEW c \in Clicks, Commit(c) PROVE DashboardInv'
  <2>1. click[c] # Free /\ UNCHANGED <<page, losses>> /\ (Tell(c, "ok") \/ Tell(c, "refused"))
    BY <1>5 DEF Commit
  <2>2. click[c] \in Decisions
    BY <1>1, <2>1
  <2>3. rows' \in [Guests -> Signups] /\ now' \in Nat /\ now' >= now
    <3>1. CASE UNCHANGED db
      BY <1>1, <3>1 DEF db
    <3>2. CASE Change(click[c].guest, [rows[click[c].guest] EXCEPT !.status = click[c].to])
      <4>1. PICK g, to, signup : g = click[c].guest /\ to = click[c].to /\ signup = [rows[g] EXCEPT !.status = to]
        OBVIOUS
      <4>2. g \in Guests /\ to \in Statuses
        BY <2>2, <4>1 DEF Decisions, Statuses
      <4>3. signup \in Signups
        BY <1>1, <4>1, <4>2 DEF Signups
      <4>4. Change(g, signup)
        BY <3>2, <4>1
      <4> QED BY <1>1, <4>2, <4>3, <4>4, Changed
    <3> QED BY <1>5, <3>1, <3>2 DEF Commit
  <2> QED BY <1>1, <1>2, <2>1, <2>3, TellStep
\* a decision of a page ends: a fetch is due
<1>6. ASSUME NEW c \in Clicks, click[c] \in Decisions, NEW data \in Copies,
             page' = [page EXCEPT ![click[c].at] = Settled(@, data)], UNCHANGED <<rows, now>>,
             losses' \in 0 .. MaxLosses, NEW x \in Decisions \cup {Free},
             click' = [click EXCEPT ![c] = x], x # Free => x.unheard
      PROVE  DashboardInv'
  <2>1. PICK p, s : p = click[c].at /\ s = Settled(page[p], data)
    OBVIOUS
  <2>2. p \in Pages
    BY <1>6, <2>1 DEF Decisions
  <2>3. s \in Screens /\ s.fetch = "sent" /\ s.settled = now
    BY <1>1, <1>6, <2>1, <2>2, SettledFields
  <2>4. page' = [page EXCEPT ![p] = s]
    BY <1>6, <2>1
  <2>5. page' \in [Pages -> Screens] /\ page'[p] = s
    BY <1>1, <2>2, <2>3, <2>4
  <2>6. DashboardTypeOK'
    BY <1>1, <1>6, <2>5 DEF DashboardTypeOK
  <2>7. ASSUME NEW q \in Pages PROVE Fits(q)'
    <3>1. CASE q = p
      BY <1>1, <1>6, <2>3, <2>5, <3>1 DEF Fits, AtRest
    <3>2. CASE q # p
      <4>1. page'[q] = page[q]
        BY <1>1, <2>4, <3>2
      <4>2. Awaiting(q)' = Awaiting(q)
        BY <1>1, <1>6, <2>1, <3>2, WaitingKept
      <4> QED BY <1>1, <1>6, <4>1, <4>2, OthersKept
    <3> QED BY <3>1, <3>2
  <2> QED BY <2>6, <2>7 DEF DashboardInv
<1>7. ASSUME NEW c \in Clicks, Answered(c) PROVE DashboardInv'
  <2>1. click[c] \in Decisions
    BY <1>1, <1>7 DEF Answered
  <2>2. PICK data : data = (IF click[c].pc = "ok" THEN page[click[c].at].data ELSE click[c].prev)
    OBVIOUS
  <2>3. data \in Copies
    BY <1>1, <2>1, <2>2 DEF Decisions, Screens
  <2>4. /\ page' = [page EXCEPT ![click[c].at] = Settled(@, data)]
        /\ click' = [click EXCEPT ![c] = Free] /\ UNCHANGED <<rows, now, losses>>
    BY <1>7, <2>2 DEF Answered, db
  <2> QED BY <1>1, <1>6, <2>1, <2>3, <2>4
<1>8. ASSUME NEW c \in Clicks, Unheard(c) PROVE DashboardInv'
  <2>1. click[c] \in Decisions /\ losses' \in 0 .. MaxLosses
    BY <1>1, <1>8 DEF Unheard
  <2>2. click[c].prev \in Copies
    BY <2>1 DEF Decisions
  <2>3. PICK x : x = (IF click[c].pc \in {"ok", "refused"} THEN Free ELSE [click[c] EXCEPT !.unheard = TRUE])
    OBVIOUS
  <2>4. x \in Decisions \cup {Free} /\ (x # Free => x.unheard)
    BY <2>1, <2>3 DEF Decisions
  <2>5. /\ page' = [page EXCEPT ![click[c].at] = Settled(@, click[c].prev)]
        /\ click' = [click EXCEPT ![c] = x] /\ UNCHANGED <<rows, now>>
    BY <1>8, <2>3 DEF Unheard, db
  <2> QED BY <1>6, <2>1, <2>2, <2>4, <2>5
<1>9. ASSUME NEW c \in Clicks, NeverSent(c) PROVE DashboardInv'
  <2>1. click[c].unheard /\ click' = [click EXCEPT ![c] = Free] /\ UNCHANGED <<rows, now, page, losses>>
    BY <1>9 DEF NeverSent, db
  <2>2. click' \in [Clicks -> Decisions \cup {Free}]
    BY <1>1, <2>1
  <2>3. \A p \in Pages : Awaiting(p)' = Awaiting(p)
    BY <1>1, <2>1, WaitingKept
  <2> QED BY <1>1, <1>2, <2>1, <2>2, <2>3
\* a page changes by itself
<1>10. ASSUME NEW p \in Pages, NEW s \in Screens, page' = [page EXCEPT ![p] = s],
              UNCHANGED <<rows, now>>, losses' \in 0 .. MaxLosses,
              click' \in [Clicks -> Decisions \cup {Free}],
              \A q \in Pages : q # p => Awaiting(q)' = Awaiting(q),
              s.settled = page[p].settled,
              s.fetch = "answered" => Fresh(s.answer, s),
              s.fetch # "none" \/ s.failed \/ Awaiting(p)' # {} \/ Fresh(s.data, s)
       PROVE  DashboardInv'
  <2>1. page' \in [Pages -> Screens] /\ page'[p] = s /\ \A q \in Pages : q # p => page'[q] = page[q]
    BY <1>1, <1>10
  <2>2. Fits(p)'
    BY <1>1, <1>10, <2>1 DEF Fits, AtRest, Fresh
  <2>3. \A q \in Pages : q # p => Fits(q)'
    BY <1>1, <1>10, <2>1, OthersKept
  <2> QED BY <1>1, <1>10, <2>1, <2>2, <2>3 DEF DashboardInv, DashboardTypeOK
<1>11. ASSUME NEW p \in Pages, NEW c \in Clicks, NEW g \in Guests, ClickDecision(p, c, g) PROVE DashboardInv'
  <2>1. PICK to \in {"approved", "declined"} :
          /\ click' = [click EXCEPT ![c] =
                [pc |-> "sent", unheard |-> FALSE, at |-> p, guest |-> g,
                 id |-> page[p].data.rows[g].id, to |-> to, prev |-> page[p].data]]
          /\ page' = [page EXCEPT ![p].fetch = "none", ![p].answer = Blank,
                                  ![p].data = Patched(page[p].data, g, to)]
    BY <1>11 DEF ClickDecision
  <2>2. PICK old : old = page[p].data
    OBVIOUS
  <2>3. old \in Copies /\ old.rows[g].id \in Nat /\ old.rows \in [Guests -> Signups]
    BY <1>1, <2>2 DEF Screens, Copies, Signups
  <2>4. PICK x : x = [pc |-> "sent", unheard |-> FALSE, at |-> p, guest |-> g,
                      id |-> old.rows[g].id, to |-> to, prev |-> old]
    OBVIOUS
  <2>5. x \in Decisions /\ x.pc = "sent" /\ x.at = p /\ ~ x.unheard
    BY <2>3, <2>4 DEF Decisions
  <2>6. x # Free
    BY <2>5 DEF Free
  <2>7. PICK data : data = Patched(old, g, to)
    OBVIOUS
  <2>8. data \in Copies
    <3>1. PICK rs : rs = [old.rows EXCEPT ![g].status = to]
      OBVIOUS
    <3>2. rs \in [Guests -> Signups]
      BY <2>3, <3>1 DEF Signups, Statuses
    <3>3. data = [old EXCEPT !.rows = rs, !.guess = TRUE]
      BY <2>3, <2>7, <3>1 DEF Patched, Copies
    <3> QED BY <2>3, <3>2, <3>3 DEF Copies
  <2>9. PICK s : s = [page[p] EXCEPT !.fetch = "none", !.answer = Blank, !.data = data]
    OBVIOUS
  <2>10. s \in Screens /\ s.settled = page[p].settled /\ s.fetch = "none"
    BY <1>1, <2>8, <2>9, Copied DEF Screens
  <2>11. page' = [page EXCEPT ![p] = s]
    BY <1>1, <2>1, <2>2, <2>7, <2>9
  <2>12. click' = [click EXCEPT ![c] = x] /\ click[c] = Free /\ UNCHANGED <<rows, now, losses>>
    BY <1>11, <2>1, <2>2, <2>4 DEF ClickDecision, db
  <2>13. click' \in [Clicks -> Decisions \cup {Free}] /\ click'[c] = x
    BY <1>1, <2>5, <2>12
  <2>14. Awaiting(p)' # {}
    BY <2>5, <2>6, <2>13 DEF Awaiting
  <2>15. \A q \in Pages : q # p => Awaiting(q)' = Awaiting(q)
    BY <1>1, <2>5, <2>12, WaitingKept
  <2> QED BY <1>1, <1>10, <2>10, <2>11, <2>12, <2>13, <2>14, <2>15
<1>12. ASSUME NEW p \in Pages, Poll(p) \/ FetchRead(p) \/ FetchArrives(p) \/ FetchFails(p) PROVE DashboardInv'
  <2>1. /\ UNCHANGED <<rows, now, click>> /\ losses' \in 0 .. MaxLosses
        /\ \A q \in Pages : Awaiting(q)' = Awaiting(q)
    BY <1>1, <1>12 DEF Poll, FetchRead, FetchArrives, FetchFails, db, Awaiting
  <2>2. page[p] \in Screens /\ Fits(p)
    BY <1>1
  <2>3. CASE Poll(p)
    <3>1. PICK s : s = [page[p] EXCEPT !.fetch = "sent"]
      OBVIOUS
    <3>2. s \in Screens /\ s.settled = page[p].settled /\ s.fetch = "sent"
      BY <2>2, <3>1 DEF Screens
    <3>3. page' = [page EXCEPT ![p] = s]
      BY <2>3, <3>1 DEF Poll
    <3> QED BY <1>1, <1>10, <2>1, <3>2, <3>3
  <2>4. CASE FetchRead(p)
    <3>1. PICK s : s = [page[p] EXCEPT !.fetch = "answered", !.answer = Copy]
      OBVIOUS
    <3>2. s \in Screens /\ s.settled = page[p].settled /\ s.fetch = "answered" /\ s.answer = Copy
      BY <1>1, <2>2, <3>1, Copied DEF Screens
    <3>3. page' = [page EXCEPT ![p] = s]
      BY <1>1, <2>4, <3>1 DEF FetchRead
    <3>4. Fresh(s.answer, s)
      BY <1>1, <2>2, <3>2, Copied DEF Fresh, Fits
    <3> QED BY <1>1, <1>10, <2>1, <3>2, <3>3, <3>4
  <2>5. CASE FetchArrives(p)
    <3>1. PICK s : s = [page[p] EXCEPT !.fetch = "none", !.answer = Blank, !.failed = FALSE, !.data = page[p].answer]
      OBVIOUS
    <3>2. s \in Screens /\ s.settled = page[p].settled /\ s.fetch = "none" /\ s.data = page[p].answer
      BY <1>1, <2>2, <3>1, Copied DEF Screens
    <3>3. page' = [page EXCEPT ![p] = s]
      BY <1>1, <2>5, <3>1 DEF FetchArrives
    <3>4. Fresh(s.data, s)
      BY <2>2, <2>5, <3>2 DEF FetchArrives, Fresh, Fits
    <3> QED BY <1>1, <1>10, <2>1, <3>2, <3>3, <3>4
  <2>6. CASE FetchFails(p)
    <3>1. PICK s : s = [page[p] EXCEPT !.fetch = "none", !.answer = Blank, !.failed = TRUE]
      OBVIOUS
    <3>2. s \in Screens /\ s.settled = page[p].settled /\ s.fetch = "none" /\ s.failed
      BY <1>1, <2>2, <3>1, Copied DEF Screens
    <3>3. page' = [page EXCEPT ![p] = s]
      BY <1>1, <2>6, <3>1 DEF FetchFails
    <3> QED BY <1>1, <1>10, <2>1, <3>2, <3>3
  <2> QED BY <1>12, <2>3, <2>4, <2>5, <2>6
<1>13. CASE UNCHANGED dashboard
  <2>1. UNCHANGED <<rows, now, page, click, losses>> /\ \A p \in Pages : Awaiting(p)' = Awaiting(p)
    BY <1>13 DEF dashboard, Awaiting
  <2> QED BY <1>1, <1>2, <2>1
<1> QED BY <1>3, <1>4, <1>5, <1>7, <1>8, <1>9, <1>11, <1>12, <1>13 DEF DashboardNext, Decide, Fetch

\* A page at rest shows what the API had no earlier than the end of the page's own
\* last decision, however the decisions of approve and decline, their rollbacks and
\* the 30-second fetches overlap.
THEOREM DecisionsAreRead == DashboardSpec => []ReadsOwnDecisions
<1>1. DashboardInit => DashboardInv
  BY DashboardInitHolds
<1>2. DashboardInv /\ [DashboardNext]_dashboard => DashboardInv'
  BY DashboardStepKeeps
<1>3. DashboardInv => ReadsOwnDecisions
  BY DEF DashboardInv, Fits, Fresh, ReadsOwnDecisions
<1> QED BY <1>1, <1>2, <1>3, PTL DEF DashboardSpec
=============================================================================
