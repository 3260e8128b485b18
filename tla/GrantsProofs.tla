----------------------------- MODULE GrantsProofs -----------------------------
(***************************************************************************)
(* What Grants keeps for every set of organizers, tools and requests:      *)
(* consents, removals, refreshes and the scopes of tool sessions.          *)
(***************************************************************************)
EXTENDS Grants, TLAPS

\* What a request in flight knows still holds.
Fits(r) ==
    /\ r.pc \in Pages \cup Asking \cup Calling \cup {"cut"} => r.email \in Emails
    /\ r.pc \in {"page", "consent", "rotate", "reply"} \cup Calling => r.client \in Clients
    /\ r.pc = "consent" => r.scope \in Scopes
    /\ r.pc \in {"spend", "mint"} => r.row \in DOMAIN codes
    /\ r.pc = "mint" =>
         codes[r.row].consumed /\ \A i \in DOMAIN tokens : tokens[i].code # r.row
    /\ r.pc \in {"rotate", "lookup"} => r.row \in DOMAIN tokens
    /\ r.pc = "rotate" => tokens[r.row].client = r.client
    /\ r.pc = "reply" => r.secret \in 1 .. minted
    /\ r.pc = "lookup" => scope[r.email] \in r.seen \cup {NoScope}
    /\ r.pc = "body" => r.scope \in r.seen
    /\ r.pc = "tool" /\ r.alone => session[r.client] \in r.seen

\* A code is minted from by one request, and once.
Minting == \A w, v \in Workers : At(w, "mint") /\ At(v, "mint") /\ req[w].row = req[v].row => w = v
Once ==
    /\ \A i \in DOMAIN tokens : tokens[i].code \in DOMAIN codes /\ codes[tokens[i].code].consumed
    /\ \A i, j \in DOMAIN tokens : tokens[i].code = tokens[j].code => i = j

\* A call that nothing overlapped is the only one of its client.
Alone ==
    \A w, v \in Workers :
        /\ req[w].pc \in Calling /\ req[w].alone
        /\ req[v].pc \in Calling /\ req[v].client = req[w].client
        => v = w

Inv == /\ TypeOK /\ (\A w \in Workers : Fits(req[w]))
       /\ Minting /\ Once /\ Alone
       /\ RemovalKillsTokens /\ ClientKeepsUp

\* A table whose rows change in place stays a table.
LEMMA InPlace ==
    ASSUME NEW S, NEW s \in Seq(S), NEW t, DOMAIN t = DOMAIN s,
           t = [i \in DOMAIN t |-> t[i]], \A i \in DOMAIN s : t[i] \in S
    PROVE  t \in Seq(S)
<1>1. DOMAIN s = 1 .. Len(s) /\ Len(s) \in Nat
  OBVIOUS
<1>2. t \in [1 .. Len(s) -> S]
  BY <1>1
<1> QED BY <1>1, <1>2

\* One more row.
LEMMA OneMore ==
    ASSUME NEW S, NEW s \in Seq(S), NEW x \in S, NEW t, t = Append(s, x)
    PROVE  /\ t \in Seq(S) /\ DOMAIN t = DOMAIN s \cup {Len(s) + 1} /\ Len(s) + 1 \notin DOMAIN s
           /\ t[Len(s) + 1] = x /\ \A i \in DOMAIN s : t[i] = s[i]
OBVIOUS

LEMMA Types ==
    ASSUME TypeOK
    PROVE  /\ \A k \in DOMAIN codes : codes[k] \in Codes
           /\ \A i \in DOMAIN tokens : tokens[i] \in Tokens
           /\ \A w \in Workers : req[w] \in Requests
           /\ req \in [Workers -> Requests] /\ codes \in Seq(Codes) /\ tokens \in Seq(Tokens)
BY DEF TypeOK

LEMMA IdleFits == Idle \in Requests /\ Fits(Idle) /\ Idle.pc = "idle"
<1>1. Idle \in Requests /\ Idle.pc = "idle"
  BY DEF Idle, Requests, Steps, Pages, Asking, Exchanging, Calling
<1> QED BY <1>1 DEF Fits, Pages, Asking, Calling

\* What a request knows stays true when tables only grow, consents stay spent, and
\* neither the right it looks up nor the session it runs in changes under it.
LEMMA FitsKept ==
    ASSUME NEW r \in Requests, Fits(r), minted \in Nat, minted' \in Nat, minted' >= minted,
           DOMAIN codes \subseteq DOMAIN codes',
           \A k \in DOMAIN codes : codes[k].consumed => codes'[k].consumed,
           DOMAIN tokens \subseteq DOMAIN tokens',
           \A i \in DOMAIN tokens : tokens'[i].client = tokens[i].client,
           r.pc = "mint" => \A i \in DOMAIN tokens' : tokens'[i].code # r.row,
           r.pc = "lookup" => scope'[r.email] \in r.seen \cup {NoScope},
           r.pc = "tool" /\ r.alone => session'[r.client] \in r.seen
    PROVE  Fits(r)'
<1>1. r.pc = "mint" => codes'[r.row].consumed
  BY DEF Fits
<1>2. r.pc \in {"spend", "mint"} => r.row \in DOMAIN codes'
  BY DEF Fits
<1>3. r.pc \in {"rotate", "lookup"} => r.row \in DOMAIN tokens'
  BY DEF Fits
<1>4. r.pc = "rotate" => tokens'[r.row].client = r.client
  BY DEF Fits
<1>5. r.pc = "reply" => r.secret \in 1 .. minted'
  BY DEF Fits
<1> QED BY <1>1, <1>2, <1>3, <1>4, <1>5 DEF Fits

\* The row facts that TypeOK states of requests follow from what they know.
LEMMA RowsFit ==
    ASSUME NEW w \in Workers, Fits(req[w])
    PROVE  /\ req[w].pc \in {"spend", "mint"} => req[w].row \in DOMAIN codes
           /\ req[w].pc \in {"rotate", "lookup"} => req[w].row \in DOMAIN tokens
BY DEF Fits

LEMMA InitHolds == Init => Inv
<1> SUFFICES ASSUME Init PROVE Inv
  OBVIOUS
<1>1. /\ req = [w \in Workers |-> Idle] /\ codes = <<>> /\ tokens = <<>> /\ minted = 0
      /\ known = {} /\ cutShort = FALSE
      /\ scope = [e \in Emails |-> NoScope] /\ removals = [e \in Emails |-> 0]
      /\ held = [c \in Clients |-> {}] /\ session = [c \in Clients |-> NoScope]
  BY DEF Init
<1>2. \A w \in Workers : req[w] = Idle
  BY <1>1
<1>3. DOMAIN tokens = {}
  BY <1>1
<1>4. TypeOK
  <2>1. codes \in Seq(Codes) /\ tokens \in Seq(Tokens)
    BY <1>1
  <2>2. /\ scope \in [Emails -> Scopes \cup {NoScope}] /\ removals \in [Emails -> Nat]
        /\ session \in [Clients -> Scopes \cup {NoScope}] /\ known \subseteq Clients
    BY <1>1
  <2>3. held \in [Clients -> SUBSET (1 .. minted)] /\ minted \in Nat /\ cutShort \in BOOLEAN
    BY <1>1
  <2>4. req \in [Workers -> Requests]
    BY <1>1, IdleFits
  <2> QED BY <1>2, <2>1, <2>2, <2>3, <2>4, IdleFits DEF TypeOK
<1>5. Minting /\ Once /\ Alone
  BY <1>2, <1>3, IdleFits DEF Minting, Once, Alone, At, Calling
<1>6. RemovalKillsTokens /\ ClientKeepsUp
  BY <1>3 DEF RemovalKillsTokens, ClientKeepsUp
<1> QED BY <1>2, <1>4, <1>5, <1>6, IdleFits DEF Inv

(***************************************************************************)
(* Steps of one request that touch nothing else.                           *)
(***************************************************************************)
LEMMA RequestStep ==
    ASSUME Inv, UNCHANGED <<tables, minted, held, session, cutShort>>,
           NEW w \in Workers, NEW r \in Requests, Become(w, r), Fits(r),
           r.pc # "mint", req[w].pc \notin {"cut", "reply"},
           r.pc \in Calling => req[w].pc \in Calling /\ r.client = req[w].client
                               /\ (r.alone => req[w].alone)
    PROVE  Inv'
<1>1. /\ req' \in [Workers -> Requests] /\ req'[w] = r /\ \A v \in Workers : v # w => req'[v] = req[v]
  BY DEF Inv, TypeOK, Become
<1>2. UNCHANGED <<scope, removals, known, codes, tokens, minted, held, session, cutShort>>
  BY DEF tables
<1>3. ASSUME NEW v \in Workers PROVE Fits(req[v])'
  <2>1. CASE v = w
    BY <1>1, <1>2, <2>1 DEF Fits
  <2>2. CASE v # w
    BY <1>1, <1>2, <2>2 DEF Inv, Fits
  <2> QED BY <2>1, <2>2
<1>4. TypeOK'
  <2>1. \A v \in Workers : /\ req'[v].pc \in {"spend", "mint"} => req'[v].row \in DOMAIN codes'
                           /\ req'[v].pc \in {"rotate", "lookup"} => req'[v].row \in DOMAIN tokens'
    BY <1>3 DEF Fits
  <2> QED BY <1>1, <1>2, <2>1 DEF Inv, TypeOK
<1>5. Minting' /\ Once'
  BY <1>1, <1>2 DEF Inv, Minting, Once, At
<1>6. Alone'
  BY <1>1 DEF Inv, Alone
<1>7. \A v \in Workers : req[v].pc \in {"cut", "reply"} => req'[v] = req[v]
  BY <1>1
<1>8. RemovalKillsTokens' /\ ClientKeepsUp'
  BY <1>2, <1>7 DEF Inv, RemovalKillsTokens, ClientKeepsUp, At
<1> QED BY <1>3, <1>4, <1>5, <1>6, <1>8 DEF Inv

LEMMA Finishes ==
    ASSUME Inv, UNCHANGED <<tables, minted, held, session, cutShort>>,
           NEW w \in Workers, Finish(w), req[w].pc \notin {"cut", "reply"}
    PROVE  Inv'
BY RequestStep, IdleFits DEF Finish, Calling

LEMMA AskingSteps ==
    ASSUME Inv, NEW w \in Workers,
           \/ \E e \in Emails : Overview(w, e)
           \/ RevokeRead(w)
           \/ \E e \in Emails, c \in Clients : AskConsent(w, e, c)
           \/ \E approve \in BOOLEAN : Decide(w, approve)
    PROVE  Inv'
<1>1. TypeOK /\ req[w] \in Requests /\ Fits(req[w])
  BY Types DEF Inv
<1>2. ASSUME NEW e \in Emails, Overview(w, e) PROVE Inv'
  <2>1. PICK n, r : n = removals[e] /\ r = [Idle EXCEPT !.pc = "portal", !.email = e, !.row = n]
    OBVIOUS
  <2>2. n \in Nat
    BY <1>1, <2>1 DEF TypeOK
  <2>3. r \in Requests /\ r.pc = "portal" /\ r.email = e
    BY <2>1, <2>2, IdleFits DEF Requests, Steps, Pages
  <2>4. Fits(r)
    BY <2>3 DEF Fits, Calling
  <2>5. Become(w, r) /\ req[w].pc = "idle" /\ UNCHANGED <<tables, minted, held, session, cutShort>>
    BY <1>2, <2>1 DEF Overview, At
  <2> QED BY <2>3, <2>4, <2>5, RequestStep DEF Calling
<1>3. ASSUME RevokeRead(w) PROVE Inv'
  <2>1. req[w].pc = "portal" /\ UNCHANGED <<tables, minted, held, session, cutShort>>
    BY <1>3 DEF RevokeRead, At
  <2>2. CASE Finish(w)
    BY <2>1, <2>2, Finishes
  <2>3. CASE Become(w, [req[w] EXCEPT !.pc = "remove"])
    <3>1. PICK r : r = [req[w] EXCEPT !.pc = "remove"]
      OBVIOUS
    <3>2. r \in Requests /\ r.pc = "remove" /\ r.email = req[w].email
      BY <1>1, <3>1 DEF Requests, Steps, Asking
    <3>3. Fits(r)
      BY <1>1, <2>1, <3>2 DEF Fits, Calling, Pages
    <3> QED BY <2>1, <2>3, <3>1, <3>2, <3>3, RequestStep DEF Calling
  <2> QED BY <1>3, <2>2, <2>3 DEF RevokeRead
<1>4. ASSUME NEW e \in Emails, NEW c \in Clients, AskConsent(w, e, c) PROVE Inv'
  <2>1. PICK r : r = [Idle EXCEPT !.pc = "page", !.email = e, !.client = c]
    OBVIOUS
  <2>2. r \in Requests /\ r.pc = "page" /\ r.email = e /\ r.client = c
    BY <2>1, IdleFits DEF Requests, Steps, Pages
  <2>3. Fits(r)
    BY <2>2 DEF Fits, Calling
  <2>4. Become(w, r) /\ req[w].pc = "idle" /\ UNCHANGED <<tables, minted, held, session, cutShort>>
    BY <1>4, <2>1 DEF AskConsent, At
  <2> QED BY <2>2, <2>3, <2>4, RequestStep DEF Calling
<1>5. ASSUME NEW approve \in BOOLEAN, Decide(w, approve) PROVE Inv'
  <2>1. req[w].pc = "page" /\ UNCHANGED <<tables, minted, held, session, cutShort>>
    BY <1>5 DEF Decide, At
  <2>2. req[w].email \in Emails /\ req[w].client \in Clients
    BY <1>1, <2>1 DEF Fits, Pages
  <2>3. CASE Finish(w)
    BY <2>1, <2>3, Finishes
  <2>4. CASE scope[req[w].email] # NoScope /\ Become(w, [req[w] EXCEPT !.pc = "consent", !.scope = scope[req[w].email]])
    <3>1. PICK s : s = scope[req[w].email]
      OBVIOUS
    <3>2. s \in Scopes
      BY <1>1, <2>2, <2>4, <3>1 DEF TypeOK
    <3>3. PICK r : r = [req[w] EXCEPT !.pc = "consent", !.scope = s]
      OBVIOUS
    <3>4. r \in Requests /\ r.pc = "consent" /\ r.scope = s /\ r.email = req[w].email /\ r.client = req[w].client
      BY <1>1, <3>2, <3>3 DEF Requests, Steps, Asking
    <3>5. Fits(r)
      BY <2>2, <3>2, <3>4 DEF Fits, Calling
    <3> QED BY <2>1, <2>4, <3>1, <3>3, <3>4, <3>5, RequestStep DEF Calling
  <2> QED BY <1>5, <2>3, <2>4 DEF Decide
<1> QED BY <1>2, <1>3, <1>4, <1>5

LEMMA ReadingSteps ==
    ASSUME Inv, NEW w \in Workers,
           \/ \E k \in DOMAIN codes : Exchange(w, k)
           \/ \E c \in Clients, i \in DOMAIN tokens : Refresh(w, c, i)
           \/ Lookup(w) \/ Tool(w)
    PROVE  Inv'
<1>1. TypeOK /\ req[w] \in Requests /\ Fits(req[w])
  BY Types DEF Inv
<1>2. DOMAIN codes \subseteq Nat /\ DOMAIN tokens \subseteq Nat
  BY <1>1, Types
<1>3. ASSUME NEW k \in DOMAIN codes, Exchange(w, k) PROVE Inv'
  <2>1. PICK r : r = [Idle EXCEPT !.pc = "spend", !.row = k]
    OBVIOUS
  <2>2. r \in Requests /\ r.pc = "spend" /\ r.row = k
    BY <1>2, <2>1, IdleFits DEF Requests, Steps, Exchanging
  <2>3. Fits(r)
    BY <2>2 DEF Fits, Calling, Pages, Asking
  <2>4. Become(w, r) /\ req[w].pc = "idle" /\ UNCHANGED <<tables, minted, held, session, cutShort>>
    BY <1>3, <2>1 DEF Exchange, At
  <2> QED BY <2>2, <2>3, <2>4, RequestStep DEF Calling
<1>4. ASSUME NEW c \in Clients, NEW i \in DOMAIN tokens, Refresh(w, c, i) PROVE Inv'
  <2>1. PICK r : r = [Idle EXCEPT !.pc = "rotate", !.client = c, !.row = i]
    OBVIOUS
  <2>2. r \in Requests /\ r.pc = "rotate" /\ r.row = i /\ r.client = c
    BY <1>2, <2>1, IdleFits DEF Requests, Steps, Exchanging
  <2>3. /\ Become(w, r) /\ req[w].pc = "idle" /\ UNCHANGED <<tables, minted, held, session, cutShort>>
        /\ tokens[i].client = c
    BY <1>4, <2>1 DEF Refresh, At
  <2>4. Fits(r)
    BY <2>2, <2>3 DEF Fits, Calling, Pages, Asking
  <2> QED BY <2>2, <2>3, <2>4, RequestStep DEF Calling
<1>5. ASSUME Lookup(w) PROVE Inv'
  <2>1. req[w].pc = "lookup" /\ UNCHANGED <<tables, minted, held, session, cutShort>>
    BY <1>5 DEF Lookup, At
  <2>2. req[w].email \in Emails /\ req[w].client \in Clients /\ scope[req[w].email] \in req[w].seen \cup {NoScope}
    BY <1>1, <2>1 DEF Fits, Calling
  <2>3. CASE Finish(w)
    BY <2>1, <2>3, Finishes
  <2>4. CASE scope[req[w].email] # NoScope /\ Become(w, [req[w] EXCEPT !.pc = "body", !.scope = LiveScope(w)])
    <3>1. PICK s : s = scope[req[w].email]
      OBVIOUS
    <3>2. s \in Scopes /\ s \in req[w].seen
      BY <1>1, <2>2, <2>4, <3>1 DEF TypeOK
    <3>3. PICK r : r = [req[w] EXCEPT !.pc = "body", !.scope = s]
      OBVIOUS
    <3>4. /\ r \in Requests /\ r.pc = "body" /\ r.scope = s /\ r.email = req[w].email /\ r.client = req[w].client
          /\ r.seen = req[w].seen /\ r.alone = req[w].alone
      BY <1>1, <3>2, <3>3 DEF Requests, Steps, Calling
    <3>5. Fits(r)
      BY <2>2, <3>2, <3>4 DEF Fits
    <3> QED BY <2>1, <2>4, <3>1, <3>3, <3>4, <3>5, RequestStep DEF Calling, LiveScope
  <2> QED BY <1>5, <2>3, <2>4 DEF Lookup
<1>6. ASSUME Tool(w) PROVE Inv'
  BY <1>6, Finishes DEF Tool, At
<1> QED BY <1>3, <1>4, <1>5, <1>6

(***************************************************************************)
(* Organizers come and go.                                                 *)
(***************************************************************************)
LEMMA InviteStep ==
    ASSUME Inv, NEW e \in Emails, NEW s \in Scopes, Invite(e, s)
    PROVE  Inv'
<1>1. /\ TypeOK /\ req \in [Workers -> Requests] /\ (\A v \in Workers : req[v] \in Requests /\ Fits(req[v]))
      /\ scope \in [Emails -> Scopes \cup {NoScope}]
  BY Types DEF Inv, TypeOK
<1>2. /\ scope' = [scope EXCEPT ![e] = s]
      /\ UNCHANGED <<known, removals, codes, tokens, minted, held, session, cutShort>>
      /\ req' = [w \in Workers |-> IF req[w].pc = "lookup" /\ req[w].email = e
                                   THEN [req[w] EXCEPT !.seen = @ \cup {s}] ELSE req[w]]
  BY DEF Invite
<1>3. ASSUME NEW v \in Workers
      PROVE  /\ req'[v] \in Requests /\ req'[v].pc = req[v].pc /\ req'[v].email = req[v].email
             /\ req'[v].client = req[v].client /\ req'[v].row = req[v].row /\ req'[v].secret = req[v].secret
             /\ req'[v].scope = req[v].scope /\ req'[v].alone = req[v].alone
             /\ req[v].seen \subseteq req'[v].seen
             /\ req[v].pc = "lookup" /\ req[v].email = e => s \in req'[v].seen
  <2>1. PICK x : x = [req[v] EXCEPT !.seen = req[v].seen \cup {s}]
    OBVIOUS
  <2>2. /\ x \in Requests /\ x.pc = req[v].pc /\ x.email = req[v].email
        /\ x.client = req[v].client /\ x.row = req[v].row /\ x.secret = req[v].secret
        /\ x.scope = req[v].scope /\ x.alone = req[v].alone /\ x.seen = req[v].seen \cup {s}
    BY <1>1, <2>1 DEF Requests
  <2>3. req'[v] = (IF req[v].pc = "lookup" /\ req[v].email = e THEN x ELSE req[v])
    BY <1>2, <2>1
  <2> QED BY <1>1, <2>2, <2>3
<1>4. ASSUME NEW v \in Workers PROVE Fits(req[v])'
  <2>1. req'[v].pc = "lookup" => scope'[req'[v].email] \in req'[v].seen \cup {NoScope}
    BY <1>1, <1>2, <1>3 DEF Fits, Calling
  <2> QED BY <1>1, <1>2, <1>3, <2>1 DEF Fits
<1>5. TypeOK'
  <2>1. req' \in [Workers -> Requests] /\ scope' \in [Emails -> Scopes \cup {NoScope}]
    BY <1>1, <1>2, <1>3
  <2> QED BY <1>1, <1>2, <1>4, <2>1, RowsFit DEF TypeOK, Fits
<1>6. Minting' /\ Once' /\ Alone'
  <2>1. Minting' /\ Once'
    BY <1>2, <1>3 DEF Inv, Minting, Once, At
  <2>2. Alone'
    BY <1>3 DEF Inv, Alone
  <2> QED BY <2>1, <2>2
<1>7. RemovalKillsTokens' /\ ClientKeepsUp'
  BY <1>2, <1>3 DEF Inv, RemovalKillsTokens, ClientKeepsUp, At
<1> QED BY <1>4, <1>5, <1>6, <1>7 DEF Inv

LEMMA RevokeStep ==
    ASSUME Inv, NEW w \in Workers, RevokeAdmin(w)
    PROVE  Inv'
<1>1. /\ TypeOK /\ req \in [Workers -> Requests] /\ (\A v \in Workers : req[v] \in Requests /\ Fits(req[v]))
      /\ scope \in [Emails -> Scopes \cup {NoScope}] /\ removals \in [Emails -> Nat]
  BY Types DEF Inv, TypeOK
<1>2. PICK e, r : e = req[w].email /\ r = [Idle EXCEPT !.pc = "cut", !.email = e]
  OBVIOUS
<1>3. /\ req[w].pc = "remove" /\ Become(w, r)
      /\ UNCHANGED <<known, codes, tokens, minted, held, session, cutShort>>
      /\ \/ scope' = [scope EXCEPT ![e] = NoScope] /\ removals' = [removals EXCEPT ![e] = @ + 1]
         \/ UNCHANGED <<scope, removals>>
  BY <1>2 DEF RevokeAdmin, At
<1>4. e \in Emails
  BY <1>1, <1>2, <1>3 DEF Fits, Asking
<1>5. r \in Requests /\ r.pc = "cut" /\ r.email = e
  BY <1>2, <1>4, IdleFits DEF Requests, Steps
<1>6. /\ req' \in [Workers -> Requests] /\ req'[w] = r /\ \A v \in Workers : v # w => req'[v] = req[v]
  BY <1>1, <1>3, <1>5 DEF Become
<1>7. /\ scope' \in [Emails -> Scopes \cup {NoScope}] /\ removals' \in [Emails -> Nat]
      /\ \A f \in Emails : scope'[f] \in {scope[f], NoScope} /\ (f # e => removals'[f] = removals[f])
  BY <1>1, <1>3, <1>4
<1>8. ASSUME NEW v \in Workers PROVE Fits(req[v])'
  <2>1. CASE v = w
    BY <1>4, <1>5, <1>6, <2>1 DEF Fits, Calling
  <2>2. CASE v # w
    <3>1. req[v].pc = "lookup" => req[v].email \in Emails
      BY <1>1 DEF Fits, Calling
    <3> QED BY <1>1, <1>3, <1>6, <1>7, <2>2, <3>1 DEF Fits
  <2> QED BY <2>1, <2>2
<1>9. TypeOK'
  BY <1>1, <1>3, <1>6, <1>7, <1>8 DEF TypeOK, Fits
<1>10. Minting' /\ Once' /\ Alone'
  <2>1. Minting' /\ Once'
    BY <1>3, <1>5, <1>6 DEF Inv, Minting, Once, At
  <2>2. Alone'
    BY <1>5, <1>6 DEF Inv, Alone, Calling
  <2> QED BY <2>1, <2>2
<1>11. ClientKeepsUp'
  <2>1. \A v \in Workers : req[v].pc = "reply" => req'[v] = req[v]
    BY <1>3, <1>6
  <2> QED BY <1>3, <2>1 DEF Inv, ClientKeepsUp, At
<1>12. RemovalKillsTokens'
  <2>1. SUFFICES ASSUME NEW i \in DOMAIN tokens, tokens[i].born < removals'[tokens[i].email],
                        ~ tokens[i].revoked, ~ cutShort
                 PROVE  \E v \in Workers : At(v, "cut")' /\ req'[v].email = tokens[i].email
    BY <1>3 DEF RemovalKillsTokens
  <2>2. tokens[i].email \in Emails
    BY <1>1, Types DEF Tokens
  <2>3. CASE tokens[i].email = e
    BY <1>5, <1>6, <2>3 DEF At
  <2>4. CASE tokens[i].email # e
    <3>1. PICK v \in Workers : At(v, "cut") /\ req[v].email = tokens[i].email
      BY <1>7, <2>1, <2>2, <2>4 DEF Inv, RemovalKillsTokens
    <3> QED BY <1>3, <1>6, <3>1 DEF At
  <2> QED BY <2>3, <2>4
<1> QED BY <1>8, <1>9, <1>10, <1>11, <1>12 DEF Inv

(***************************************************************************)
(* Rows that change in place: revocation and time.                         *)
(***************************************************************************)
SameGrant(t, u) ==
    /\ t \in Tokens /\ t.email = u.email /\ t.client = u.client /\ t.secret = u.secret
    /\ t.code = u.code /\ t.born = u.born /\ (u.revoked => t.revoked)

LEMMA MarkedStep ==
    ASSUME Inv, UNCHANGED <<scope, removals, known, codes, minted, held, session, cutShort>>,
           DOMAIN tokens' = DOMAIN tokens, tokens' = [i \in DOMAIN tokens' |-> tokens'[i]],
           \A i \in DOMAIN tokens : SameGrant(tokens'[i], tokens[i]),
           \/ UNCHANGED req
           \/ \E w \in Workers :
                /\ At(w, "cut") /\ Finish(w)
                /\ \A i \in DOMAIN tokens : tokens[i].email = req[w].email => tokens'[i].revoked
    PROVE  Inv'
<1>1. /\ TypeOK /\ req \in [Workers -> Requests] /\ (\A v \in Workers : req[v] \in Requests /\ Fits(req[v]))
      /\ tokens \in Seq(Tokens)
  BY Types DEF Inv, TypeOK
<1>2. tokens' \in Seq(Tokens)
  BY <1>1, InPlace DEF SameGrant
<1>3. /\ req' \in [Workers -> Requests]
      /\ \A v \in Workers : req'[v] = req[v] \/ (req'[v] = Idle /\ req[v].pc = "cut")
  <2>1. CASE UNCHANGED req
    BY <1>1, <2>1
  <2>2. ASSUME NEW w \in Workers, At(w, "cut"), Finish(w)
        PROVE  /\ req' \in [Workers -> Requests]
               /\ \A v \in Workers : req'[v] = req[v] \/ (req'[v] = Idle /\ req[v].pc = "cut")
    BY <1>1, <2>2, IdleFits DEF Finish, Become, At
  <2> QED BY <2>1, <2>2
<1>4. ASSUME NEW v \in Workers PROVE Fits(req[v])'
  <2>1. CASE req'[v] = req[v]
    BY <1>1, <2>1 DEF Fits, SameGrant
  <2>2. CASE req'[v] = Idle
    BY <2>2, IdleFits DEF Fits, Pages, Asking, Calling
  <2> QED BY <1>3, <2>1, <2>2
<1>5. TypeOK'
  BY <1>1, <1>2, <1>3, <1>4 DEF TypeOK, Fits
<1>6. Minting' /\ Once' /\ Alone'
  <2>1. Minting'
    BY <1>3, IdleFits DEF Inv, Minting, At
  <2>2. Once'
    BY DEF Inv, Once, SameGrant
  <2>3. Alone'
    BY <1>3, IdleFits DEF Inv, Alone, Calling
  <2> QED BY <2>1, <2>2, <2>3
<1>7. ClientKeepsUp'
  <2>1. \A v \in Workers : req[v].pc = "reply" => req'[v] = req[v]
    BY <1>3
  <2> QED BY <2>1 DEF Inv, ClientKeepsUp, At, SameGrant
<1>8. RemovalKillsTokens'
  <2>1. SUFFICES ASSUME NEW i \in DOMAIN tokens, tokens[i].born < removals[tokens[i].email],
                        ~ tokens'[i].revoked, ~ cutShort
                 PROVE  \E v \in Workers : At(v, "cut")' /\ req'[v].email = tokens[i].email
    BY DEF RemovalKillsTokens, SameGrant
  <2>2. ~ tokens[i].revoked
    BY <2>1 DEF SameGrant
  <2>3. PICK v \in Workers : At(v, "cut") /\ req[v].email = tokens[i].email
    BY <2>1, <2>2 DEF Inv, RemovalKillsTokens
  <2>4. req'[v] = req[v]
    BY <1>1, <2>1, <2>3 DEF Finish, Become
  <2> QED BY <2>3, <2>4 DEF At
<1> QED BY <1>4, <1>5, <1>6, <1>7, <1>8 DEF Inv

LEMMA SameGrants ==
    ASSUME NEW t \in Tokens
    PROVE  /\ SameGrant(t, t) /\ SameGrant([t EXCEPT !.revoked = TRUE], t)
           /\ [t EXCEPT !.revoked = TRUE].revoked
           /\ SameGrant([t EXCEPT !.accessOver = TRUE], t)
           /\ SameGrant([t EXCEPT !.accessOver = TRUE, !.refreshOver = TRUE], t)
BY DEF SameGrant, Tokens

LEMMA MarkingSteps ==
    ASSUME Inv,
           \/ \E w \in Workers : Cut(w)
           \/ \E i \in DOMAIN tokens : RevokeToken(i)
    PROVE  Inv'
<1>1. /\ tokens \in Seq(Tokens) /\ \A i \in DOMAIN tokens : tokens[i] \in Tokens
  BY Types DEF Inv
<1>2. ASSUME NEW w \in Workers, Cut(w) PROVE Inv'
  <2>1. /\ At(w, "cut") /\ Finish(w) /\ UNCHANGED <<known, scope, removals, codes, minted, held, session, cutShort>>
        /\ tokens' = [i \in DOMAIN tokens |->
                       IF tokens[i].email = req[w].email THEN [tokens[i] EXCEPT !.revoked = TRUE] ELSE tokens[i]]
    BY <1>2 DEF Cut, Revoked
  <2>2. \A i \in DOMAIN tokens : /\ SameGrant(tokens'[i], tokens[i])
                                 /\ tokens[i].email = req[w].email => tokens'[i].revoked
    BY <1>1, <2>1, SameGrants
  <2> QED BY <2>1, <2>2, MarkedStep
<1>3. ASSUME NEW i \in DOMAIN tokens, RevokeToken(i) PROVE Inv'
  <2>1. PICK t : t = [tokens[i] EXCEPT !.revoked = TRUE]
    OBVIOUS
  <2>2. tokens' = [tokens EXCEPT ![i] = t] /\ UNCHANGED <<known, scope, removals, codes, minted, held, session, cutShort, req>>
    BY <1>3, <2>1 DEF RevokeToken
  <2>3. DOMAIN tokens' = DOMAIN tokens /\ tokens' = [j \in DOMAIN tokens' |-> tokens'[j]]
    BY <1>1, <2>2
  <2>4. \A j \in DOMAIN tokens : SameGrant(tokens'[j], tokens[j])
    BY <1>1, <2>1, <2>2, SameGrants
  <2> QED BY <2>2, <2>3, <2>4, MarkedStep
<1> QED BY <1>2, <1>3

(***************************************************************************)
(* Codes: they come, are spent and end.                                    *)
(***************************************************************************)
LEMMA CodesStep ==
    ASSUME Inv, UNCHANGED <<scope, removals, tokens, minted, held, session, cutShort>>,
           known' \subseteq Clients, codes' \in Seq(Codes), DOMAIN codes \subseteq DOMAIN codes',
           \A k \in DOMAIN codes : codes[k].consumed => codes'[k].consumed,
           req' \in [Workers -> Requests],
           \A v \in Workers : req'[v] = req[v] \/ (req[v].pc \in {"consent", "spend"} /\ req'[v].pc \in {"idle", "mint"}),
           \A v \in Workers : req'[v] # req[v] /\ req'[v].pc = "mint" =>
                /\ req'[v].row \in DOMAIN codes /\ ~ codes[req'[v].row].consumed /\ codes'[req'[v].row].consumed
                /\ \A u \in Workers : u # v => req'[u] = req[u]
    PROVE  Inv'
<1>1. /\ TypeOK /\ (\A v \in Workers : req[v] \in Requests /\ Fits(req[v])) /\ Once /\ Minting /\ Alone
      /\ minted \in Nat
  BY Types DEF Inv, TypeOK
<1>2. ASSUME NEW v \in Workers PROVE Fits(req[v])'
  <2>1. CASE req'[v] = req[v]
    <3>1. req[v].pc = "mint" => \A i \in DOMAIN tokens' : tokens'[i].code # req[v].row
      BY <1>1 DEF Fits
    <3>2. req[v].pc = "lookup" => scope'[req[v].email] \in req[v].seen \cup {NoScope}
      BY <1>1 DEF Fits
    <3>3. req[v].pc = "tool" /\ req[v].alone => session'[req[v].client] \in req[v].seen
      BY <1>1 DEF Fits
    <3>4. PICK r : r = req[v]
      OBVIOUS
    <3>5. Fits(r) /\ r \in Requests
      BY <1>1, <3>4
    <3>6. Fits(r)'
      BY <1>1, <3>1, <3>2, <3>3, <3>4, <3>5, FitsKept
    <3> QED BY <2>1, <3>4, <3>6
  <2>2. CASE req'[v] # req[v] /\ req'[v].pc = "idle"
    BY <2>2 DEF Fits, Pages, Asking, Calling
  <2>3. CASE req'[v] # req[v] /\ req'[v].pc = "mint"
    <3>1. req'[v].row \in DOMAIN codes' /\ codes'[req'[v].row].consumed
      BY <2>3
    <3>2. \A i \in DOMAIN tokens : tokens[i].code # req'[v].row
      BY <1>1, <2>3 DEF Once
    <3> QED BY <2>3, <3>1, <3>2 DEF Fits, Pages, Asking, Calling
  <2> QED BY <2>1, <2>2, <2>3
<1>3. TypeOK'
  BY <1>1, <1>2 DEF TypeOK, Fits
<1>4. Minting'
  <2>1. SUFFICES ASSUME NEW w \in Workers, NEW v \in Workers, req'[w].pc = "mint", req'[v].pc = "mint",
                        req'[w].row = req'[v].row
                 PROVE  w = v
    BY DEF Minting, At
  <2>2. CASE req'[w] = req[w] /\ req'[v] = req[v]
    BY <1>1, <2>1, <2>2 DEF Minting, At
  <2>3. CASE req'[w] # req[w]
    BY <1>1, <2>1, <2>3 DEF Fits
  <2>4. CASE req'[v] # req[v]
    BY <1>1, <2>1, <2>4 DEF Fits
  <2> QED BY <2>2, <2>3, <2>4
<1>5. Once'
  BY <1>1 DEF Once
<1>6. Alone'
  BY <1>1 DEF Alone, Calling
<1>7. \A v \in Workers : req[v].pc \in {"cut", "reply"} => req'[v] = req[v]
  OBVIOUS
<1>8. RemovalKillsTokens' /\ ClientKeepsUp'
  BY <1>7 DEF Inv, RemovalKillsTokens, ClientKeepsUp, At
<1> QED BY <1>2, <1>3, <1>4, <1>5, <1>6, <1>8 DEF Inv

LEMMA CodeSteps ==
    ASSUME Inv,
           \/ \E w \in Workers : Consent(w) \/ Spend(w)
           \/ \E c \in Clients : RegisterClient(c)
           \/ Expire
    PROVE  Inv'
<1>1. /\ TypeOK /\ req \in [Workers -> Requests] /\ (\A v \in Workers : req[v] \in Requests /\ Fits(req[v]))
      /\ codes \in Seq(Codes) /\ tokens \in Seq(Tokens) /\ known \subseteq Clients
      /\ (\A k \in DOMAIN codes : codes[k] \in Codes) /\ \A i \in DOMAIN tokens : tokens[i] \in Tokens
  BY Types DEF Inv, TypeOK
<1>2. ASSUME NEW w \in Workers, Consent(w) PROVE Inv'
  <2>1. PICK x : x = [email |-> req[w].email, client |-> req[w].client, scope |-> req[w].scope,
                      over |-> FALSE, consumed |-> FALSE]
    OBVIOUS
  <2>2. /\ req[w].pc = "consent" /\ Finish(w) /\ codes' = Append(codes, x)
        /\ UNCHANGED <<known, scope, removals, tokens, minted, held, session, cutShort>>
    BY <1>2, <2>1 DEF Consent, At
  <2>3. x \in Codes
    BY <1>1, <2>1, <2>2 DEF Codes, Fits, Asking
  <2>4. codes' \in Seq(Codes) /\ DOMAIN codes \subseteq DOMAIN codes' /\ \A k \in DOMAIN codes : codes'[k] = codes[k]
    BY <1>1, <2>2, <2>3, OneMore
  <2>5. req' \in [Workers -> Requests] /\ req'[w] = Idle /\ \A v \in Workers : v # w => req'[v] = req[v]
    BY <1>1, <2>2, IdleFits DEF Finish, Become
  <2>6. /\ \A k \in DOMAIN codes : codes[k].consumed => codes'[k].consumed
        /\ known' \subseteq Clients /\ codes' \in Seq(Codes) /\ DOMAIN codes \subseteq DOMAIN codes'
    BY <1>1, <2>2, <2>4
  <2>7. \A v \in Workers : req'[v] = req[v] \/ (req[v].pc = "consent" /\ req'[v].pc = "idle")
    BY <2>2, <2>5, IdleFits
  <2> QED BY <2>2, <2>5, <2>6, <2>7, CodesStep
<1>3. ASSUME NEW w \in Workers, Spend(w) PROVE Inv'
  <2>1. PICK k : k = req[w].row
    OBVIOUS
  <2>2. /\ req[w].pc = "spend" /\ k \in DOMAIN codes
        /\ UNCHANGED <<known, scope, removals, tokens, minted, held, session, cutShort>>
    BY <1>1, <1>3, <2>1 DEF Spend, At, Fits
  <2>3. CASE Finish(w) /\ UNCHANGED codes
    <3>1. req' \in [Workers -> Requests] /\ req'[w] = Idle /\ \A v \in Workers : v # w => req'[v] = req[v]
      BY <1>1, <2>3, IdleFits DEF Finish, Become
    <3>2. \A v \in Workers : req'[v] = req[v] \/ (req[v].pc = "spend" /\ req'[v].pc = "idle")
      BY <2>2, <3>1, IdleFits
    <3>3. known' \subseteq Clients /\ codes' \in Seq(Codes) /\ codes' = codes
      BY <1>1, <2>2, <2>3
    <3> QED BY <2>2, <3>1, <3>2, <3>3, CodesStep
  <2>4. CASE /\ ~ codes[k].consumed /\ codes' = [codes EXCEPT ![k].consumed = TRUE]
             /\ Become(w, [req[w] EXCEPT !.pc = "mint"])
    <3>1. PICK r, x : r = [req[w] EXCEPT !.pc = "mint"] /\ x = [codes[k] EXCEPT !.consumed = TRUE]
      OBVIOUS
    <3>2. r \in Requests /\ r.pc = "mint" /\ r.row = k
      BY <1>1, <2>1, <3>1 DEF Requests, Steps, Exchanging
    <3>3. x \in Codes /\ x.consumed
      BY <1>1, <2>2, <3>1 DEF Codes
    <3>4. codes' = [codes EXCEPT ![k] = x]
      BY <2>4, <3>1
    <3>5. codes' \in Seq(Codes) /\ DOMAIN codes' = DOMAIN codes /\ codes'[k] = x /\ \A j \in DOMAIN codes : j # k => codes'[j] = codes[j]
      BY <1>1, <2>2, <3>3, <3>4
    <3>6. req' \in [Workers -> Requests] /\ req'[w] = r /\ \A v \in Workers : v # w => req'[v] = req[v]
      BY <1>1, <2>4, <3>1, <3>2 DEF Become
    <3>7. /\ \A j \in DOMAIN codes : codes[j].consumed => codes'[j].consumed
          /\ known' \subseteq Clients /\ codes' \in Seq(Codes) /\ DOMAIN codes \subseteq DOMAIN codes'
      BY <1>1, <2>2, <3>3, <3>5
    <3>8. \A v \in Workers : req'[v] = req[v] \/ (req[v].pc = "spend" /\ req'[v].pc = "mint")
      BY <2>2, <3>2, <3>6
    <3>9. \A v \in Workers : req'[v] # req[v] /\ req'[v].pc = "mint" =>
                /\ req'[v].row \in DOMAIN codes /\ ~ codes[req'[v].row].consumed /\ codes'[req'[v].row].consumed
                /\ \A u \in Workers : u # v => req'[u] = req[u]
      BY <2>2, <2>4, <3>2, <3>3, <3>5, <3>6
    <3> QED BY <2>2, <3>6, <3>7, <3>8, <3>9, CodesStep
  <2> QED BY <1>3, <2>1, <2>3, <2>4 DEF Spend
<1>4. ASSUME NEW c \in Clients, RegisterClient(c) PROVE Inv'
  <2>1. /\ UNCHANGED <<scope, removals, codes, tokens, minted, held, session, req, cutShort>>
        /\ known' \subseteq Clients
    BY <1>1, <1>4 DEF RegisterClient
  <2>2. req' \in [Workers -> Requests] /\ (\A v \in Workers : req'[v] = req[v]) /\ codes' \in Seq(Codes) /\ codes' = codes
    BY <1>1, <2>1
  <2> QED BY <2>1, <2>2, CodesStep
<1>5. ASSUME Expire PROVE Inv'
  <2>1. UNCHANGED <<known, scope, removals, minted, held, session, req, cutShort>>
    BY <1>5 DEF Expire
  <2>2. ASSUME NEW k \in DOMAIN codes, codes' = [codes EXCEPT ![k].over = TRUE], UNCHANGED tokens PROVE Inv'
    <3>1. PICK x : x = [codes[k] EXCEPT !.over = TRUE]
      OBVIOUS
    <3>2. x \in Codes /\ x.consumed = codes[k].consumed
      BY <1>1, <3>1 DEF Codes
    <3>3. codes' = [codes EXCEPT ![k] = x]
      BY <2>2, <3>1
    <3>4. codes' \in Seq(Codes) /\ DOMAIN codes' = DOMAIN codes /\ codes'[k] = x /\ \A j \in DOMAIN codes : j # k => codes'[j] = codes[j]
      BY <1>1, <3>2, <3>3
    <3>5. /\ \A j \in DOMAIN codes : codes[j].consumed => codes'[j].consumed
          /\ known' \subseteq Clients /\ codes' \in Seq(Codes) /\ DOMAIN codes \subseteq DOMAIN codes'
      BY <1>1, <2>1, <3>2, <3>4
    <3>6. req' \in [Workers -> Requests] /\ (\A v \in Workers : req'[v] = req[v])
      BY <1>1, <2>1
    <3> QED BY <2>1, <2>2, <3>5, <3>6, CodesStep
  <2>3. ASSUME NEW i \in DOMAIN tokens, UNCHANGED codes,
               tokens' \in {[tokens EXCEPT ![i].accessOver = TRUE],
                            [tokens EXCEPT ![i].accessOver = TRUE, ![i].refreshOver = TRUE]}
        PROVE Inv'
    <3>1. PICK t : /\ tokens' = [tokens EXCEPT ![i] = t]
                   /\ t \in {[tokens[i] EXCEPT !.accessOver = TRUE],
                             [tokens[i] EXCEPT !.accessOver = TRUE, !.refreshOver = TRUE]}
      BY <1>1, <2>3
    <3>2. DOMAIN tokens' = DOMAIN tokens /\ tokens' = [j \in DOMAIN tokens' |-> tokens'[j]]
      BY <1>1, <3>1
    <3>3. \A j \in DOMAIN tokens : SameGrant(tokens'[j], tokens[j])
      BY <1>1, <3>1, SameGrants
    <3> QED BY <2>1, <2>3, <3>2, <3>3, MarkedStep
  <2> QED BY <1>5, <2>2, <2>3 DEF Expire
<1> QED BY <1>2, <1>3, <1>4, <1>5

(***************************************************************************)
(* Secrets are made, and reach their clients.                              *)
(***************************************************************************)
LEMMA ReplyingFields ==
    ASSUME NEW c \in Clients, minted \in Nat
    PROVE  /\ Replying(c) \in Requests /\ Replying(c).pc = "reply" /\ Replying(c).client = c
           /\ Replying(c).secret = minted + 1
<1>1. PICK n \in Nat : n = minted + 1
  OBVIOUS
<1>2. PICK r : r = [Idle EXCEPT !.pc = "reply", !.client = c, !.secret = n]
  OBVIOUS
<1>3. r \in Requests /\ r.pc = "reply" /\ r.client = c /\ r.secret = n
  BY <1>2, IdleFits DEF Requests, Steps, Exchanging
<1> QED BY <1>1, <1>2, <1>3 DEF Replying

\* A new secret is on its way to the client that owns its row.
LEMMA SecretStep ==
    ASSUME Inv, UNCHANGED <<known, scope, removals, codes, held, session, cutShort>>,
           minted' = minted + 1, NEW w \in Workers, req[w].pc \in {"mint", "rotate"},
           NEW c \in Clients, Become(w, Replying(c)),
           tokens' \in Seq(Tokens), DOMAIN tokens \subseteq DOMAIN tokens',
           NEW n \in DOMAIN tokens', \A i \in DOMAIN tokens' : i # n => i \in DOMAIN tokens /\ tokens'[i] = tokens[i],
           tokens'[n].client = c, tokens'[n].secret = minted + 1,
           n \in DOMAIN tokens => tokens'[n].client = tokens[n].client,
           \A v \in Workers : v # w /\ req[v].pc = "mint" => tokens'[n].code # req[v].row,
           Once', RemovalKillsTokens'
    PROVE  Inv'
<1>1. /\ TypeOK /\ req \in [Workers -> Requests] /\ (\A v \in Workers : req[v] \in Requests /\ Fits(req[v]))
      /\ minted \in Nat /\ minted' \in Nat /\ minted' >= minted /\ held \in [Clients -> SUBSET (1 .. minted)]
  BY Types DEF Inv, TypeOK
<1>2. PICK r : r = Replying(c)
  OBVIOUS
<1>3. r \in Requests /\ r.pc = "reply" /\ r.client = c /\ r.secret = minted + 1
  BY <1>1, <1>2, ReplyingFields
<1>4. req' \in [Workers -> Requests] /\ req'[w] = r /\ \A v \in Workers : v # w => req'[v] = req[v]
  BY <1>1, <1>2, <1>3 DEF Become
<1>5. ASSUME NEW v \in Workers PROVE Fits(req[v])'
  <2>1. CASE v = w
    BY <1>1, <1>3, <1>4, <2>1 DEF Fits, Pages, Asking, Calling
  <2>2. CASE v # w
    <3>1. PICK q : q = req[v]
      OBVIOUS
    <3>2. q \in Requests /\ Fits(q) /\ req'[v] = q
      BY <1>1, <1>4, <2>2, <3>1
    <3>3. q.pc = "mint" => \A i \in DOMAIN tokens' : tokens'[i].code # q.row
      BY <2>2, <3>1, <3>2 DEF Fits
    <3>4. q.pc = "lookup" => scope'[q.email] \in q.seen \cup {NoScope}
      BY <3>2 DEF Fits
    <3>5. q.pc = "tool" /\ q.alone => session'[q.client] \in q.seen
      BY <3>2 DEF Fits
    <3>6. \A i \in DOMAIN tokens : tokens'[i].client = tokens[i].client
      OBVIOUS
    <3>7. Fits(q)'
      BY <1>1, <3>2, <3>3, <3>4, <3>5, <3>6, FitsKept
    <3> QED BY <3>2, <3>7
  <2> QED BY <2>1, <2>2
<1>6. held' \in [Clients -> SUBSET (1 .. minted')]
  BY <1>1
<1>7. TypeOK'
  BY <1>1, <1>4, <1>5, <1>6 DEF TypeOK, Fits
<1>8. Minting' /\ Alone'
  <2>1. Minting'
    BY <1>3, <1>4 DEF Inv, Minting, At
  <2>2. Alone'
    BY <1>3, <1>4 DEF Inv, Alone, Calling
  <2> QED BY <2>1, <2>2
<1>9. ClientKeepsUp'
  <2>1. SUFFICES ASSUME NEW i \in DOMAIN tokens', ~ cutShort, tokens'[i].secret \notin held[tokens'[i].client]
                 PROVE  \E v \in Workers :
                          At(v, "reply")' /\ req'[v].secret = tokens'[i].secret /\ req'[v].client = tokens'[i].client
    BY DEF ClientKeepsUp
  <2>2. CASE i = n
    BY <1>3, <1>4, <2>2 DEF At
  <2>3. CASE i # n
    <3>1. PICK v \in Workers : At(v, "reply") /\ req[v].secret = tokens[i].secret /\ req[v].client = tokens[i].client
      BY <2>1, <2>3 DEF Inv, ClientKeepsUp
    <3> QED BY <1>4, <2>3, <3>1 DEF At
  <2> QED BY <2>2, <2>3
<1> QED BY <1>5, <1>7, <1>8, <1>9 DEF Inv

LEMMA MintStep ==
    ASSUME Inv, NEW w \in Workers, Mint(w)
    PROVE  Inv'
<1>1. /\ TypeOK /\ req \in [Workers -> Requests] /\ (\A v \in Workers : req[v] \in Requests /\ Fits(req[v]))
      /\ minted \in Nat /\ codes \in Seq(Codes) /\ tokens \in Seq(Tokens) /\ removals \in [Emails -> Nat]
      /\ \A k \in DOMAIN codes : codes[k] \in Codes
  BY Types DEF Inv, TypeOK
<1>2. PICK k, c, t : /\ k = req[w].row /\ c = codes[k].client
                     /\ t = [email |-> codes[k].email, client |-> codes[k].client,
                             scope |-> codes[k].scope, secret |-> minted + 1, accessOver |-> FALSE,
                             refreshOver |-> FALSE, revoked |-> FALSE, code |-> k,
                             born |-> removals[codes[k].email]]
  OBVIOUS
<1>3. /\ req[w].pc = "mint" /\ minted' = minted + 1 /\ tokens' = Append(tokens, t) /\ Become(w, Replying(c))
      /\ UNCHANGED <<known, scope, removals, codes, held, session, cutShort>>
  BY <1>2 DEF Mint, At
<1>4. k \in DOMAIN codes /\ codes[k].consumed /\ \A i \in DOMAIN tokens : tokens[i].code # k
  BY <1>1, <1>2, <1>3 DEF Fits
<1>5. k \in Nat /\ codes[k].email \in Emails /\ c \in Clients /\ codes[k].scope \in Scopes
  BY <1>1, <1>2, <1>4 DEF Codes
<1>6. t \in Tokens
  BY <1>1, <1>2, <1>5 DEF Tokens
<1>7. PICK n : n = Len(tokens) + 1
  OBVIOUS
<1>8. /\ tokens' \in Seq(Tokens) /\ DOMAIN tokens' = DOMAIN tokens \cup {n} /\ n \notin DOMAIN tokens
      /\ tokens'[n] = t /\ \A i \in DOMAIN tokens : tokens'[i] = tokens[i]
  BY <1>1, <1>3, <1>6, <1>7, OneMore
<1>9. \A v \in Workers : v # w /\ req[v].pc = "mint" => tokens'[n].code # req[v].row
  BY <1>2, <1>3, <1>8 DEF Inv, Minting, At
<1>10. Once'
  BY <1>2, <1>3, <1>4, <1>8 DEF Inv, Once
<1>11. RemovalKillsTokens'
  <2>1. SUFFICES ASSUME NEW i \in DOMAIN tokens', tokens'[i].born < removals[tokens'[i].email],
                        ~ tokens'[i].revoked, ~ cutShort
                 PROVE  \E v \in Workers : At(v, "cut")' /\ req'[v].email = tokens'[i].email
    BY <1>3 DEF RemovalKillsTokens
  <2>2. i # n
    BY <1>1, <1>2, <1>5, <1>8, <2>1
  <2>3. PICK v \in Workers : At(v, "cut") /\ req[v].email = tokens[i].email
    BY <1>8, <2>1, <2>2 DEF Inv, RemovalKillsTokens
  <2>4. req'[v] = req[v]
    BY <1>1, <1>3, <2>3 DEF Become, At
  <2> QED BY <1>8, <2>2, <2>3, <2>4 DEF At
<1>12. /\ n \in DOMAIN tokens' /\ DOMAIN tokens \subseteq DOMAIN tokens'
       /\ \A i \in DOMAIN tokens' : i # n => i \in DOMAIN tokens /\ tokens'[i] = tokens[i]
       /\ tokens'[n].client = c /\ tokens'[n].secret = minted + 1
  BY <1>2, <1>8
<1> QED BY <1>3, <1>5, <1>8, <1>9, <1>10, <1>11, <1>12, SecretStep

LEMMA RotateStep ==
    ASSUME Inv, NEW w \in Workers, Rotate(w)
    PROVE  Inv'
<1>1. /\ TypeOK /\ req \in [Workers -> Requests] /\ (\A v \in Workers : req[v] \in Requests /\ Fits(req[v]))
      /\ minted \in Nat /\ tokens \in Seq(Tokens) /\ \A i \in DOMAIN tokens : tokens[i] \in Tokens
  BY Types DEF Inv, TypeOK
<1>2. PICK n, c, t : n = req[w].row /\ c = req[w].client /\ t = [tokens[n] EXCEPT !.secret = minted + 1, !.accessOver = FALSE]
  OBVIOUS
<1>3. /\ req[w].pc = "rotate" /\ minted' = minted + 1 /\ tokens' = [tokens EXCEPT ![n] = t] /\ Become(w, Replying(c))
      /\ UNCHANGED <<known, scope, removals, codes, held, session, cutShort>>
  BY <1>2 DEF Rotate, Rotated, At
<1>4. n \in DOMAIN tokens /\ c \in Clients /\ tokens[n].client = c
  BY <1>1, <1>2, <1>3 DEF Fits
<1>5. /\ t \in Tokens /\ t.client = tokens[n].client /\ t.code = tokens[n].code /\ t.email = tokens[n].email
      /\ t.born = tokens[n].born /\ t.revoked = tokens[n].revoked /\ t.secret = minted + 1
  <2>1. PICK m \in Nat : m = minted + 1
    BY <1>1
  <2>2. tokens[n] \in Tokens /\ t = [tokens[n] EXCEPT !.secret = m, !.accessOver = FALSE]
    BY <1>1, <1>2, <1>4, <2>1
  <2> QED BY <2>1, <2>2 DEF Tokens
<1>6. /\ tokens' \in Seq(Tokens) /\ DOMAIN tokens' = DOMAIN tokens /\ tokens'[n] = t
      /\ \A i \in DOMAIN tokens : i # n => tokens'[i] = tokens[i]
  BY <1>1, <1>3, <1>4, <1>5
<1>7. \A i \in DOMAIN tokens : /\ tokens'[i].code = tokens[i].code /\ tokens'[i].email = tokens[i].email
                               /\ tokens'[i].born = tokens[i].born /\ tokens'[i].revoked = tokens[i].revoked
  BY <1>5, <1>6
<1>8. \A v \in Workers : v # w /\ req[v].pc = "mint" => tokens'[n].code # req[v].row
  BY <1>1, <1>4, <1>7 DEF Fits
<1>9. Once'
  BY <1>3, <1>6, <1>7 DEF Inv, Once
<1>10. RemovalKillsTokens'
  <2>1. \A v \in Workers : req[v].pc = "cut" => req'[v] = req[v]
    BY <1>1, <1>3 DEF Become
  <2> QED BY <1>3, <1>6, <1>7, <2>1 DEF Inv, RemovalKillsTokens, At
<1> QED BY <1>3, <1>4, <1>5, <1>6, <1>8, <1>9, <1>10, SecretStep

LEMMA ReplyStep ==
    ASSUME Inv, NEW w \in Workers, Reply(w)
    PROVE  Inv'
<1>1. /\ TypeOK /\ req \in [Workers -> Requests] /\ (\A v \in Workers : req[v] \in Requests /\ Fits(req[v]))
      /\ held \in [Clients -> SUBSET (1 .. minted)]
  BY Types DEF Inv, TypeOK
<1>2. PICK c, s : c = req[w].client /\ s = req[w].secret
  OBVIOUS
<1>3. /\ req[w].pc = "reply" /\ Finish(w) /\ held' = [held EXCEPT ![c] = @ \cup {s}]
      /\ UNCHANGED <<scope, removals, known, codes, tokens, minted, session, cutShort>>
  BY <1>2 DEF Reply, Answer, At, tables
<1>4. c \in Clients /\ s \in 1 .. minted
  BY <1>1, <1>2, <1>3 DEF Fits
<1>5. req' \in [Workers -> Requests] /\ req'[w] = Idle /\ \A v \in Workers : v # w => req'[v] = req[v]
  BY <1>1, <1>3, IdleFits DEF Finish, Become
<1>6. held' \in [Clients -> SUBSET (1 .. minted)] /\ s \in held'[c] /\ \A d \in Clients : held[d] \subseteq held'[d]
  BY <1>1, <1>3, <1>4
<1>7. ASSUME NEW v \in Workers PROVE Fits(req[v])'
  <2>1. CASE v = w
    BY <1>5, <2>1, IdleFits DEF Fits, Pages, Asking, Calling
  <2>2. CASE v # w
    BY <1>1, <1>3, <1>5, <2>2 DEF Fits
  <2> QED BY <2>1, <2>2
<1>8. TypeOK'
  BY <1>1, <1>3, <1>5, <1>6, <1>7 DEF TypeOK, Fits
<1>9. Minting' /\ Once' /\ Alone'
  <2>1. Minting' /\ Once'
    BY <1>3, <1>5, IdleFits DEF Inv, Minting, Once, At
  <2>2. Alone'
    BY <1>5, IdleFits DEF Inv, Alone, Calling
  <2> QED BY <2>1, <2>2
<1>10. RemovalKillsTokens'
  <2>1. \A v \in Workers : req[v].pc = "cut" => req'[v] = req[v]
    BY <1>3, <1>5
  <2> QED BY <1>3, <2>1 DEF Inv, RemovalKillsTokens, At
<1>11. ClientKeepsUp'
  <2>1. SUFFICES ASSUME NEW i \in DOMAIN tokens, ~ cutShort, tokens[i].secret \notin held'[tokens[i].client]
                 PROVE  \E v \in Workers :
                          At(v, "reply")' /\ req'[v].secret = tokens[i].secret /\ req'[v].client = tokens[i].client
    BY <1>3 DEF ClientKeepsUp
  <2>2. tokens[i].client \in Clients
    BY <1>1, Types DEF Tokens
  <2>3. PICK v \in Workers : At(v, "reply") /\ req[v].secret = tokens[i].secret /\ req[v].client = tokens[i].client
    BY <1>6, <2>1, <2>2 DEF Inv, ClientKeepsUp
  <2>4. v # w
    BY <1>2, <1>6, <2>1, <2>3
  <2> QED BY <1>5, <2>3, <2>4 DEF At
<1> QED BY <1>7, <1>8, <1>9, <1>10, <1>11 DEF Inv

(***************************************************************************)
(* Tool calls and their sessions; restarts.                                *)
(***************************************************************************)
\* Calls and sessions change, consents and secrets do not.
LEMMA CallsStep ==
    ASSUME Inv, UNCHANGED <<tables, minted, held>>, cutShort' \in BOOLEAN, cutShort => cutShort',
           session' \in [Clients -> Scopes \cup {NoScope}],
           req' \in [Workers -> Requests],
           \A v \in Workers : Fits(req[v])',
           \A v \in Workers : req'[v].pc = "mint" => req'[v] = req[v],
           ~ cutShort' => \A v \in Workers : req[v].pc \in {"cut", "reply"} => req'[v] = req[v],
           Alone'
    PROVE  Inv'
<1>1. UNCHANGED <<scope, removals, known, codes, tokens, minted, held>>
  BY DEF tables
<1>2. TypeOK'
  BY <1>1 DEF Inv, TypeOK, Fits
<1>3. Minting' /\ Once'
  BY <1>1 DEF Inv, Minting, Once, At
<1>4. RemovalKillsTokens' /\ ClientKeepsUp'
  BY <1>1 DEF Inv, RemovalKillsTokens, ClientKeepsUp, At
<1> QED BY <1>2, <1>3, <1>4 DEF Inv

LEMMA BearerStep ==
    ASSUME Inv, NEW w \in Workers, NEW c \in Clients, NEW i \in DOMAIN tokens, Bearer(w, c, i)
    PROVE  Inv'
<1>1. /\ TypeOK /\ req \in [Workers -> Requests] /\ (\A v \in Workers : req[v] \in Requests /\ Fits(req[v]))
      /\ scope \in [Emails -> Scopes \cup {NoScope}] /\ tokens[i] \in Tokens /\ DOMAIN tokens \subseteq Nat
      /\ session \in [Clients -> Scopes \cup {NoScope}] /\ cutShort \in BOOLEAN
  BY Types DEF Inv, TypeOK
<1>2. PICK e, S : e = tokens[i].email /\ S = {scope[e]} \ {NoScope}
  OBVIOUS
<1>3. e \in Emails /\ S \in SUBSET Scopes /\ scope[e] \in S \cup {NoScope}
  BY <1>1, <1>2 DEF Tokens
<1>4. PICK a \in BOOLEAN : a = (Calls(c) = {})
  <2>1. (Calls(c) = {}) \in BOOLEAN
    OBVIOUS
  <2> QED BY <2>1
<1>5. PICK r : r = [Idle EXCEPT !.pc = "lookup", !.email = e, !.client = c, !.row = i, !.seen = S, !.alone = a]
  OBVIOUS
<1>6. /\ r \in Requests /\ r.pc = "lookup" /\ r.email = e /\ r.client = c /\ r.row = i /\ r.seen = S /\ r.alone = a
  BY <1>1, <1>3, <1>5, IdleFits DEF Requests, Steps, Calling
<1>7. /\ req[w].pc = "idle" /\ UNCHANGED <<tables, minted, held, session, cutShort>>
      /\ req' = [v \in Workers |->
           IF v = w THEN r ELSE IF v \in Calls(c) THEN [req[v] EXCEPT !.alone = FALSE] ELSE req[v]]
  BY <1>2, <1>4, <1>5 DEF Bearer, At
<1>8. ASSUME NEW v \in Workers, v # w
      PROVE  /\ req'[v] \in Requests /\ req'[v].pc = req[v].pc /\ req'[v].email = req[v].email
             /\ req'[v].client = req[v].client /\ req'[v].row = req[v].row /\ req'[v].secret = req[v].secret
             /\ req'[v].scope = req[v].scope /\ req'[v].seen = req[v].seen
             /\ req'[v].alone => req[v].alone
             /\ req[v].pc \in Calling /\ req[v].client = c => ~ req'[v].alone
             /\ req[v].pc \notin Calling => req'[v] = req[v]
  <2>1. PICK x : x = [req[v] EXCEPT !.alone = FALSE]
    OBVIOUS
  <2>2. /\ x \in Requests /\ x.pc = req[v].pc /\ x.email = req[v].email
        /\ x.client = req[v].client /\ x.row = req[v].row /\ x.secret = req[v].secret
        /\ x.scope = req[v].scope /\ x.seen = req[v].seen /\ ~ x.alone
    BY <1>1, <2>1 DEF Requests
  <2>3. req'[v] = (IF v \in Calls(c) THEN x ELSE req[v])
    BY <1>7, <1>8, <2>1
  <2>4. v \in Calls(c) <=> req[v].pc \in Calling /\ req[v].client = c
    BY DEF Calls
  <2> QED BY <1>1, <2>2, <2>3, <2>4
<1>9. req'[w] = r /\ req' \in [Workers -> Requests]
  BY <1>6, <1>7, <1>8
<1>10. UNCHANGED <<scope, codes, tokens, minted, session>>
  BY <1>7 DEF tables
<1>11. ASSUME NEW v \in Workers PROVE Fits(req[v])'
  <2>1. CASE v = w
    BY <1>3, <1>6, <1>9, <1>10, <2>1 DEF Fits, Calling
  <2>2. CASE v # w
    BY <1>1, <1>8, <1>10, <2>2 DEF Fits
  <2> QED BY <2>1, <2>2
<1>12. Alone'
  <2>1. SUFFICES ASSUME NEW u \in Workers, NEW v \in Workers, u # v,
                        req'[u].pc \in Calling, req'[u].alone, req'[v].pc \in Calling,
                        req'[v].client = req'[u].client
                 PROVE  FALSE
    BY DEF Alone
  <2>2. CASE u = w
    <3>1. v \in Calls(c)
      BY <1>6, <1>8, <1>9, <2>1, <2>2 DEF Calls
    <3> QED BY <1>4, <1>6, <1>9, <2>1, <2>2, <3>1
  <2>3. CASE v = w
    BY <1>6, <1>8, <1>9, <2>1, <2>3
  <2>4. CASE u # w /\ v # w
    BY <1>8, <2>1, <2>4 DEF Inv, Alone
  <2> QED BY <2>2, <2>3, <2>4
<1>13. \A v \in Workers : req'[v].pc = "mint" => req'[v] = req[v]
  BY <1>6, <1>8, <1>9 DEF Calling
<1>14. \A v \in Workers : req[v].pc \in {"cut", "reply"} => req'[v] = req[v]
  BY <1>7, <1>8 DEF Calling
<1> QED BY <1>1, <1>7, <1>9, <1>11, <1>12, <1>13, <1>14, CallsStep

LEMMA EnterStep ==
    ASSUME Inv, NEW w \in Workers, Enter(w)
    PROVE  Inv'
<1>1. /\ TypeOK /\ req \in [Workers -> Requests] /\ (\A v \in Workers : req[v] \in Requests /\ Fits(req[v]))
      /\ session \in [Clients -> Scopes \cup {NoScope}] /\ cutShort \in BOOLEAN
  BY Types DEF Inv, TypeOK
<1>2. PICK c, s, r : c = req[w].client /\ s = req[w].scope /\ r = [req[w] EXCEPT !.pc = "tool"]
  OBVIOUS
<1>3. /\ req[w].pc = "body" /\ Become(w, r) /\ session' = [session EXCEPT ![c] = s]
      /\ UNCHANGED <<tables, minted, held, cutShort>>
  BY <1>2 DEF Enter, At
<1>4. c \in Clients /\ s \in req[w].seen /\ s \in Scopes
  BY <1>1, <1>2, <1>3 DEF Fits, Calling, Requests
<1>5. /\ r \in Requests /\ r.pc = "tool" /\ r.email = req[w].email /\ r.client = c
      /\ r.seen = req[w].seen /\ r.alone = req[w].alone
  BY <1>1, <1>2 DEF Requests, Steps, Calling
<1>6. req' \in [Workers -> Requests] /\ req'[w] = r /\ \A v \in Workers : v # w => req'[v] = req[v]
  BY <1>1, <1>3, <1>5 DEF Become
<1>7. session' \in [Clients -> Scopes \cup {NoScope}] /\ session'[c] = s /\ \A d \in Clients : d # c => session'[d] = session[d]
  BY <1>1, <1>3, <1>4
<1>8. UNCHANGED <<scope, codes, tokens, minted>>
  BY <1>3 DEF tables
<1>9. ASSUME NEW v \in Workers PROVE Fits(req[v])'
  <2>1. CASE v = w
    <3>1. req[w].email \in Emails
      BY <1>1, <1>3 DEF Fits, Calling
    <3> QED BY <1>4, <1>5, <1>6, <1>7, <2>1, <3>1 DEF Fits
  <2>2. CASE v # w
    <3>1. req[v].pc = "tool" /\ req[v].alone => session'[req[v].client] \in req[v].seen
      <4>1. ASSUME req[v].pc = "tool", req[v].alone PROVE req[v].client \in Clients /\ req[v].client # c
        <5>1. req[v].client \in Clients
          BY <1>1, <4>1 DEF Fits, Calling
        <5>2. req[w].pc \in Calling /\ req[v].pc \in Calling
          BY <1>3, <4>1 DEF Calling
        <5> QED BY <1>2, <2>2, <4>1, <5>1, <5>2 DEF Inv, Alone
      <4> QED BY <1>1, <1>7, <4>1 DEF Fits
    <3> QED BY <1>1, <1>6, <1>8, <2>2, <3>1 DEF Fits
  <2> QED BY <2>1, <2>2
<1>10. Alone'
  <2>1. \A v \in Workers : /\ req'[v].pc \in Calling <=> req[v].pc \in Calling
                           /\ req'[v].client = req[v].client /\ req'[v].alone = req[v].alone
    BY <1>2, <1>3, <1>5, <1>6 DEF Calling
  <2> QED BY <2>1 DEF Inv, Alone
<1>11. /\ \A v \in Workers : req'[v].pc = "mint" => req'[v] = req[v]
       /\ \A v \in Workers : req[v].pc \in {"cut", "reply"} => req'[v] = req[v]
  BY <1>3, <1>5, <1>6
<1> QED BY <1>1, <1>3, <1>6, <1>7, <1>9, <1>10, <1>11, CallsStep

LEMMA CloseStep ==
    ASSUME Inv, NEW c \in Clients, CloseSession(c)
    PROVE  Inv'
<1>1. /\ TypeOK /\ req \in [Workers -> Requests] /\ (\A v \in Workers : req[v] \in Requests /\ Fits(req[v]))
      /\ session \in [Clients -> Scopes \cup {NoScope}] /\ cutShort \in BOOLEAN
  BY Types DEF Inv, TypeOK
<1>2. /\ Calls(c) = {} /\ session' = [session EXCEPT ![c] = NoScope]
      /\ UNCHANGED <<tables, minted, held, req, cutShort>>
  BY DEF CloseSession
<1>3. session' \in [Clients -> Scopes \cup {NoScope}] /\ \A d \in Clients : d # c => session'[d] = session[d]
  BY <1>1, <1>2
<1>4. UNCHANGED <<scope, codes, tokens, minted>>
  BY <1>2 DEF tables
<1>5. ASSUME NEW v \in Workers PROVE Fits(req[v])'
  <2>1. req[v].pc = "tool" => req[v].client \in Clients /\ req[v].client # c
    BY <1>1, <1>2 DEF Fits, Calls, Calling
  <2> QED BY <1>1, <1>2, <1>3, <1>4, <2>1 DEF Fits
<1>6. Alone'
  BY <1>2 DEF Inv, Alone
<1> QED BY <1>1, <1>2, <1>3, <1>5, <1>6, CallsStep

LEMMA RestartSteps ==
    ASSUME Inv, RestartApi \/ RestartMcp
    PROVE  Inv'
<1>1. /\ TypeOK /\ req \in [Workers -> Requests] /\ (\A v \in Workers : req[v] \in Requests /\ Fits(req[v]))
      /\ session \in [Clients -> Scopes \cup {NoScope}] /\ cutShort \in BOOLEAN
  BY Types DEF Inv, TypeOK
<1>2. ASSUME NEW P, req' = Stopped(P)
      PROVE  /\ req' \in [Workers -> Requests]
             /\ \A v \in Workers : req'[v] = (IF req[v].pc \in P THEN Idle ELSE req[v])
  BY <1>1, <1>2, IdleFits DEF Stopped
<1>3. UNCHANGED <<tables, minted, held>>
  BY DEF RestartApi, RestartMcp
<1>4. UNCHANGED <<scope, codes, tokens, minted>>
  BY <1>3 DEF tables
<1>5. CASE RestartApi
  <2>1. /\ req' = Stopped(Steps \ (Calling \cup Pages)) /\ UNCHANGED session
        /\ cutShort' = (cutShort \/ \E w \in Workers : req[w].pc \in {"cut", "reply"})
    BY <1>5 DEF RestartApi
  <2>2. /\ req' \in [Workers -> Requests]
        /\ \A v \in Workers : req'[v] = req[v] \/ req'[v] = Idle
    BY <1>2, <2>1
  <2>3. \A v \in Workers : Fits(req[v])'
    <3>1. ASSUME NEW v \in Workers PROVE Fits(req[v])'
      <4>1. CASE req'[v] = req[v]
        BY <1>1, <1>4, <2>1, <4>1 DEF Fits
      <4>2. CASE req'[v] = Idle
        BY <4>2, IdleFits DEF Fits, Pages, Asking, Calling
      <4> QED BY <2>2, <4>1, <4>2
    <3> QED BY <3>1
  <2>4. Alone'
    BY <2>2, IdleFits DEF Inv, Alone, Calling
  <2>5. /\ \A v \in Workers : req'[v].pc = "mint" => req'[v] = req[v]
        /\ ~ cutShort' => \A v \in Workers : req[v].pc \in {"cut", "reply"} => req'[v] = req[v]
        /\ cutShort' \in BOOLEAN /\ (cutShort => cutShort')
    BY <2>1, <2>2, IdleFits
  <2> QED BY <1>1, <1>3, <2>1, <2>2, <2>3, <2>4, <2>5, CallsStep
<1>6. CASE RestartMcp
  <2>1. /\ req' = Stopped(Calling) /\ UNCHANGED cutShort /\ session' = [c \in Clients |-> NoScope]
    BY <1>6 DEF RestartMcp
  <2>2. /\ req' \in [Workers -> Requests] /\ session' \in [Clients -> Scopes \cup {NoScope}]
        /\ \A v \in Workers : req'[v] = (IF req[v].pc \in Calling THEN Idle ELSE req[v])
    BY <1>2, <2>1
  <2>3. \A v \in Workers : Fits(req[v])'
    <3>1. ASSUME NEW v \in Workers PROVE Fits(req[v])'
      <4>1. CASE req[v].pc \in Calling
        BY <2>2, <4>1, IdleFits DEF Fits, Pages, Asking, Calling
      <4>2. CASE req[v].pc \notin Calling
        BY <1>1, <1>4, <2>2, <4>2 DEF Fits, Calling
      <4> QED BY <4>1, <4>2
    <3> QED BY <3>1
  <2>4. Alone'
    BY <2>2, IdleFits DEF Inv, Alone, Calling
  <2>5. /\ \A v \in Workers : req'[v].pc = "mint" => req'[v] = req[v]
        /\ \A v \in Workers : req[v].pc \in {"cut", "reply"} => req'[v] = req[v]
    BY <2>2, IdleFits DEF Calling
  <2> QED BY <1>1, <1>3, <2>1, <2>2, <2>3, <2>4, <2>5, CallsStep
<1> QED BY <1>5, <1>6

\* Every step keeps the invariant.
LEMMA StepKeeps ==
    ASSUME Inv, [Next]_vars
    PROVE  Inv'
<1>1. CASE UNCHANGED vars
  BY <1>1 DEF vars, tables, Inv, TypeOK, Fits, Minting, Once, Alone, RemovalKillsTokens, ClientKeepsUp, At
<1>2. CASE Next
  BY <1>2, InviteStep, AskingSteps, ReadingSteps, RevokeStep, MarkingSteps, CodeSteps, MintStep, RotateStep,
     ReplyStep, BearerStep, EnterStep, CloseStep, RestartSteps DEF Next
<1> QED BY <1>1, <1>2

LEMMA AlwaysInv == Spec => []Inv
<1>1. Init => Inv
  BY InitHolds
<1>2. Inv /\ [Next]_vars => Inv'
  BY StepKeeps
<1> QED BY <1>1, <1>2, PTL DEF Spec

\* A consent gives one row of tokens at most: of the requests that exchange its code
\* at once, the one whose UPDATE finds it unspent mints.
THEOREM ConsentsGrantOnce == Spec => []OneGrantPerConsent
<1>1. Inv => OneGrantPerConsent
  <2>1. SUFFICES ASSUME Inv PROVE OneGrantPerConsent
    OBVIOUS
  <2>2. \A w \in Workers : At(w, "mint") =>
          /\ codes[req[w].row].consumed /\ \A i \in DOMAIN tokens : tokens[i].code # req[w].row
    BY <2>1 DEF Inv, Fits, At
  <2> QED BY <2>1, <2>2 DEF Inv, Minting, Once, OneGrantPerConsent
<1> QED BY <1>1, AlwaysInv, PTL

\* revokeAdmin leaves no token of the address alive, whatever is refreshed meanwhile,
\* unless the process dies between its two statements.
THEOREM RemovalIsFinal == Spec => []RemovalKillsTokens
<1>1. Inv => RemovalKillsTokens
  BY DEF Inv
<1> QED BY <1>1, AlwaysInv, PTL

\* Refreshes that overtake each other do not lock a client out of its grant.
THEOREM ClientsKeepUp == Spec => []ClientKeepsUp
<1>1. Inv => ClientKeepsUp
  BY DEF Inv
<1> QED BY <1>1, AlwaysInv, PTL

\* The tools of a call that runs alone in its session see no event that the owner of
\* the token could not see since the call began.
THEOREM ToolsStayInScope == Spec => []ToolInScope
<1>1. Inv => ToolInScope
  <2>1. SUFFICES ASSUME Inv, NEW w \in Workers, At(w, "tool"), req[w].alone
                 PROVE  Reached(w) \subseteq UNION {Visible(s) : s \in req[w].seen}
    BY DEF ToolInScope
  <2>2. session[req[w].client] \in req[w].seen
    BY <2>1 DEF Inv, Fits, At
  <2>3. Reached(w) \in {Visible(s) : s \in req[w].seen}
    BY <2>2 DEF Reached
  <2> QED BY <2>3
<1> QED BY <1>1, AlwaysInv, PTL
=============================================================================
