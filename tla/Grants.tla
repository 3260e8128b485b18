-------------------------------- MODULE Grants --------------------------------
(***************************************************************************)
(* Data access for organizers' tools: the consent page and token endpoint  *)
(* of oauth/routes.ts, the bearer check, tool sessions and tools of        *)
(* mcp/main.ts, and the admin portal (AdminPage and its handlers) that     *)
(* gives and takes the right to it.  Statements are not in transactions,   *)
(* so each is a step.                                                      *)
(*                                                                         *)
(* Secrets are numbered as they are made; one number stands for the access *)
(* and the refresh token of an answer.  The super admin who acts is not    *)
(* among Emails, so the refusal to revoke oneself is left out, as are PKCE *)
(* (a client presents its own codes), redirect URIs, pages and mails.      *)
(***************************************************************************)
EXTENDS Integers, Sequences, FiniteSets

CONSTANTS
    Emails,         \* organizers, past and present
    Clients,        \* tools
    Scopes,         \* "all" or a committee
    All,            \* the scope of super admins
    NoScope,
    Workers,        \* requests in flight
    MaxRemovals,    \* bound: how often somebody is removed
    MaxCodes,       \* bound on consents
    MaxSecrets      \* bound on answers of the token endpoint

ASSUME GrantsAssumption ==
    /\ All \in Scopes /\ NoScope \notin Scopes
    /\ {MaxRemovals, MaxCodes, MaxSecrets} \subseteq Nat

VARIABLES
    scope,      \* admins: the scope of each organizer, NoScope if removed
    removals,   \* history: how often each was removed
    known,      \* oauth_clients: tools that have registered
    codes,      \* oauth_codes in order of creation
    tokens,     \* mcp_tokens in order of creation
    minted,     \* secrets made so far
    held,       \* secrets each client has received
    session,    \* the tool session of each client: the scope its tools run with
    req,        \* what each request is doing
    cutShort    \* history: a restart fell into a removal, or lost an answer

tables == <<scope, removals, known, codes, tokens>>
vars == <<tables, minted, held, session, req, cutShort>>

Codes == [email: Emails, client: Clients, scope: Scopes, over: BOOLEAN, consumed: BOOLEAN]
\* code and born are history: the code it came from, the removals before it
Tokens == [email: Emails, client: Clients, scope: Scopes, secret: Nat, accessOver: BOOLEAN,
           refreshOver: BOOLEAN, revoked: BOOLEAN, code: Nat, born: Nat]

Idle == [pc |-> "idle", email |-> NoScope, client |-> NoScope, row |-> 0, secret |-> 0,
         scope |-> NoScope, seen |-> {}, alone |-> TRUE]
Pages == {"portal", "page"}         \* open in a browser
Asking == {"remove", "consent"}
Exchanging == {"spend", "mint", "rotate", "reply"}
Calling == {"lookup", "body", "tool"}
Steps == {"idle", "cut"} \cup Pages \cup Asking \cup Exchanging \cup Calling
\* seen and alone are history: the scopes of the owner since the call began, and
\* whether no other call of the session overlapped it
Requests ==
    [pc: Steps, email: Emails \cup {NoScope}, client: Clients \cup {NoScope}, row: Nat,
     secret: Nat, scope: Scopes \cup {NoScope}, seen: SUBSET Scopes, alone: BOOLEAN]

At(w, pc) == req[w].pc = pc
Become(w, r) == req' = [req EXCEPT ![w] = r]
Finish(w) == Become(w, Idle)
Calls(c) == {w \in Workers : req[w].pc \in Calling /\ req[w].client = c}

Init ==
    /\ scope = [e \in Emails |-> NoScope] /\ removals = [e \in Emails |-> 0]
    /\ known = {} /\ codes = <<>> /\ tokens = <<>> /\ minted = 0
    /\ held = [c \in Clients |-> {}] /\ session = [c \in Clients |-> NoScope]
    /\ req = [w \in Workers |-> Idle] /\ cutShort = FALSE

(***************************************************************************)
(* The admin portal.  The row of an organizer has the number of removals   *)
(* before it for an id: a new invitation is a new row.  The definitions    *)
(* called Faulty... are wrong on purpose and stand in for the one below    *)
(* them when a property is tested.                                         *)
(***************************************************************************)
\* by the portal's form, for any committee or for a super admin; an address that is
\* an organizer's is refused
Invite(e, s) ==
    /\ scope[e] = NoScope
    /\ scope' = [scope EXCEPT ![e] = s]
    /\ req' = [w \in Workers |-> IF req[w].pc = "lookup" /\ req[w].email = e
                                 THEN [req[w] EXCEPT !.seen = @ \cup {s}] ELSE req[w]]
    /\ UNCHANGED <<known, removals, codes, tokens, minted, held, session, cutShort>>

\* the overview is read; of what the page shows, this is the row to be clicked
Overview(w, e) ==
    /\ At(w, "idle") /\ scope[e] # NoScope /\ removals[e] < MaxRemovals
    /\ Become(w, [Idle EXCEPT !.pc = "portal", !.email = e, !.row = removals[e]])
    /\ UNCHANGED <<tables, minted, held, session, cutShort>>

There(r) == scope[r.email] # NoScope /\ removals[r.email] = r.row

\* "Revoke", however old the page is: the row is looked up by its id
RevokeRead(w) ==
    /\ At(w, "portal")
    /\ IF There(req[w]) THEN Become(w, [req[w] EXCEPT !.pc = "remove"]) ELSE Finish(w)
    /\ UNCHANGED <<tables, minted, held, session, cutShort>>

\* DELETE by id: another portal may have been faster
RevokeAdmin(w) ==
    LET e == req[w].email IN
    /\ At(w, "remove") /\ Become(w, [Idle EXCEPT !.pc = "cut", !.email = e])
    /\ IF There(req[w])
       THEN scope' = [scope EXCEPT ![e] = NoScope] /\ removals' = [removals EXCEPT ![e] = @ + 1]
       ELSE UNCHANGED <<scope, removals>>
    /\ UNCHANGED <<known, codes, tokens, minted, held, session, cutShort>>

Revoked(i) == [tokens[i] EXCEPT !.revoked = TRUE]

FaultyCut(w) ==      \* only the access tokens that are still good
    /\ At(w, "cut") /\ Finish(w)
    /\ tokens' = [i \in DOMAIN tokens |->
         IF tokens[i].email = req[w].email /\ ~tokens[i].accessOver THEN Revoked(i) ELSE tokens[i]]
    /\ UNCHANGED <<known, scope, removals, codes, minted, held, session, cutShort>>

\* the second statement of revokeAdmin: every token of the address
Cut(w) ==
    /\ At(w, "cut") /\ Finish(w)
    /\ tokens' = [i \in DOMAIN tokens |->
                    IF tokens[i].email = req[w].email THEN Revoked(i) ELSE tokens[i]]
    /\ UNCHANGED <<known, scope, removals, codes, minted, held, session, cutShort>>

\* from the list of the tokens that are not revoked
RevokeToken(i) ==
    /\ ~tokens[i].revoked
    /\ tokens' = [tokens EXCEPT ![i].revoked = TRUE]
    /\ UNCHANGED <<known, scope, removals, codes, minted, held, session, req, cutShort>>

(***************************************************************************)
(* The consent page and the token endpoint.                                *)
(***************************************************************************)
RegisterClient(c) ==
    /\ c \notin known /\ known' = known \cup {c}
    /\ UNCHANGED <<scope, removals, codes, tokens, minted, held, session, req, cutShort>>

\* the page that asks for consent is for organizers, and for tools that registered
AskConsent(w, e, c) ==
    /\ At(w, "idle") /\ scope[e] # NoScope /\ c \in known
    /\ Become(w, [Idle EXCEPT !.pc = "page", !.email = e, !.client = c])
    /\ UNCHANGED <<tables, minted, held, session, cutShort>>

\* the page may be old: the organizer and the scope are looked up again
Decide(w, approve) ==
    LET e == req[w].email IN
    /\ At(w, "page")
    /\ IF scope[e] # NoScope /\ approve
       THEN Become(w, [req[w] EXCEPT !.pc = "consent", !.scope = scope[e]])
       ELSE Finish(w)
    /\ UNCHANGED <<tables, minted, held, session, cutShort>>

Consent(w) ==
    LET r == req[w] IN
    /\ At(w, "consent") /\ Finish(w) /\ Len(codes) < MaxCodes
    /\ codes' = Append(codes, [email |-> r.email, client |-> r.client, scope |-> r.scope,
                               over |-> FALSE, consumed |-> FALSE])
    /\ UNCHANGED <<known, scope, removals, tokens, minted, held, session, cutShort>>

Exchange(w, k) ==
    /\ At(w, "idle") /\ ~codes[k].consumed /\ ~codes[k].over
    /\ Become(w, [Idle EXCEPT !.pc = "spend", !.row = k])
    /\ UNCHANGED <<tables, minted, held, session, cutShort>>

FaultySpend(w) ==    \* UPDATE by id alone
    /\ At(w, "spend")
    /\ codes' = [codes EXCEPT ![req[w].row].consumed = TRUE]
    /\ Become(w, [req[w] EXCEPT !.pc = "mint"])
    /\ UNCHANGED <<known, scope, removals, tokens, minted, held, session, cutShort>>

\* UPDATE ... WHERE consumed_at IS NULL: the code is spent before the row exists
Spend(w) ==
    LET k == req[w].row IN
    /\ At(w, "spend")
    /\ IF codes[k].consumed
       THEN Finish(w) /\ UNCHANGED codes
       ELSE /\ codes' = [codes EXCEPT ![k].consumed = TRUE]
            /\ Become(w, [req[w] EXCEPT !.pc = "mint"])
    /\ UNCHANGED <<known, scope, removals, tokens, minted, held, session, cutShort>>

Replying(c) == [Idle EXCEPT !.pc = "reply", !.client = c, !.secret = minted + 1]

Mint(w) ==
    LET k == req[w].row IN
    /\ At(w, "mint") /\ minted < MaxSecrets
    /\ minted' = minted + 1
    /\ tokens' = Append(tokens, [email |-> codes[k].email, client |-> codes[k].client,
         scope |-> codes[k].scope, secret |-> minted + 1, accessOver |-> FALSE, refreshOver |-> FALSE,
         revoked |-> FALSE, code |-> k, born |-> removals[codes[k].email]])
    /\ Become(w, Replying(codes[k].client))
    /\ UNCHANGED <<known, scope, removals, codes, held, session, cutShort>>

Refresh(w, c, i) ==
    /\ At(w, "idle")
    /\ tokens[i].secret \in held[c] /\ tokens[i].client = c
    /\ ~tokens[i].revoked /\ ~tokens[i].refreshOver
    /\ Become(w, [Idle EXCEPT !.pc = "rotate", !.client = c, !.row = i])
    /\ UNCHANGED <<tables, minted, held, session, cutShort>>

Rotated(t) == [t EXCEPT !.secret = minted + 1, !.accessOver = FALSE]

\* UPDATE by id, whatever happened to the row since it was read
Rotate(w) ==
    /\ At(w, "rotate") /\ minted < MaxSecrets
    /\ minted' = minted + 1
    /\ tokens' = [tokens EXCEPT ![req[w].row] = Rotated(@)]
    /\ Become(w, Replying(req[w].client))
    /\ UNCHANGED <<known, scope, removals, codes, held, session, cutShort>>

FaultyAnswer(w) == {req[w].secret - 1}     \* the secret before it

Answer(w) == {req[w].secret}

Reply(w) ==
    /\ At(w, "reply") /\ Finish(w)
    /\ held' = [held EXCEPT ![req[w].client] = @ \cup Answer(w)]
    /\ UNCHANGED <<tables, minted, session, cutShort>>

(***************************************************************************)
(* A call of a tool: authFromBearer, then the session of the client.       *)
(***************************************************************************)
\* from here on the calls of the client overlap if there is another one
Bearer(w, c, i) ==
    LET e == tokens[i].email IN
    /\ At(w, "idle")
    /\ tokens[i].secret \in held[c] /\ ~tokens[i].revoked /\ ~tokens[i].accessOver
    /\ req' = [v \in Workers |->
         IF v = w THEN [Idle EXCEPT !.pc = "lookup", !.email = e, !.client = c, !.row = i,
                                    !.seen = {scope[e]} \ {NoScope}, !.alone = (Calls(c) = {})]
         ELSE IF v \in Calls(c) THEN [req[v] EXCEPT !.alone = FALSE] ELSE req[v]]
    /\ UNCHANGED <<tables, minted, held, session, cutShort>>

FaultyLiveScope(w) == tokens[req[w].row].scope      \* what the consent was for

LiveScope(w) == scope[req[w].email]

\* findAdminByEmail: the live row decides, not what the token was made with
Lookup(w) ==
    /\ At(w, "lookup")
    /\ IF scope[req[w].email] = NoScope
       THEN Finish(w)
       ELSE Become(w, [req[w] EXCEPT !.pc = "body", !.scope = LiveScope(w)])
    /\ UNCHANGED <<tables, minted, held, session, cutShort>>

\* the body is read; a new session, or the session of the client: its scope is
\* that of whichever call came here last
Enter(w) ==
    /\ At(w, "body")
    /\ session' = [session EXCEPT ![req[w].client] = req[w].scope]
    /\ Become(w, [req[w] EXCEPT !.pc = "tool"])
    /\ UNCHANGED <<tables, minted, held, cutShort>>

\* whose events a scope lets see
Visible(s) == IF s = All THEN Scopes \ {All} ELSE {s} \ {NoScope}

\* list_events, guest_list, pending_reviews and export_csv read the events of the
\* session's scope, whatever the token was that came with the call
Reached(w) == Visible(session[req[w].client])

Tool(w) ==
    /\ At(w, "tool") /\ Finish(w)
    /\ UNCHANGED <<tables, minted, held, session, cutShort>>

CloseSession(c) ==
    /\ session[c] # NoScope /\ Calls(c) = {}
    /\ session' = [session EXCEPT ![c] = NoScope]
    /\ UNCHANGED <<tables, minted, held, req, cutShort>>

(***************************************************************************)
(* Time and restarts.  The tools' process keeps its sessions in memory.    *)
(***************************************************************************)
Expire ==
    /\ \/ \E k \in DOMAIN codes : ~codes[k].over /\ codes' = [codes EXCEPT ![k].over = TRUE]
                                  /\ UNCHANGED tokens
       \/ \E i \in DOMAIN tokens :
            /\ tokens' \in {[tokens EXCEPT ![i].accessOver = TRUE],
                            [tokens EXCEPT ![i].accessOver = TRUE, ![i].refreshOver = TRUE]}
            /\ UNCHANGED codes
    /\ UNCHANGED <<known, scope, removals, minted, held, session, req, cutShort>>

Stopped(pcs) == [w \in Workers |-> IF req[w].pc \in pcs THEN Idle ELSE req[w]]

RestartApi ==
    /\ req' = Stopped(Steps \ (Calling \cup Pages))
    /\ cutShort' = (cutShort \/ \E w \in Workers : req[w].pc \in {"cut", "reply"})
    /\ UNCHANGED <<tables, minted, held, session>>

RestartMcp ==
    /\ req' = Stopped(Calling) /\ session' = [c \in Clients |-> NoScope]
    /\ UNCHANGED <<tables, minted, held, cutShort>>

Next ==
    \/ \E e \in Emails, s \in Scopes : Invite(e, s)
    \/ \E w \in Workers, e \in Emails : Overview(w, e)
    \/ \E c \in Clients : RegisterClient(c)
    \/ \E w \in Workers, e \in Emails, c \in Clients : AskConsent(w, e, c)
    \/ \E w \in Workers, approve \in BOOLEAN : Decide(w, approve)
    \/ \E w \in Workers, k \in DOMAIN codes : Exchange(w, k)
    \/ \E w \in Workers, c \in Clients, i \in DOMAIN tokens : Refresh(w, c, i) \/ Bearer(w, c, i)
    \/ \E w \in Workers :
         \/ RevokeRead(w) \/ RevokeAdmin(w) \/ Cut(w) \/ Consent(w) \/ Spend(w) \/ Mint(w) \/ Rotate(w) \/ Reply(w)
         \/ Lookup(w) \/ Enter(w) \/ Tool(w)
    \/ \E i \in DOMAIN tokens : RevokeToken(i)
    \/ \E c \in Clients : CloseSession(c)
    \/ Expire
    \/ RestartApi
    \/ RestartMcp

Spec == Init /\ [][Next]_vars
-----------------------------------------------------------------------------
(***************************************************************************)
(* Properties.                                                             *)
(***************************************************************************)
\* Every variable keeps its type, and clients have only secrets that were made.
TypeOK ==
    /\ scope \in [Emails -> Scopes \cup {NoScope}] /\ removals \in [Emails -> Nat] /\ known \subseteq Clients
    /\ codes \in Seq(Codes) /\ tokens \in Seq(Tokens) /\ minted \in Nat
    /\ held \in [Clients -> SUBSET (1 .. minted)] /\ session \in [Clients -> Scopes \cup {NoScope}]
    /\ req \in [Workers -> Requests] /\ cutShort \in BOOLEAN
    /\ \A w \in Workers :
         /\ req[w].pc \in {"spend", "mint"} => req[w].row \in DOMAIN codes
         /\ req[w].pc \in {"rotate", "lookup"} => req[w].row \in DOMAIN tokens

\* The variables keep their types, and a consent gives one row of tokens at most,
\* however often and by however many requests its code is exchanged.
OneGrantPerConsent ==
    /\ TypeOK
    /\ \A i, j \in DOMAIN tokens : tokens[i].code = tokens[j].code => i = j
    /\ \A w \in Workers : At(w, "mint") =>
         /\ codes[req[w].row].consumed
         /\ \A i \in DOMAIN tokens : tokens[i].code # req[w].row
         /\ \A v \in Workers \ {w} : At(v, "mint") => req[v].row # req[w].row
    /\ \A i \in DOMAIN tokens :
         tokens[i].code \in DOMAIN codes /\ codes[tokens[i].code].consumed

\* Removing an organizer kills every token the address had then, whatever is
\* refreshed meanwhile, unless the process dies between the two statements.
RemovalKillsTokens ==
    \A i \in DOMAIN tokens :
        tokens[i].born < removals[tokens[i].email] =>
            \/ tokens[i].revoked
            \/ \E w \in Workers : At(w, "cut") /\ req[w].email = tokens[i].email
            \/ cutShort

\* The client of a grant has its current secret, or is being sent it: refreshes
\* that overtake each other do not lock it out; only a lost answer does.
ClientKeepsUp ==
    \A i \in DOMAIN tokens :
        \/ tokens[i].secret \in held[tokens[i].client]
        \/ \E w \in Workers :
             At(w, "reply") /\ req[w].secret = tokens[i].secret /\ req[w].client = tokens[i].client
        \/ cutShort

\* A tool call that no other call of its session overlaps reads only events that
\* the owner of the token could see at some moment since the call began.
ToolInScope ==
    \A w \in Workers :
        At(w, "tool") /\ req[w].alone => Reached(w) \subseteq UNION {Visible(s) : s \in req[w].seen}
=============================================================================
