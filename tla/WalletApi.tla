------------------------------ MODULE WalletApi ------------------------------
(***************************************************************************)
(* "Save to Google Wallet": googleWalletSaveUrl of lib/wallet/google.ts    *)
(* and the caches of lib/wallet/google-api.ts - the access token, the last *)
(* class body that Google took, and a promise for each request in flight   *)
(* that later callers share.  Google and the network are modelled from how *)
(* the client uses them: a request that timed out may still take effect.   *)
(*                                                                         *)
(* One event, whose class body is the number of its edits; tokens are      *)
(* numbered as they are issued.  Building and signing passes is left out.  *)
(***************************************************************************)
EXTENDS Integers

CONSTANTS
    Callers,        \* requests for a save link
    MaxEdits,       \* bound on class bodies the event has
    MaxTokens,      \* bound on tokens Google issues
    MaxClicks       \* bound on requests for a link

ASSUME WalletAssumption == MaxEdits \in Nat \ {0} /\ {MaxTokens, MaxClicks} \subseteq Nat

VARIABLES
    title,          \* the class body as the event has it now
    cached,         \* the token in the cache, 0 if none
    fetching,       \* tokenInFlight has a promise
    upserted,       \* upsertedClasses: the body in the cache, 0 if none
    inFlight,       \* upsertInFlight: bodies with a promise
    call,           \* what each caller waits for
    class,          \* the body Google has, 0 if none
    dead,           \* tokens Google accepts no more
    issued, clicks,
    refused,        \* history: tokens a 401 came back for
    crossed         \* history: upserts overlapped, or one timed out

caches == <<cached, fetching, upserted, inFlight>>
google == <<class, dead, issued>>
vars == <<title, caches, call, google, clicks, refused, crossed>>

\* "posted" and "put" are at Google's, "made", "exists", "denied" are on the way back
Working == {"post", "made", "exists", "put", "denied"}
Steps == {"idle", "fetch", "token", "upsert", "class"} \cup Working
Calls == [pc: Steps, body: Nat, token: Nat]
Idle == [pc |-> "idle", body |-> 0, token |-> 0]

At(c, pc) == call[c].pc = pc
Step(c, pc) == call' = [call EXCEPT ![c].pc = pc]
Waiting(pc, b) == {c \in Callers : At(c, pc) /\ call[c].body = b}

(***************************************************************************)
(* googleWalletSaveUrl, accessToken.  The definitions called Faulty... are *)
(* wrong on purpose and stand in for the one below them when a property is *)
(* tested.                                                                 *)
(***************************************************************************)
FaultyUsable == cached # 0 \/ fetching      \* the promise taken for its token

Usable == cached # 0

\* loadPassRow, then the token: cached, somebody else's promise, or a request
Click(c) ==
    /\ At(c, "idle") /\ clicks < MaxClicks
    /\ clicks' = clicks + 1
    /\ call' = [call EXCEPT ![c] =
         [pc |-> IF Usable THEN "upsert" ELSE IF fetching THEN "token" ELSE "fetch",
          body |-> title, token |-> cached]]
    /\ fetching' = (fetching \/ ~Usable)
    /\ UNCHANGED <<title, cached, upserted, inFlight, google, refused, crossed>>

\* everybody who waits for the promise gets its token
TokenComes(c) ==
    /\ At(c, "fetch") /\ issued < MaxTokens
    /\ issued' = issued + 1 /\ cached' = issued + 1 /\ fetching' = FALSE
    /\ call' = [d \in Callers |-> IF d = c \/ At(d, "token")
                                  THEN [call[d] EXCEPT !.pc = "upsert", !.token = issued + 1]
                                  ELSE call[d]]
    /\ UNCHANGED <<title, upserted, inFlight, class, dead, clicks, refused, crossed>>

FaultyDropped == fetching       \* cleared on success only

Dropped == FALSE

\* a timeout, a refusal, an answer without a token: all of them get a 503
TokenFails(c) ==
    /\ At(c, "fetch")
    /\ fetching' = Dropped
    /\ call' = [d \in Callers |-> IF d = c \/ At(d, "token") THEN Idle ELSE call[d]]
    /\ UNCHANGED <<title, cached, upserted, inFlight, google, clicks, refused, crossed>>

(***************************************************************************)
(* upsertEventTicketClass.                                                 *)
(***************************************************************************)
Upsert(c) ==
    LET b == call[c].body IN
    /\ At(c, "upsert")
    /\ IF upserted = b THEN call' = [call EXCEPT ![c] = Idle] /\ UNCHANGED <<inFlight, crossed>>
       ELSE IF b \in inFlight THEN Step(c, "class") /\ UNCHANGED <<inFlight, crossed>>
       ELSE /\ Step(c, "post") /\ inFlight' = inFlight \cup {b}
            /\ crossed' = (crossed \/ inFlight # {})
    /\ UNCHANGED <<title, cached, fetching, upserted, google, clicks, refused>>

\* the promise of body b settles: it leaves the map, and who waited is answered
Settle(c) ==
    /\ inFlight' = inFlight \ {call[c].body}
    /\ call' = [d \in Callers |-> IF d = c \/ d \in Waiting("class", call[c].body) THEN Idle ELSE call[d]]

\* Google takes the POST or the PUT
Arrives(c) ==
    /\ call[c].pc \in {"post", "put"}
    /\ LET answer == IF call[c].token \in dead THEN "denied"
                     ELSE IF At(c, "post") /\ class # 0 THEN "exists" ELSE "made"
       IN  Step(c, answer) /\ class' = IF answer = "made" THEN call[c].body ELSE class
    /\ UNCHANGED <<title, caches, dead, issued, clicks, refused, crossed>>

FaultyAccepted(c) == title      \* the body as it is by now

Accepted(c) == call[c].body

AnswerMade(c) ==
    /\ At(c, "made") /\ Settle(c)
    /\ upserted' = Accepted(c)
    /\ UNCHANGED <<title, cached, fetching, google, clicks, refused, crossed>>

AnswerExists(c) ==
    /\ At(c, "exists") /\ Step(c, "put")
    /\ UNCHANGED <<title, caches, google, clicks, refused, crossed>>

FaultyKeep(c) == cached     \* a 401 is a failure like any other

\* whatever token is in the cache by now
Keep(c) == 0

AnswerDenied(c) ==
    /\ At(c, "denied") /\ Settle(c)
    /\ cached' = Keep(c) /\ refused' = refused \cup {call[c].token}
    /\ UNCHANGED <<title, fetching, upserted, google, clicks, crossed>>

\* no answer in time, or an error: what was on its way may have been taken
TimesOut(c) ==
    /\ call[c].pc \in Working /\ Settle(c)
    /\ crossed' = TRUE
    /\ UNCHANGED <<title, cached, fetching, upserted, google, clicks, refused>>

\* a POST or PUT whose caller has given up
Stray(b) ==
    /\ crossed /\ b \in 1 .. title /\ class' = b
    /\ UNCHANGED <<title, caches, call, dead, issued, clicks, refused, crossed>>

(***************************************************************************)
(* Edits, time, the service account, a restart.                            *)
(***************************************************************************)
EditTitle ==
    /\ title < MaxEdits /\ title' = title + 1
    /\ UNCHANGED <<caches, call, google, clicks, refused, crossed>>

\* a minute before it ends a cached token is not used any more
Expire ==
    /\ cached # 0 /\ cached' = 0
    /\ UNCHANGED <<title, fetching, upserted, inFlight, call, google, clicks, refused, crossed>>

\* keys rotated: the tokens issued so far are refused from now on
Rotate ==
    /\ dead # 1 .. issued /\ dead' = 1 .. issued
    /\ UNCHANGED <<title, caches, call, class, issued, clicks, refused, crossed>>

Restart ==
    /\ cached' = 0 /\ fetching' = FALSE /\ upserted' = 0 /\ inFlight' = {}
    /\ crossed' = (crossed \/ inFlight # {}) /\ call' = [c \in Callers |-> Idle]
    /\ UNCHANGED <<title, google, clicks, refused>>

Init ==
    /\ title = 1 /\ cached = 0 /\ fetching = FALSE /\ upserted = 0 /\ inFlight = {}
    /\ call = [c \in Callers |-> Idle]
    /\ class = 0 /\ dead = {} /\ issued = 0 /\ clicks = 0 /\ refused = {} /\ crossed = FALSE

Answer(c) == TokenFails(c) \/ TokenComes(c) \/ Upsert(c) \/ AnswerMade(c) \/ AnswerExists(c)
             \/ AnswerDenied(c) \/ TimesOut(c)

Next ==
    \/ \E c \in Callers : Click(c) \/ Answer(c) \/ Arrives(c)
    \/ \E b \in 1 .. MaxEdits : Stray(b)
    \/ EditTitle \/ Expire \/ Rotate \/ Restart

Spec == Init /\ [][Next]_vars
-----------------------------------------------------------------------------
(***************************************************************************)
(* Properties.                                                             *)
(***************************************************************************)
\* Every variable keeps its type, and who calls Google has a token.
TypeOK ==
    /\ title \in 1 .. MaxEdits /\ cached \in 0 .. issued /\ fetching \in BOOLEAN
    /\ upserted \in 0 .. title /\ inFlight \subseteq 1 .. title /\ call \in [Callers -> Calls]
    /\ class \in 0 .. title /\ dead \subseteq 1 .. issued /\ issued \in 0 .. MaxTokens
    /\ clicks \in 0 .. MaxClicks /\ refused \subseteq 1 .. issued /\ crossed \in BOOLEAN
    /\ \A c \in Callers : call[c].pc \in Working \cup {"upsert", "class"} => call[c].token \in 1 .. issued

\* With no upsert under way, the body the cache remembers is the one Google has, so
\* that a click that costs no request is right, unless upserts overlapped or one of
\* them timed out once; and a token that a 401 came back for is not there for the next click.
CachesTrue ==
    /\ crossed \/ inFlight # {} \/ upserted \in {0, class}
    /\ cached \notin refused

\* The variables keep their types, and a promise in either map belongs to exactly one request under way: no caller
\* joins one that has settled, and no body is sent twice at once.
PromisesLive ==
    /\ TypeOK
    /\ fetching = (\E c \in Callers : At(c, "fetch"))
    /\ \A c, d \in Callers : At(c, "fetch") /\ At(d, "fetch") => c = d
    /\ \A b \in inFlight : \E c \in Callers : call[c].pc \in Working /\ call[c].body = b
    /\ \A c, d \in Callers :
         call[c].pc \in Working /\ call[d].pc \in Working /\ call[c].body = call[d].body => c = d
=============================================================================
