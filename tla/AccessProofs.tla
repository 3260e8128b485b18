----------------------------- MODULE AccessProofs -----------------------------
(***************************************************************************)
(* What the gate of Access keeps for every set of guests, codes and        *)
(* requests, and for every limit and window.                               *)
(***************************************************************************)
EXTENDS Access, TLAPS

\* What a request in flight knows is justified: by what its caller was entitled to
\* at some moment, and, for a refusal, by a title the caller did not keep.
Fit(r) ==
    r.pc # "idle" =>
      /\ r.who \in Guests
      /\ Entitled(Now, r.kind, r.who, r.code) => r.fit
      /\ r.pc # "row" /\ r.kind # "browse" /\ (r.seen.model # "invite" \/ Opens(r.seen, r.code)) => r.fit
      /\ r.kind # "browse" /\ (r.mine \/ r.holds) => r.fit
      /\ r.granted => r.fit
      /\ r.pc = "signup" => r.kind \in {"page", "browse"}
      /\ r.pc = "passes" => r.kind \in {"page", "calendar"}
      /\ r.pc = "gate" => r.kind # "browse"
      /\ r.pc = "save" => r.kind = "register" /\ r.granted
      /\ r.kept \subseteq Titles(Now, r.kind, r.who)
      /\ r.pc \in {"passes", "gate"} /\ r.kind = "page" /\ "signup" \in r.kept => r.mine
      /\ r.pc = "gate" /\ r.kind = "calendar" /\ r.kept # {} => r.holds
      /\ r.pc = "gate" /\ r.kind = "page" /\ r.seen.model = "invite" /\ ~ r.mine /\ r.kept # {} => r.holds
      /\ /\ r.pc = "answer" /\ ~ r.granted /\ r.kind \in {"page", "calendar"}
         /\ r.kind = "page" \/ r.seen.status = "published"
         => r.kept = {}

\* The bucket has counted every code that was judged.
BucketFits ==
    /\ judged <= bucket.count
    /\ bucket.resetAt > clock => judged <= Limit

Inv == TypeOK /\ BucketFits /\ \A w \in Workers : Fit(req[w])

ClubTypes ==
    /\ event \in Events /\ signup \in [Guests -> Signups]
    /\ pass \in [Guests -> Passes] /\ plusOne \in [Guests -> Passes]

AllTitles == {"signup", "pass", "plusOne"}

-----------------------------------------------------------------------------
LEMMA TitlesTyped ==
    ASSUME NEW s, NEW kind \in Kinds, NEW g
    PROVE  /\ Titles(s, kind, g) \in SUBSET AllTitles
           /\ kind \in {"register", "browse"} => Titles(s, kind, g) = {}
           /\ kind = "calendar" => Titles(s, kind, g) \subseteq {"pass", "plusOne"}
BY DEF Titles, Kinds, AllTitles

\* The titles a guest has now.
LEMMA TitlesNow ==
    ASSUME NEW g, NEW kind \in Kinds
    PROVE  /\ "pass" \in Titles(Now, kind, g) <=> kind \in {"page", "calendar"} /\ pass[g] = "live"
           /\ "plusOne" \in Titles(Now, kind, g) <=> kind \in {"page", "calendar"} /\ plusOne[g] = "live"
           /\ "signup" \in Titles(Now, kind, g) <=> kind = "page" /\ signup[g] \in {"pending", "approved"}
BY DEF Titles, Now, Kinds

LEMMA EntitledNow ==
    ASSUME NEW g, NEW kind, NEW c
    PROVE  Entitled(Now, kind, g, c) <=>
             event.model # "invite" \/ Opens(event, c) \/ Titles(Now, kind, g) # {}
BY DEF Entitled, Now

LEMMA IdleFits == Idle \in Requests /\ Idle.pc = "idle" /\ Fit(Idle)
BY DEF Idle, Requests, Events, Kinds, Fit

\* What a change of the club makes of a request in flight.
LEMMA WitnessedFields ==
    ASSUME NEW r \in Requests, NEW s, r.pc # "idle", NEW q, q = Witnessed(r, s)
    PROVE  /\ q \in Requests
           /\ q.pc = r.pc /\ q.kind = r.kind /\ q.who = r.who /\ q.code = r.code /\ q.seen = r.seen
           /\ q.mine = r.mine /\ q.holds = r.holds /\ q.granted = r.granted
           /\ q.fit = (r.fit \/ Entitled(s, r.kind, r.who, r.code))
           /\ q.kept = r.kept \cap Titles(s, r.kind, r.who)
<1>1. PICK b \in BOOLEAN : b = (r.fit \/ Entitled(s, r.kind, r.who, r.code))
  OBVIOUS
<1>2. PICK t \in SUBSET AllTitles : t = r.kept \cap Titles(s, r.kind, r.who)
  BY DEF Requests, AllTitles
<1>3. q = [r EXCEPT !.fit = b, !.kept = t]
  BY <1>1, <1>2 DEF Witnessed
<1>4. /\ q \in Requests
      /\ q.pc = r.pc /\ q.kind = r.kind /\ q.who = r.who /\ q.code = r.code /\ q.seen = r.seen
      /\ q.mine = r.mine /\ q.holds = r.holds /\ q.granted = r.granted
      /\ q.fit = b /\ q.kept = t
  BY <1>3 DEF Requests, AllTitles
<1> QED BY <1>1, <1>2, <1>4

\* Requests live through a change of the club.
LEMMA WitnessedFits ==
    ASSUME NEW r \in Requests, Fit(r), NEW q, q = Witnessed(r, Now')
    PROVE  q \in Requests /\ Fit(q)'
<1>1. CASE r.pc = "idle"
  BY <1>1 DEF Witnessed, Fit
<1>2. CASE r.pc # "idle"
  <2>1. /\ q \in Requests
        /\ q.pc = r.pc /\ q.kind = r.kind /\ q.who = r.who /\ q.code = r.code /\ q.seen = r.seen
        /\ q.mine = r.mine /\ q.holds = r.holds /\ q.granted = r.granted
        /\ q.fit = (r.fit \/ Entitled(Now', r.kind, r.who, r.code))
        /\ q.kept = r.kept \cap Titles(Now', r.kind, r.who)
    BY <1>2, WitnessedFields
  <2>2. Entitled(Now, r.kind, r.who, r.code)' <=> Entitled(Now', r.kind, r.who, r.code)
    BY DEF Entitled, Titles
  <2>3. Titles(Now, r.kind, r.who)' = Titles(Now', r.kind, r.who)
    BY DEF Titles
  <2>4. q.kept \subseteq r.kept
    BY <2>1
  <2> QED BY <1>2, <2>1, <2>2, <2>3, <2>4 DEF Fit
<1> QED BY <1>1, <1>2

\* A step of one request that leaves the club as it is.
LEMMA RequestStep ==
    ASSUME TypeOK, \A v \in Workers : Fit(req[v]), UNCHANGED club,
           NEW w \in Workers, NEW r \in Requests, Fit(r), req' = [req EXCEPT ![w] = r]
    PROVE  req' \in [Workers -> Requests] /\ \A v \in Workers : Fit(req[v])'
<1>1. Now' = Now
  BY DEF Now, club
<1>2. \A v \in Workers : req'[v] = req[v] \/ req'[v] = r
  BY DEF TypeOK
<1>3. \A q : Fit(q) => Fit(q)'
  BY <1>1 DEF Fit, Entitled
<1>4. ASSUME NEW v \in Workers PROVE Fit(req[v])'
  <2>1. PICK q : q = req'[v] /\ Fit(q)
    BY <1>2
  <2> QED BY <1>3, <2>1 DEF Fit
<1> QED BY <1>4 DEF TypeOK

-----------------------------------------------------------------------------
\* The steps of the handlers, each on its own request.
Advances(w) == \E r \in Requests : Fit(r) /\ req' = [req EXCEPT ![w] = r]

LEMMA SendStep ==
    ASSUME TypeOK, NEW w \in Workers, NEW kind \in Kinds, NEW g \in Guests, NEW c \in Codes \cup {None},
           Send(w, kind, g, c)
    PROVE  Advances(w) /\ calls' \in Nat
<1>1. PICK b \in BOOLEAN : b = Entitled(Now, kind, g, c)
  BY DEF Entitled
<1>2. PICK t \in SUBSET AllTitles : t = Titles(Now, kind, g)
  BY TitlesTyped
<1> DEFINE r == [Idle EXCEPT !.pc = "row", !.kind = kind, !.who = g, !.code = c, !.fit = b, !.kept = t]
<1>3. /\ r \in Requests /\ r.pc = "row" /\ r.kind = kind /\ r.who = g /\ r.code = c /\ r.fit = b /\ r.kept = t
      /\ ~ r.mine /\ ~ r.holds /\ ~ r.granted
  BY IdleFits DEF Idle, Requests, AllTitles
<1>4. req' = [req EXCEPT ![w] = r]
  BY <1>1, <1>2 DEF Send
<1> HIDE DEF r
<1>5. Fit(r)
  BY <1>1, <1>2, <1>3 DEF Fit
<1>6. calls' \in Nat
  BY DEF Send, TypeOK
<1> QED BY <1>3, <1>4, <1>5, <1>6 DEF Advances

LEMMA ReadEventStep ==
    ASSUME TypeOK, NEW w \in Workers, Fit(req[w]), ReadEvent(w)
    PROVE  Advances(w)
<1> DEFINE o == req[w]
           pc == IF o.kind # "page" /\ event.status # "published" THEN "answer"
                 ELSE CASE o.kind = "page" -> "signup" [] o.kind = "calendar" -> "passes" [] OTHER -> "gate"
           r == [o EXCEPT !.seen = event, !.pc = pc]
<1>1. o \in Requests /\ event \in Events /\ o.pc = "row" /\ o.kind # "browse"
  BY DEF TypeOK, ReadEvent, At
<1>2. /\ pc \in {"answer", "signup", "passes", "gate"}
      /\ pc = "answer" => o.kind # "page" /\ event.status # "published"
      /\ pc = "signup" => o.kind = "page"
      /\ pc = "passes" => o.kind = "calendar"
      /\ pc = "gate" => o.kind = "register"
  BY <1>1 DEF Requests, Kinds
<1>3. req' = [req EXCEPT ![w] = r]
  BY DEF ReadEvent
<1> HIDE DEF pc
<1>4. /\ r \in Requests /\ r.pc = pc /\ r.seen = event /\ r.kind = o.kind /\ r.who = o.who /\ r.code = o.code
      /\ r.mine = o.mine /\ r.holds = o.holds /\ r.granted = o.granted /\ r.fit = o.fit /\ r.kept = o.kept
  BY <1>1, <1>2 DEF Requests
<1> HIDE DEF r
<1>5. Fit(r)
  BY <1>1, <1>2, <1>4, EntitledNow DEF Fit
<1> QED BY <1>3, <1>4, <1>5 DEF Advances

LEMMA ListSteps ==
    ASSUME TypeOK, NEW w \in Workers, Fit(req[w]), ReadList(w) \/ ListSignup(w)
    PROVE  Advances(w)
<1>1. req[w] \in Requests /\ req \in [Workers -> Requests] /\ req[w].kind = "browse"
  BY DEF TypeOK, ReadList, ListSignup
<1>2. CASE ReadList(w)
  <2>1. PICK b \in BOOLEAN : b = Listed
    BY DEF Listed
  <2> DEFINE pc == IF b THEN "signup" ELSE "answer"
             r == [req[w] EXCEPT !.granted = b, !.pc = pc]
  <2>2. req' = [req EXCEPT ![w] = r]
    BY <1>1, <1>2, <2>1 DEF ReadList
  <2>3. /\ r \in Requests /\ r.pc = pc /\ r.granted = b
        /\ r.kind = req[w].kind /\ r.who = req[w].who /\ r.code = req[w].code
        /\ r.fit = req[w].fit /\ r.kept = req[w].kept
    BY <1>1 DEF Requests
  <2>4. b => Entitled(Now, req[w].kind, req[w].who, req[w].code)
    BY <2>1, EntitledNow DEF Listed
  <2> HIDE DEF r
  <2>5. Fit(r)
    BY <1>1, <1>2, <2>3, <2>4 DEF Fit, ReadList, At
  <2> QED BY <2>2, <2>3, <2>5 DEF Advances
<1>3. CASE ListSignup(w)
  <2>1. PICK b \in BOOLEAN : b = Live(req[w].who)
    <3>1. Live(req[w].who) \in BOOLEAN
      BY DEF Live
    <3> QED BY <3>1
  <2> DEFINE r == [req[w] EXCEPT !.mine = b, !.pc = "answer"]
  <2>2. req' = [req EXCEPT ![w] = r]
    BY <1>1, <1>3, <2>1 DEF ListSignup
  <2>3. /\ r \in Requests /\ r.pc = "answer" /\ r.granted = req[w].granted
        /\ r.kind = req[w].kind /\ r.who = req[w].who /\ r.code = req[w].code
        /\ r.fit = req[w].fit /\ r.kept = req[w].kept
    BY <1>1 DEF Requests
  <2> HIDE DEF r
  <2>5. Fit(r)
    BY <1>1, <1>3, <2>3 DEF Fit, ListSignup, At
  <2> QED BY <2>2, <2>3, <2>5 DEF Advances
<1> QED BY <1>2, <1>3

LEMMA ReadSignupStep ==
    ASSUME TypeOK, NEW w \in Workers, Fit(req[w]), ReadSignup(w)
    PROVE  Advances(w)
<1> DEFINE o == req[w]
<1>1. o \in Requests /\ o.pc = "signup" /\ o.kind = "page" /\ o.who \in Guests
  BY DEF TypeOK, ReadSignup, At, Fit
<1>2. PICK b \in BOOLEAN : b = Mine(o.who)
  <2>1. Mine(o.who) \in BOOLEAN
    BY DEF Mine, Live
  <2> QED BY <2>1
<1> DEFINE pc == IF o.seen.model = "invite" /\ ~ b THEN "passes" ELSE "gate"
           r == [o EXCEPT !.mine = b, !.pc = pc]
<1>3. req' = [req EXCEPT ![w] = r]
  BY <1>2 DEF ReadSignup, TypeOK
<1>4. /\ r \in Requests /\ r.pc = pc /\ r.mine = b /\ r.seen = o.seen /\ r.kind = o.kind /\ r.who = o.who
      /\ r.code = o.code /\ r.holds = o.holds /\ r.granted = o.granted /\ r.fit = o.fit /\ r.kept = o.kept
  BY <1>1 DEF Requests
<1>5. b <=> "signup" \in Titles(Now, o.kind, o.who)
  BY <1>1, <1>2, TitlesNow DEF Mine, Live, Kinds
<1>6. b => o.fit
  BY <1>1, <1>5, EntitledNow DEF Fit
<1>7. o.kept \subseteq Titles(Now, o.kind, o.who) /\ Titles(Now, o.kind, o.who) \subseteq AllTitles
  BY <1>1, TitlesTyped DEF Fit, Requests
<1> HIDE DEF r
<1>8. Fit(r)
  BY <1>1, <1>4, <1>5, <1>6, <1>7 DEF Fit
<1> QED BY <1>3, <1>4, <1>8 DEF Advances

LEMMA ReadPassesStep ==
    ASSUME TypeOK, NEW w \in Workers, Fit(req[w]), ReadPasses(w)
    PROVE  Advances(w)
<1> DEFINE o == req[w]
<1>1. o \in Requests /\ o.pc = "passes" /\ o.kind \in {"page", "calendar"} /\ o.who \in Guests
  BY DEF TypeOK, ReadPasses, At, Fit
<1>2. PICK b \in BOOLEAN : b = Holds(o.who)
  <2>1. Holds(o.who) \in BOOLEAN
    BY DEF Holds
  <2> QED BY <2>1
<1> DEFINE r == [o EXCEPT !.holds = b, !.pc = "gate"]
<1>3. req' = [req EXCEPT ![w] = r]
  BY <1>2 DEF ReadPasses, TypeOK
<1>4. /\ r \in Requests /\ r.pc = "gate" /\ r.holds = b /\ r.mine = o.mine /\ r.seen = o.seen /\ r.kind = o.kind
      /\ r.who = o.who /\ r.code = o.code /\ r.granted = o.granted /\ r.fit = o.fit /\ r.kept = o.kept
  BY <1>1 DEF Requests
<1>5. b <=> "pass" \in Titles(Now, o.kind, o.who) \/ "plusOne" \in Titles(Now, o.kind, o.who)
  BY <1>1, <1>2, TitlesNow DEF Holds, Kinds
<1>6. b => o.fit
  BY <1>1, <1>5, EntitledNow DEF Fit
<1>7. /\ o.kept \subseteq Titles(Now, o.kind, o.who) /\ Titles(Now, o.kind, o.who) \subseteq AllTitles
      /\ o.kind = "calendar" => "signup" \notin o.kept
  BY <1>1, TitlesTyped DEF Fit, Requests
<1>8. o.kept # {} => "signup" \in o.kept \/ b
  BY <1>5, <1>7 DEF AllTitles
<1> HIDE DEF r
<1>9. Fit(r)
  BY <1>1, <1>4, <1>6, <1>7, <1>8 DEF Fit
<1> QED BY <1>3, <1>4, <1>9 DEF Advances

LEMMA GateStep ==
    ASSUME TypeOK, NEW w \in Workers, Fit(req[w]), Gate(w)
    PROVE  Advances(w)
<1> DEFINE o == req[w]
<1>1. o \in Requests /\ o.pc = "gate" /\ o.kind # "browse" /\ o.who \in Guests
  BY DEF TypeOK, Gate, At, Fit
<1>2. PICK b \in BOOLEAN : b = Granted(o)
  BY DEF Granted
<1> DEFINE pc == IF o.kind = "register" /\ b THEN "save" ELSE "answer"
           r == [o EXCEPT !.granted = b, !.pc = pc]
<1>3. req' = [req EXCEPT ![w] = r]
  BY <1>2 DEF Gate, TypeOK
<1>4. /\ r \in Requests /\ r.pc = pc /\ r.granted = b /\ r.holds = o.holds /\ r.mine = o.mine /\ r.seen = o.seen
      /\ r.kind = o.kind /\ r.who = o.who /\ r.code = o.code /\ r.fit = o.fit /\ r.kept = o.kept
  BY <1>1 DEF Requests
<1>5. b => o.fit
  BY <1>1, <1>2 DEF Granted, Asked, Wrong, Fit
<1>6. ~ b => o.seen.model = "invite" /\ ~ o.mine /\ ~ o.holds
  BY <1>2 DEF Granted, Asked
<1>7. ~ b /\ o.kind \in {"page", "calendar"} => o.kept = {}
  BY <1>1, <1>6 DEF Fit
<1> HIDE DEF r
<1>8. Fit(r)
  BY <1>1, <1>4, <1>5, <1>7 DEF Fit
<1> QED BY <1>3, <1>4, <1>8 DEF Advances

-----------------------------------------------------------------------------
LEMMA InitHolds == Init => Inv
<1> SUFFICES ASSUME Init PROVE Inv
  OBVIOUS
<1> USE AccessAssumption
<1>1. [typed |-> None, shows |-> "nothing", due |-> TRUE, busy |-> FALSE, told |-> FALSE, stuck |-> FALSE] \in Pages
  BY DEF Pages
<1>2. TypeOK
  BY <1>1, IdleFits DEF Init, TypeOK, Events, Signups, Passes, Buckets, Empty
<1>3. BucketFits
  BY DEF Init, BucketFits, Empty
<1>4. \A w \in Workers : Fit(req[w])
  BY IdleFits DEF Init
<1> QED BY <1>2, <1>3, <1>4 DEF Inv

\* The gate counts what it judged, and judges no more than Limit while it counts.
LEMMA BucketStep ==
    ASSUME TypeOK, BucketFits, NEW w \in Workers, Gate(w)
    PROVE  BucketFits' /\ bucket' \in Buckets /\ judged' \in Nat
<1> USE AccessAssumption
<1>1. /\ bucket \in Buckets /\ bucket.count \in Nat /\ bucket.resetAt \in Nat
      /\ judged \in Nat /\ clock \in Nat /\ Limit \in Nat \ {0} /\ Window \in Nat \ {0}
      /\ clock' = clock
  BY DEF TypeOK, Buckets, Gate
<1>2. CASE UNCHANGED <<bucket, judged>>
  BY <1>1, <1>2 DEF BucketFits
<1>3. CASE Fresh /\ bucket' = Bumped /\ judged' = 1
  BY <1>1, <1>3 DEF BucketFits, Bumped, Buckets
<1>4. CASE ~ Fresh /\ bucket' = Bumped /\ judged' = IF Exceeded THEN judged ELSE judged + 1
  <2>1. bucket' = [bucket EXCEPT !.count = @ + 1]
    BY <1>4 DEF Bumped
  <2>2. bucket' \in Buckets /\ bucket'.count = bucket.count + 1 /\ bucket'.resetAt = bucket.resetAt
    BY <1>1, <2>1 DEF Buckets
  <2>3. CASE Exceeded
    BY <1>1, <1>4, <2>2, <2>3 DEF BucketFits
  <2>4. CASE ~ Exceeded
    BY <1>1, <1>4, <2>2, <2>4 DEF BucketFits, Exceeded
  <2> QED BY <2>3, <2>4
<1> QED BY <1>2, <1>3, <1>4 DEF Gate

\* Steps that change the club: every request lives through them.
LEMMA ClubStep ==
    ASSUME Inv, Meanwhile
    PROVE  req' \in [Workers -> Requests] /\ \A w \in Workers : Fit(req[w])'
<1>1. \A w \in Workers : req[w] \in Requests /\ Fit(req[w])
  BY DEF Inv, TypeOK
<1>2. \A w \in Workers : req'[w] = Witnessed(req[w], Now')
  BY DEF Meanwhile
<1>3. \A w \in Workers : req'[w] \in Requests
  BY <1>1, <1>2, WitnessedFits
<1>4. ASSUME NEW w \in Workers PROVE Fit(req[w])'
  <2>1. PICK q : q = req'[w] /\ Fit(q)'
    BY <1>1, <1>2, WitnessedFits
  <2> QED BY <2>1 DEF Fit
<1> QED BY <1>3, <1>4 DEF Meanwhile

\* A page is left: its requests go on for nobody.
LEMMA StaleFits ==
    ASSUME NEW r \in Requests, Fit(r), UNCHANGED club, NEW q, q = r \/ q = [r EXCEPT !.stale = TRUE] \/ q = Idle
    PROVE  q \in Requests /\ Fit(q)'
<1>1. Now' = Now
  BY DEF Now, club
<1>2. CASE q = Idle
  BY <1>2, IdleFits DEF Fit
<1>3. CASE q # Idle
  <2>1. /\ q \in Requests /\ q.pc = r.pc /\ q.kind = r.kind /\ q.who = r.who /\ q.code = r.code /\ q.seen = r.seen
        /\ q.mine = r.mine /\ q.holds = r.holds /\ q.granted = r.granted /\ q.fit = r.fit /\ q.kept = r.kept
    BY <1>3 DEF Requests
  <2> QED BY <1>1, <2>1 DEF Fit, Entitled
<1> QED BY <1>2, <1>3

LEMMA StaleStep ==
    ASSUME Inv, UNCHANGED club, req' = [w \in Workers |-> req'[w]],
           \A w \in Workers : req'[w] = req[w] \/ req'[w] = [req[w] EXCEPT !.stale = TRUE] \/ req'[w] = Idle
    PROVE  req' \in [Workers -> Requests] /\ \A w \in Workers : Fit(req[w])'
<1>1. \A w \in Workers : req[w] \in Requests /\ Fit(req[w])
  BY DEF Inv, TypeOK
<1>2. \A w \in Workers : req'[w] \in Requests
  BY <1>1, StaleFits
<1>3. ASSUME NEW w \in Workers PROVE Fit(req[w])'
  <2>1. PICK q : q = req'[w] /\ Fit(q)'
    BY <1>1, StaleFits
  <2> QED BY <2>1 DEF Fit
<1> QED BY <1>2, <1>3

\* A signup is saved: the others live through it, and this one has its answer.
LEMMA SaveStep ==
    ASSUME Inv, NEW w \in Workers, Save(w)
    PROVE  Inv'
<1>0. PICK o : o = req[w]
  OBVIOUS
<1>1. o \in Requests /\ o.pc = "save" /\ o.kind = "register" /\ o.who \in Guests /\ Fit(o)
  BY <1>0 DEF Inv, TypeOK, Save, At, Fit
<1>2. PICK b \in BOOLEAN : b = (~ Live(o.who))
  OBVIOUS
<1> DEFINE r == [o EXCEPT !.pc = "answer", !.granted = b]
<1>3. req' = [v \in Workers |-> IF v = w THEN r ELSE Witnessed(req[v], Now')]
  BY <1>0, <1>2 DEF Save
<1>4. /\ r \in Requests /\ r.pc = "answer" /\ r.granted = b /\ r.holds = o.holds /\ r.mine = o.mine /\ r.seen = o.seen
      /\ r.kind = o.kind /\ r.who = o.who /\ r.code = o.code /\ r.fit = o.fit /\ r.kept = o.kept
  BY <1>1 DEF Requests
<1>5. o.fit /\ Titles(Now, o.kind, o.who) = {} /\ Titles(Now', o.kind, o.who) = {}
  BY <1>1, TitlesTyped DEF Fit, Kinds
<1>6. Titles(Now, o.kind, o.who)' = Titles(Now', o.kind, o.who)
  BY <1>1 DEF Titles
<1> HIDE DEF r
<1>7. Fit(r)'
  BY <1>1, <1>4, <1>5, <1>6 DEF Fit
<1>8. \A v \in Workers : req[v] \in Requests /\ Fit(req[v])
  BY DEF Inv, TypeOK
<1>9. req' \in [Workers -> Requests]
  BY <1>3, <1>4, <1>8, WitnessedFits
<1>10. ASSUME NEW v \in Workers PROVE Fit(req[v])'
  <2>1. PICK q : q = req'[v] /\ Fit(q)'
    BY <1>3, <1>7, <1>8, WitnessedFits
  <2> QED BY <2>1 DEF Fit
<1>11. /\ signup' \in [Guests -> Signups] /\ pass' \in [Guests -> Passes]
       /\ UNCHANGED <<event, plusOne, guard, page, calls, deeds>>
  BY DEF Save, Inv, TypeOK, Signups, Passes
<1> QED BY <1>9, <1>10, <1>11 DEF Inv, TypeOK, BucketFits, guard

\* Every action keeps the invariant.
LEMMA StepKeeps == Inv /\ [Next]_vars => Inv'
<1> SUFFICES ASSUME Inv, [Next]_vars PROVE Inv'
  OBVIOUS
<1> USE AccessAssumption
<1>1. TypeOK /\ BucketFits /\ \A w \in Workers : Fit(req[w]) /\ req[w] \in Requests
  BY DEF Inv, TypeOK
\* a step of one request
<1>2. ASSUME NEW w \in Workers, Advances(w), UNCHANGED <<club, guard, deeds>>,
             page' \in [Guests -> Pages], calls' \in Nat
      PROVE  Inv'
  <2>1. req' \in [Workers -> Requests] /\ \A v \in Workers : Fit(req[v])'
    BY <1>1, <1>2, RequestStep DEF Advances
  <2> QED BY <1>1, <1>2, <2>1 DEF Inv, TypeOK, BucketFits, club, guard
<1>3. ASSUME NEW w \in Workers,
             ReadEvent(w) \/ ReadList(w) \/ ListSignup(w) \/ ReadSignup(w) \/ ReadPasses(w)
      PROVE  Inv'
  <2>1. Advances(w)
    BY <1>1, <1>3, ReadEventStep, ListSteps, ReadSignupStep, ReadPassesStep
  <2>2. UNCHANGED <<club, guard, page, calls, deeds>>
    BY <1>3 DEF ReadEvent, ReadList, ListSignup, ReadSignup, ReadPasses
  <2> QED BY <1>1, <1>2, <2>1, <2>2 DEF TypeOK
<1>4. ASSUME NEW w \in Workers, Gate(w) PROVE Inv'
  <2>1. Advances(w) /\ BucketFits' /\ bucket' \in Buckets /\ judged' \in Nat
    BY <1>1, <1>4, GateStep, BucketStep
  <2>2. UNCHANGED <<club, clock, page, calls, deeds>>
    BY <1>4 DEF Gate
  <2>3. req' \in [Workers -> Requests] /\ \A v \in Workers : Fit(req[v])'
    BY <1>1, <2>1, <2>2, RequestStep DEF Advances
  <2> QED BY <1>1, <2>1, <2>2, <2>3 DEF Inv, TypeOK, club
<1>5. ASSUME NEW w \in Workers, HearPage(w) \/ HearCalendar(w) PROVE Inv'
  <2>1. Advances(w)
    BY <1>5, IdleFits DEF HearPage, HearCalendar, Advances
  <2>2. page' \in [Guests -> Pages]
    <3>1. CASE page' = page
      BY <1>1, <3>1 DEF TypeOK
    <3>2. CASE page' = [page EXCEPT ![req[w].who].shows = Shown(req[w])]
      <4>1. Shown(req[w]) \in {"gate", "signup", "form"}
        BY DEF Shown
      <4>2. page \in [Guests -> Pages]
        BY <1>1 DEF TypeOK
      <4>3. \A g \in Guests : [page[g] EXCEPT !.shows = Shown(req[w])] \in Pages
        BY <4>1, <4>2 DEF Pages
      <4> HIDE DEF Shown
      <4> QED BY <3>2, <4>2, <4>3
    <3> QED BY <1>5, <3>1, <3>2 DEF HearPage, HearCalendar
  <2> QED BY <1>1, <1>2, <1>5, <2>1, <2>2 DEF HearPage, HearCalendar, TypeOK
<1>6. ASSUME NEW w \in Workers, NEW g \in Guests, NEW c \in Codes \cup {None}, NEW kind \in Kinds, Send(w, kind, g, c),
             page' \in [Guests -> Pages], UNCHANGED <<club, guard, deeds>>
      PROVE  Inv'
  BY <1>1, <1>2, <1>6, SendStep
<1>7. ASSUME NEW w \in Workers, NEW g \in Guests,
             \/ Fetch(w, g) \/ AddToCalendar(w, g) \/ SignUp(w, g) \/ Browse(w, g)
             \/ \E c \in Codes : Guess(w, g, c)
      PROVE  Inv'
  <2>1. page[g].typed \in Codes \cup {None} /\ page \in [Guests -> Pages] /\ page[g] \in Pages
    BY <1>1 DEF TypeOK, Pages
  <2>2. {"page", "calendar", "register", "browse"} \subseteq Kinds
    BY DEF Kinds
  <2>3. CASE Fetch(w, g)
    <3>1. page' \in [Guests -> Pages]
      BY <2>1, <2>3 DEF Fetch, Pages
    <3> QED BY <1>6, <2>1, <2>2, <2>3, <3>1 DEF Fetch
  <2>4. CASE SignUp(w, g)
    <3>1. page' \in [Guests -> Pages]
      BY <2>1, <2>4 DEF SignUp, Pages
    <3> QED BY <1>6, <2>1, <2>2, <2>4, <3>1 DEF SignUp
  <2>5. CASE AddToCalendar(w, g)
    BY <1>6, <2>1, <2>2, <2>5 DEF AddToCalendar
  <2>6. CASE Browse(w, g)
    BY <1>6, <2>1, <2>2, <2>6 DEF Browse
  <2>7. ASSUME NEW c \in Codes, Guess(w, g, c) PROVE Inv'
    BY <1>6, <2>1, <2>2, <2>7 DEF Guess
  <2> QED BY <1>7, <2>3, <2>4, <2>5, <2>6, <2>7
\* steps that leave requests to nobody
<1>8. ASSUME UNCHANGED <<club, clock, calls>>, deeds' \in Nat, page' \in [Guests -> Pages],
             BucketFits', bucket' \in Buckets, judged' \in Nat, req' = [w \in Workers |-> req'[w]],
             \A w \in Workers : req'[w] = req[w] \/ req'[w] = [req[w] EXCEPT !.stale = TRUE] \/ req'[w] = Idle
      PROVE  Inv'
  <2>1. req' \in [Workers -> Requests] /\ \A v \in Workers : Fit(req[v])'
    BY <1>8, StaleStep
  <2> QED BY <1>1, <1>8, <2>1 DEF Inv, TypeOK, club
<1>9. ASSUME NEW w \in Workers, HearSignup(w) PROVE Inv'
  <2> DEFINE g == req[w].who
  <2>1. page' \in [Guests -> Pages]
    <3>1. req[w].granted \in BOOLEAN /\ (req[w].granted /\ Live(g)) \in BOOLEAN
      BY <1>1 DEF Requests
    <3>2. PICK a \in BOOLEAN, b \in BOOLEAN : a = req[w].granted /\ b = (req[w].granted /\ Live(g))
      BY <3>1
    <3>3. page' = [page EXCEPT ![g].busy = FALSE, ![g].due = page[g].due \/ a, ![g].told = page[g].told \/ b]
      BY <1>9, <3>2 DEF HearSignup
    <3>4. page \in [Guests -> Pages]
      BY <1>1 DEF TypeOK
    <3>5. \A h \in Guests : [page[h] EXCEPT !.busy = FALSE, !.due = @ \/ a, !.told = @ \/ b] \in Pages
      BY <3>4 DEF Pages
    <3> HIDE DEF g
    <3> QED BY <3>3, <3>4, <3>5
  <2>2. /\ req' = [v \in Workers |-> req'[v]]
        /\ \A v \in Workers : req'[v] = req[v] \/ req'[v] = [req[v] EXCEPT !.stale = TRUE] \/ req'[v] = Idle
    BY <1>1, <1>9 DEF HearSignup, Invalidated, Deserted, TypeOK
  <2>3. UNCHANGED <<club, guard, calls, deeds>>
    BY <1>9 DEF HearSignup
  <2> QED BY <1>1, <1>8, <2>1, <2>2, <2>3 DEF TypeOK, guard, BucketFits
<1>10. ASSUME NEW g \in Guests, Return(g) \/ \E c \in Codes : Type(g, c) PROVE Inv'
  <2>1. page' \in [Guests -> Pages]
    <3>1. page \in [Guests -> Pages]
      BY <1>1 DEF TypeOK
    <3>2. CASE Return(g)
      BY <3>1, <3>2 DEF Return, Pages
    <3>3. ASSUME NEW c \in Codes, Type(g, c) PROVE page' \in [Guests -> Pages]
      <4>1. [page[g] EXCEPT !.typed = c, !.shows = "nothing", !.due = TRUE] \in Pages
        BY <3>1 DEF Pages
      <4>2. page' = [page EXCEPT ![g] = [page[g] EXCEPT !.typed = c, !.shows = "nothing", !.due = TRUE]]
        BY <3>1, <3>3 DEF Type
      <4> QED BY <3>1, <4>1, <4>2
    <3> QED BY <1>10, <3>2, <3>3
  <2>2. /\ req' = [v \in Workers |-> req'[v]]
        /\ \A v \in Workers : req'[v] = req[v] \/ req'[v] = [req[v] EXCEPT !.stale = TRUE]
    BY <1>1, <1>10 DEF Return, Type, Deserted, TypeOK
  <2>3. UNCHANGED <<club, guard, calls, deeds>>
    BY <1>10 DEF Return, Type
  <2> QED BY <1>1, <1>8, <2>1, <2>2, <2>3 DEF TypeOK, guard, BucketFits
<1>11. CASE Restart
  <2>1. page' \in [Guests -> Pages]
    <3>1. page \in [Guests -> Pages]
      BY <1>1 DEF TypeOK
    <3>2. \A s \in Pages : \A a, b \in BOOLEAN :
             [s EXCEPT !.busy = FALSE, !.due = a, !.stuck = b] \in Pages
      BY DEF Pages
    <3>3. \A g \in Guests : page[g].due \in BOOLEAN /\ page[g].stuck \in BOOLEAN
      BY <3>1 DEF Pages
    <3>4. PICK L, Q \in SUBSET Guests :
             page' = [g \in Guests |-> [page[g] EXCEPT !.busy = FALSE, !.due = @ \/ g \in L \ Q,
                                                       !.stuck = @ \/ g \in Q]]
      BY <1>11 DEF Restart
    <3>5. ASSUME NEW g \in Guests
          PROVE  [page[g] EXCEPT !.busy = FALSE, !.due = @ \/ g \in L \ Q, !.stuck = @ \/ g \in Q] \in Pages
      <4>1. (page[g].due \/ g \in L \ Q) \in BOOLEAN /\ (page[g].stuck \/ g \in Q) \in BOOLEAN
        OBVIOUS
      <4>2. PICK a, b \in BOOLEAN : a = (page[g].due \/ g \in L \ Q) /\ b = (page[g].stuck \/ g \in Q)
        BY <4>1
      <4>3. [page[g] EXCEPT !.busy = FALSE, !.due = a, !.stuck = b] \in Pages
        BY <3>1, <3>2
      <4> QED BY <4>2, <4>3
    <3> QED BY <3>4, <3>5
  <2>2. /\ req' = [v \in Workers |-> req'[v]] /\ \A v \in Workers : req'[v] = Idle
        /\ UNCHANGED <<club, clock, calls>> /\ bucket' = Empty /\ judged' = 0 /\ deeds' = deeds + 1
    BY <1>11 DEF Restart, Deed
  <2>3. deeds' \in Nat /\ bucket' \in Buckets /\ judged' \in Nat /\ BucketFits'
    BY <1>1, <2>2 DEF TypeOK, Empty, Buckets, BucketFits
  <2> QED BY <1>8, <2>1, <2>2, <2>3
\* steps of organizers and hosts
<1>12. ASSUME Meanwhile, UNCHANGED <<guard, calls>>, Deed, ClubTypes', page' \in [Guests -> Pages] PROVE Inv'
  <2>1. req' \in [Workers -> Requests] /\ \A v \in Workers : Fit(req[v])'
    BY <1>12, ClubStep
  <2> QED BY <1>1, <1>12, <2>1 DEF Inv, TypeOK, guard, BucketFits, Deed, ClubTypes
<1>13. ASSUME NEW e \in Events, Change(e) PROVE Inv'
  BY <1>1, <1>12, <1>13 DEF Change, ClubTypes, TypeOK
<1>14. ASSUME NEW g \in Guests, Approve(g) PROVE Inv'
  <2>1. ClubTypes'
    BY <1>1, <1>14 DEF Approve, ClubTypes, TypeOK, Signups, Passes
  <2> QED BY <1>1, <1>12, <1>14, <2>1 DEF Approve, TypeOK
<1>15. ASSUME NEW g \in Guests, Remove(g) PROVE Inv'
  <2>1. ClubTypes'
    BY <1>1, <1>15 DEF Remove, ClubTypes, TypeOK, Signups, Passes
  <2>2. page' \in [Guests -> Pages]
    BY <1>1, <1>15 DEF Remove, TypeOK, Pages
  <2> QED BY <1>12, <1>15, <2>1, <2>2 DEF Remove
<1>16. ASSUME NEW g \in Guests, PlusOne(g) PROVE Inv'
  <2>1. ClubTypes'
    BY <1>1, <1>16 DEF PlusOne, ClubTypes, TypeOK, Passes
  <2> QED BY <1>1, <1>12, <1>16, <2>1 DEF PlusOne, TypeOK
<1>17. CASE Sweep
  <2>1. BucketFits' /\ bucket' \in Buckets /\ judged' \in Nat
    BY <1>1, <1>17 DEF Sweep, BucketFits, Empty, Buckets, TypeOK
  <2> QED BY <1>1, <1>8, <1>17, <2>1 DEF Sweep, TypeOK
<1>18. CASE Tick
  <2>1. clock' = clock + 1 /\ UNCHANGED <<club, bucket, judged, req, page, calls, deeds>>
    BY <1>18 DEF Tick
  <2>2. BucketFits' /\ clock' \in Nat
    BY <1>1, <2>1 DEF BucketFits, TypeOK, Buckets
  <2>3. \A v \in Workers : Fit(req[v])'
    BY <1>1, <2>1 DEF Fit, Now, club
  <2> QED BY <1>1, <2>1, <2>2, <2>3 DEF Inv, TypeOK, club
<1>19. CASE UNCHANGED vars
  <2>1. \A v \in Workers : Fit(req[v])'
    BY <1>1, <1>19 DEF Fit, Now, club, vars
  <2> QED BY <1>1, <1>19, <2>1 DEF Inv, TypeOK, club, vars, guard, BucketFits
<1>20. ASSUME NEW w \in Workers, Save(w) PROVE Inv'
  BY <1>20, SaveStep
<1> QED
  BY <1>3, <1>4, <1>5, <1>7, <1>9, <1>10, <1>11, <1>13, <1>14, <1>15, <1>16, <1>17, <1>18, <1>19, <1>20 DEF Next

LEMMA InvHolds == Spec => []Inv
BY InitHolds, StepKeeps, PTL DEF Spec

-----------------------------------------------------------------------------
\* The variables keep their types, and what is invite-only, or not listed, goes
\* only to somebody who was entitled to it at some moment of the request.
THEOREM GateHolding == Spec => []GateHolds
<1>1. Inv => GateHolds
  BY DEF Inv, GateHolds, Fit, At
<1> QED BY <1>1, InvHolds, PTL

\* Until its bucket is over, an address gets Limit codes judged and no more.
THEOREM GuessesStayBounded == Spec => []GuessesBounded
<1>1. Inv => GuessesBounded
  BY DEF Inv, BucketFits, GuessesBounded
<1> QED BY <1>1, InvHolds, PTL

\* Whoever keeps a signup or a pass while a request lasts is not turned away.
THEOREM HoldersAdmitted == Spec => []HolderAdmitted
<1>1. Inv => HolderAdmitted
  BY DEF Inv, HolderAdmitted, Fit, At
<1> QED BY <1>1, InvHolds, PTL
-----------------------------------------------------------------------------
(***************************************************************************)
(* The page of a guest who was told of the signup.                         *)
(***************************************************************************)
\* a fetch that the page of g waits for
Awaits(q, g) == q.pc # "idle" /\ q.who = g /\ q.kind = "page" /\ ~ q.stale
\* it has read the signup, or has yet to
Sees(q) ==
    /\ q.pc \in {"passes", "gate"} => q.mine
    /\ q.pc = "answer" => q.mine /\ q.granted

Own(g) ==
    page[g].told =>
      /\ Live(g)
      /\ \A w \in Workers : Awaits(req[w], g) => Sees(req[w])
      /\ \/ page[g].due \/ page[g].stuck \/ page[g].shows \notin {"form", "gate"}
         \/ \E w \in Workers : Awaits(req[w], g)

LEMMA OwnKept ==
    ASSUME NEW g \in Guests, Own(g),
           page'[g].told => page[g].told /\ (Live(g) => Live(g)'),
           page'[g].due = page[g].due, page'[g].stuck = page[g].stuck, page'[g].shows = page[g].shows,
           \A w \in Workers : Awaits(req'[w], g) <=> Awaits(req[w], g),
           \A w \in Workers : Awaits(req[w], g) /\ Sees(req[w]) /\ Live(g) => Sees(req'[w])
    PROVE  Own(g)'
BY DEF Own

\* A step of one request, for the page that waits for it or for somebody else.
LEMMA OwnMove ==
    ASSUME \A g \in Guests : Own(g), NEW w \in Workers, UNCHANGED <<signup, page>>,
           \A v \in Workers : v # w => req'[v] = req[v],
           \A g \in Guests : Awaits(req'[w], g) <=> Awaits(req[w], g),
           \A g \in Guests : Awaits(req[w], g) /\ Sees(req[w]) /\ Live(g) => Sees(req'[w])
    PROVE  \A g \in Guests : Own(g)'
<1> SUFFICES ASSUME NEW g \in Guests PROVE Own(g)'
  OBVIOUS
<1>1. Live(g) => Live(g)'
  BY DEF Live
<1>2. /\ \A v \in Workers : Awaits(req'[v], g) <=> Awaits(req[v], g)
      /\ \A v \in Workers : Awaits(req[v], g) /\ Sees(req[v]) /\ Live(g) => Sees(req'[v])
  OBVIOUS
<1> QED BY <1>1, <1>2, OwnKept

LEMMA OwnHandlers ==
    ASSUME TypeOK, \A g \in Guests : Own(g), NEW w \in Workers,
           \/ ReadEvent(w) \/ ReadList(w) \/ ListSignup(w) \/ ReadSignup(w) \/ ReadPasses(w)
           \/ Gate(w) \/ HearCalendar(w)
    PROVE  \A g \in Guests : Own(g)'
<1>1. req \in [Workers -> Requests] /\ req[w] \in Requests
  BY DEF TypeOK
<1>2. ASSUME ReadEvent(w) PROVE \A g \in Guests : Own(g)'
  <2>1. /\ \A v \in Workers : v # w => req'[v] = req[v]
        /\ req'[w].who = req[w].who /\ req'[w].kind = req[w].kind /\ req'[w].stale = req[w].stale
        /\ req'[w].pc # "idle" /\ req[w].pc # "idle" /\ (req[w].kind = "page" => req'[w].pc = "signup")
    BY <1>1, <1>2 DEF ReadEvent, At, Requests
  <2> QED BY <1>2, <2>1, OwnMove DEF ReadEvent, club, Awaits, Sees
<1>3. ASSUME ReadList(w) \/ ListSignup(w) PROVE \A g \in Guests : Own(g)'
  <2>1. /\ \A v \in Workers : v # w => req'[v] = req[v]
        /\ req'[w].kind = "browse" /\ req[w].kind = "browse"
    BY <1>1, <1>3 DEF ReadList, ListSignup, At, Requests
  <2>2. UNCHANGED <<signup, page>>
    BY <1>3 DEF ReadList, ListSignup, club
  <2> QED BY <2>1, <2>2, OwnMove DEF Awaits
<1>4. ASSUME ReadSignup(w) PROVE \A g \in Guests : Own(g)'
  <2>1. /\ \A v \in Workers : v # w => req'[v] = req[v]
        /\ req'[w].who = req[w].who /\ req'[w].kind = req[w].kind /\ req'[w].stale = req[w].stale
        /\ req'[w].pc \in {"passes", "gate"} /\ req[w].pc # "idle" /\ req'[w].mine = Live(req[w].who)
    BY <1>1, <1>4 DEF ReadSignup, At, Requests, Mine
  <2> QED BY <1>4, <2>1, OwnMove DEF ReadSignup, club, Awaits, Sees
<1>5. ASSUME ReadPasses(w) PROVE \A g \in Guests : Own(g)'
  <2>1. /\ \A v \in Workers : v # w => req'[v] = req[v]
        /\ req'[w].who = req[w].who /\ req'[w].kind = req[w].kind /\ req'[w].stale = req[w].stale
        /\ req'[w].pc = "gate" /\ req[w].pc = "passes" /\ req'[w].mine = req[w].mine
    BY <1>1, <1>5 DEF ReadPasses, At, Requests
  <2> QED BY <1>5, <2>1, OwnMove DEF ReadPasses, club, Awaits, Sees
<1>6. ASSUME Gate(w) PROVE \A g \in Guests : Own(g)'
  <2>1. /\ \A v \in Workers : v # w => req'[v] = req[v]
        /\ req'[w].who = req[w].who /\ req'[w].kind = req[w].kind /\ req'[w].stale = req[w].stale
        /\ req'[w].pc # "idle" /\ req[w].pc = "gate" /\ req'[w].mine = req[w].mine
        /\ req'[w].granted = Granted(req[w]) /\ (req[w].kind = "page" => req'[w].pc = "answer")
    BY <1>1, <1>6 DEF Gate, At, Requests
  <2>2. req[w].mine => Granted(req[w])
    BY DEF Granted, Asked
  <2> QED BY <1>6, <2>1, <2>2, OwnMove DEF Gate, club, Awaits, Sees
<1>7. ASSUME HearCalendar(w) PROVE \A g \in Guests : Own(g)'
  <2>1. /\ \A v \in Workers : v # w => req'[v] = req[v]
        /\ req'[w].pc = "idle" /\ req[w].kind # "page"
    BY <1>1, <1>7 DEF HearCalendar, Idle
  <2> QED BY <1>7, <2>1, OwnMove DEF HearCalendar, club, Awaits
<1> QED BY <1>2, <1>3, <1>4, <1>5, <1>6, <1>7

LEMMA Sent ==
    ASSUME TypeOK, NEW w \in Workers, NEW kind, NEW g, NEW c, Send(w, kind, g, c)
    PROVE  /\ \A v \in Workers : v # w => req'[v] = req[v]
           /\ req[w].pc = "idle" /\ req'[w].pc = "row"
           /\ req'[w].kind = kind /\ req'[w].who = g /\ ~ req'[w].stale
BY DEF TypeOK, Send, At, Idle

LEMMA OwnSends ==
    ASSUME TypeOK, \A g \in Guests : Own(g), NEW w \in Workers, NEW h \in Guests,
           \/ Fetch(w, h) \/ AddToCalendar(w, h) \/ SignUp(w, h) \/ Browse(w, h)
           \/ \E c \in Codes : Guess(w, h, c)
    PROVE  \A g \in Guests : Own(g)'
<1>1. \A g \in Guests : page[g] \in Pages /\ page \in [Guests -> Pages]
  BY DEF TypeOK
<1>2. ASSUME AddToCalendar(w, h) \/ Browse(w, h) \/ \E c \in Codes : Guess(w, h, c)
      PROVE  \A g \in Guests : Own(g)'
  <2>1. (\E kind \in {"calendar", "browse"}, c \in Codes \cup {None, page[h].typed} : Send(w, kind, h, c))
        /\ UNCHANGED <<signup, page>>
    BY <1>2 DEF AddToCalendar, Browse, Guess, club
  <2>2. /\ \A v \in Workers : v # w => req'[v] = req[v]
        /\ req[w].pc = "idle" /\ req'[w].kind # "page"
    BY <2>1, Sent
  <2> QED BY <2>1, <2>2, OwnMove DEF Awaits
<1>3. ASSUME SignUp(w, h), NEW g \in Guests PROVE Own(g)'
  <2>1. /\ \A v \in Workers : v # w => req'[v] = req[v]
        /\ req[w].pc = "idle" /\ req'[w].kind = "register"
    BY <1>3, Sent DEF SignUp
  <2>2. /\ page'[g].told = page[g].told /\ page'[g].due = page[g].due
        /\ page'[g].stuck = page[g].stuck /\ page'[g].shows = page[g].shows
    BY <1>1, <1>3 DEF SignUp, Pages
  <2>3. Live(g) => Live(g)'
    BY <1>3 DEF SignUp, Live, club
  <2>4. \A v \in Workers : (Awaits(req'[v], g) <=> Awaits(req[v], g))
                            /\ (Awaits(req[v], g) => req'[v] = req[v])
    BY <2>1 DEF Awaits
  <2> QED BY <2>2, <2>3, <2>4, OwnKept
<1>4. ASSUME Fetch(w, h), NEW g \in Guests PROVE Own(g)'
  <2>1. /\ \A v \in Workers : v # w => req'[v] = req[v]
        /\ req[w].pc = "idle" /\ req'[w].pc = "row" /\ req'[w].kind = "page" /\ req'[w].who = h
        /\ ~ req'[w].stale
    BY <1>4, Sent DEF Fetch
  <2>2. /\ page'[g].told = page[g].told /\ page'[g].stuck = page[g].stuck /\ page'[g].shows = page[g].shows
        /\ g # h => page'[g].due = page[g].due
    BY <1>1, <1>4 DEF Fetch, Pages
  <2>3. Live(g) => Live(g)'
    BY <1>4 DEF Fetch, Live, club
  <2>4. \A v \in Workers : (Awaits(req[v], g) => Awaits(req'[v], g))
                            /\ (Awaits(req'[v], g) => v = w \/ Awaits(req[v], g)) /\ (v = w \/ req'[v] = req[v])
    BY <2>1 DEF Awaits
  <2>5. Sees(req'[w]) /\ (g = h => Awaits(req'[w], g))
    BY <2>1 DEF Sees, Awaits
  <2> QED BY <2>2, <2>3, <2>4, <2>5 DEF Own
<1> QED BY <1>2, <1>3, <1>4

\* Requests live through a change of the club.
LEMMA OwnMeanwhile ==
    ASSUME TypeOK, NEW q \in Requests, NEW s, NEW r, r = Witnessed(q, s), NEW g
    PROVE  (Awaits(r, g) <=> Awaits(q, g)) /\ (Sees(q) => Sees(r))
<1>1. CASE q.pc = "idle"
  BY <1>1 DEF Witnessed
<1>2. CASE q.pc # "idle"
  <2>1. PICK b \in BOOLEAN : b = (q.fit \/ Entitled(s, q.kind, q.who, q.code))
    OBVIOUS
  <2>2. PICK t : t = q.kept \cap Titles(s, q.kind, q.who)
    OBVIOUS
  <2>3. r = [q EXCEPT !.fit = b, !.kept = t]
    BY <1>2, <2>1, <2>2 DEF Witnessed
  <2>4. /\ r.pc = q.pc /\ r.kind = q.kind /\ r.who = q.who /\ r.stale = q.stale
        /\ r.mine = q.mine /\ r.granted = q.granted
    BY <2>3 DEF Requests
  <2> QED BY <2>4 DEF Awaits, Sees
<1> QED BY <1>1, <1>2

LEMMA OwnChanges ==
    ASSUME TypeOK, \A g \in Guests : Own(g),
           \/ \E e \in Events : Change(e)
           \/ \E h \in Guests : Approve(h) \/ Remove(h) \/ PlusOne(h)
           \/ \E w \in Workers : Save(w) /\ req[w].who \in Guests /\ req[w].kind = "register"
    PROVE  \A g \in Guests : Own(g)'
<1> SUFFICES ASSUME NEW g \in Guests PROVE Own(g)'
  OBVIOUS
<1>1. /\ req \in [Workers -> Requests] /\ \A w \in Workers : req[w] \in Requests
      /\ page \in [Guests -> Pages] /\ page[g] \in Pages /\ signup \in [Guests -> Signups]
  BY DEF TypeOK
<1>2. /\ page'[g].told => page[g].told /\ (Live(g) => Live(g)')
      /\ page'[g].due = page[g].due /\ page'[g].stuck = page[g].stuck /\ page'[g].shows = page[g].shows
  <2>1. CASE \E e \in Events : Change(e)
    BY <2>1 DEF Change, Live
  <2>2. CASE \E h \in Guests : Approve(h) \/ PlusOne(h)
    BY <1>1, <2>2 DEF Approve, PlusOne, Live
  <2>3. CASE \E h \in Guests : Remove(h)
    BY <1>1, <2>3 DEF Remove, Live, Pages
  <2>4. CASE \E w \in Workers : Save(w)
    BY <1>1, <2>4 DEF Save, Live
  <2> QED BY <2>1, <2>2, <2>3, <2>4
<1>3. ASSUME NEW v \in Workers
      PROVE  (Awaits(req'[v], g) <=> Awaits(req[v], g)) /\ (Awaits(req[v], g) /\ Sees(req[v]) => Sees(req'[v]))
  <2>1. CASE Meanwhile
    BY <1>1, <2>1, OwnMeanwhile DEF Meanwhile
  <2>2. CASE \E w \in Workers : Save(w) /\ req[w].who \in Guests /\ req[w].kind = "register"
    <3>1. PICK w \in Workers : Save(w) /\ req[w].kind = "register"
      BY <2>2
    <3>2. v # w => req'[v] = Witnessed(req[v], Now')
      BY <3>1 DEF Save
    <3>3. req'[w].kind = "register"
      <4>1. PICK b \in BOOLEAN : b = ~ Live(req[w].who)
        OBVIOUS
      <4>2. req'[w] = [req[w] EXCEPT !.pc = "answer", !.granted = b]
        BY <3>1, <4>1 DEF Save
      <4>3. req[w] \in Requests
        BY <1>1
      <4> QED BY <3>1, <4>2, <4>3 DEF Requests
    <3>4. CASE v # w
      BY <1>1, <3>2, <3>4, OwnMeanwhile
    <3>5. CASE v = w
      BY <3>1, <3>3, <3>5 DEF Awaits
    <3> QED BY <3>4, <3>5
  <2> QED BY <2>1, <2>2 DEF Change, Approve, Remove, PlusOne
<1> QED BY <1>2, <1>3, OwnKept

LEMMA OwnPages ==
    ASSUME TypeOK, \A g \in Guests : Own(g),
           \/ \E h \in Guests : Return(h) \/ \E c \in Codes : Type(h, c)
           \/ \E w \in Workers : (HearPage(w) \/ HearSignup(w)) /\ req[w].who \in Guests
           \/ Restart
    PROVE  \A g \in Guests : Own(g)'
<1> SUFFICES ASSUME NEW g \in Guests PROVE Own(g)'
  OBVIOUS
<1>1. /\ req \in [Workers -> Requests] /\ \A w \in Workers : req[w] \in Requests
      /\ page \in [Guests -> Pages] /\ page[g] \in Pages /\ Own(g)
  BY DEF TypeOK
<1>2. ASSUME NEW h \in Guests, Return(h) PROVE Own(g)'
  <2>1. /\ page'[g].told = page[g].told /\ page'[g].stuck = page[g].stuck /\ page'[g].shows = page[g].shows
        /\ page[g].due => page'[g].due
        /\ h = g => page'[g].due
        /\ req' = req /\ signup' = signup
    BY <1>1, <1>2 DEF Return, Pages, club
  <2> QED BY <1>1, <2>1 DEF Own, Live
<1>3. ASSUME NEW h \in Guests, NEW w \in Workers, req'[w] = Deserted(h)[w]
      PROVE  /\ h = g => ~ Awaits(req'[w], g)
             /\ h # g => (Awaits(req'[w], g) <=> Awaits(req[w], g)) /\ (Awaits(req[w], g) => req'[w] = req[w])
  <2>1. CASE req[w].who = h /\ req[w].kind = "page" /\ req[w].pc # "idle"
    <3>1. req'[w] = [req[w] EXCEPT !.stale = TRUE]
      BY <1>3, <2>1 DEF Deserted, Busy, At
    <3>2. req'[w].stale /\ req'[w].who = h
      BY <1>1, <2>1, <3>1 DEF Requests
    <3> QED BY <2>1, <3>2 DEF Awaits
  <2>2. CASE ~ (req[w].who = h /\ req[w].kind = "page" /\ req[w].pc # "idle")
    <3>1. req'[w] = req[w]
      BY <1>3, <2>2 DEF Deserted, Busy, At
    <3> QED BY <2>2, <3>1 DEF Awaits
  <2> QED BY <2>1, <2>2
<1>4. ASSUME NEW h \in Guests, NEW c \in Codes, Type(h, c) PROVE Own(g)'
  <2>1. /\ page'[g].told = page[g].told /\ (h = g => page'[g].due)
        /\ h # g => page'[g] = page[g]
        /\ signup' = signup /\ \A w \in Workers : req'[w] = Deserted(h)[w]
    BY <1>1, <1>4 DEF Type, Pages, club
  <2>2. CASE h = g
    BY <1>1, <1>3, <2>1, <2>2 DEF Own, Live
  <2>3. CASE h # g
    <3>1. \A w \in Workers : (Awaits(req'[w], g) <=> Awaits(req[w], g)) /\ (Awaits(req[w], g) => req'[w] = req[w])
      BY <1>3, <2>1, <2>3
    <3> QED BY <1>1, <2>1, <2>3, <3>1 DEF Own, Live
  <2> QED BY <2>2, <2>3
<1>5. ASSUME NEW w \in Workers, HearPage(w), req[w].who \in Guests PROVE Own(g)'
  <2>1. /\ \A v \in Workers : v # w => req'[v] = req[v]
        /\ req'[w].pc = "idle" /\ req[w].pc = "answer" /\ req[w].kind = "page" /\ signup' = signup
    BY <1>1, <1>5 DEF HearPage, At, Idle, club
  <2>2. CASE Awaits(req[w], g)
    <3>1. /\ page'[g].told = page[g].told /\ page'[g].shows = Shown(req[w])
      BY <1>1, <1>5, <2>2 DEF HearPage, Pages, Awaits
    <3>2. page[g].told => page'[g].shows = "signup"
      BY <1>1, <2>1, <2>2, <3>1 DEF Own, Sees, Shown
    <3>3. \A v \in Workers : Awaits(req'[v], g) => Awaits(req[v], g) /\ req'[v] = req[v]
      BY <2>1 DEF Awaits
    <3> QED BY <1>1, <2>1, <3>1, <3>2, <3>3 DEF Own, Live
  <2>3. CASE ~ Awaits(req[w], g)
    <3>1. page'[g] = page[g]
      BY <1>1, <1>5, <2>1, <2>3 DEF HearPage, Awaits
    <3>2. \A v \in Workers : (Awaits(req'[v], g) <=> Awaits(req[v], g)) /\ (Awaits(req[v], g) => req'[v] = req[v])
      BY <2>1, <2>3 DEF Awaits
    <3> QED BY <1>1, <2>1, <3>1, <3>2 DEF Own, Live
  <2> QED BY <2>2, <2>3
<1>6. ASSUME NEW w \in Workers, HearSignup(w), req[w].who \in Guests PROVE Own(g)'
  <2>1. PICK h \in Guests : h = req[w].who
    BY <1>6
  <2>a. req'[w].pc = "idle"
    <3>1. PICK R : R = (IF req[w].granted THEN Invalidated(h) ELSE req)
      OBVIOUS
    <3>2. R \in [Workers -> {R[v] : v \in Workers}]
      <4>1. CASE req[w].granted
        BY <3>1, <4>1 DEF Invalidated, Deserted
      <4>2. CASE ~ req[w].granted
        BY <1>1, <3>1, <4>2
      <4> QED BY <4>1, <4>2
    <3>3. req' = [R EXCEPT ![w] = Idle]
      BY <1>6, <2>1, <3>1 DEF HearSignup
    <3> QED BY <3>2, <3>3 DEF Idle
  <2>b. req[w].kind = "register" /\ signup' = signup
    BY <1>6 DEF HearSignup, club
  <2>c. PICK d \in BOOLEAN : d = (page[h].due \/ req[w].granted)
    OBVIOUS
  <2>d. PICK t \in BOOLEAN : t = (page[h].told \/ (req[w].granted /\ Live(h)))
    OBVIOUS
  <2>e. page' = [page EXCEPT ![h].busy = FALSE, ![h].due = d, ![h].told = t]
    BY <1>6, <2>1, <2>c, <2>d DEF HearSignup
  <2>f. /\ page'[g].stuck = page[g].stuck /\ page'[g].shows = page[g].shows
        /\ h # g => page'[g] = page[g]
        /\ h = g => page'[g].due = d /\ page'[g].told = t
    BY <1>1, <2>1, <2>e DEF Pages
  <2>2. /\ req'[w].pc = "idle" /\ req[w].kind = "register" /\ signup' = signup
        /\ page'[g].stuck = page[g].stuck /\ page'[g].shows = page[g].shows
        /\ h # g => page'[g] = page[g]
        /\ h = g => /\ page'[g].due <=> (page[g].due \/ req[w].granted)
                    /\ page'[g].told <=> (page[g].told \/ (req[w].granted /\ Live(g)))
    BY <2>a, <2>b, <2>c, <2>d, <2>f
  <2>3. CASE req[w].granted
    <3>1. \A v \in Workers : v # w => req'[v] = Deserted(h)[v]
      BY <1>1, <1>6, <2>1, <2>3 DEF HearSignup, Invalidated, Deserted
    <3>2. /\ ~ Awaits(req'[w], g) /\ ~ Awaits(req[w], g)
      BY <2>2 DEF Awaits
    <3>3. CASE h = g
      <4>1. \A v \in Workers : ~ Awaits(req'[v], g)
        BY <1>3, <3>1, <3>2, <3>3
      <4>2. page'[g].due /\ (page'[g].told => page[g].told \/ Live(g))
        BY <2>2, <2>3, <3>3
      <4> QED BY <1>1, <2>2, <4>1, <4>2 DEF Own, Live
    <3>4. CASE h # g
      <4>1. \A v \in Workers : (Awaits(req'[v], g) <=> Awaits(req[v], g)) /\ (Awaits(req[v], g) => req'[v] = req[v])
        BY <1>3, <3>1, <3>2, <3>4
      <4> QED BY <1>1, <2>2, <3>4, <4>1 DEF Own, Live
    <3> QED BY <3>3, <3>4
  <2>4. CASE ~ req[w].granted
    <3>1. \A v \in Workers : v # w => req'[v] = req[v]
      BY <1>1, <1>6, <2>4 DEF HearSignup
    <3>2. \A v \in Workers : (Awaits(req'[v], g) <=> Awaits(req[v], g)) /\ (Awaits(req[v], g) => req'[v] = req[v])
      BY <2>2, <3>1 DEF Awaits
    <3>3. (page'[g].told <=> page[g].told) /\ (page'[g].due <=> page[g].due)
      BY <2>2, <2>4
    <3> QED BY <1>1, <2>2, <3>2, <3>3 DEF Own, Live
  <2> QED BY <2>3, <2>4
<1>7. ASSUME Restart PROVE Own(g)'
  <2> DEFINE lost == {h \in Guests : \E w \in Workers : req[w].who = h /\ Busy(w)
                                        /\ req[w].kind = "page" /\ ~req[w].stale}
  <2>1. PICK Q \in SUBSET lost :
             page' = [h \in Guests |-> [page[h] EXCEPT !.busy = FALSE, !.due = @ \/ h \in lost \ Q,
                                                       !.stuck = @ \/ h \in Q]]
    BY <1>7 DEF Restart
  <2>2. g \in lost <=> \E w \in Workers : Awaits(req[w], g)
    BY DEF Awaits, Busy, At
  <2>3. (page[g].due \/ g \in lost \ Q) \in BOOLEAN /\ (page[g].stuck \/ g \in Q) \in BOOLEAN
    OBVIOUS
  <2>4. /\ page'[g].told = page[g].told /\ page'[g].shows = page[g].shows
        /\ page'[g].due = (page[g].due \/ g \in lost \ Q) /\ page'[g].stuck = (page[g].stuck \/ g \in Q)
    BY <1>1, <2>1, <2>3 DEF Pages
  <2>p. req' = [w \in Workers |-> Idle] /\ signup' = signup
    BY <1>7 DEF Restart, club
  <2>5. signup' = signup /\ \A w \in Workers : req'[w].pc = "idle"
    BY <2>p DEF Idle
  <2> HIDE DEF lost
  <2>6. \A w \in Workers : ~ Awaits(req'[w], g)
    BY <2>5 DEF Awaits
  <2> QED BY <1>1, <2>2, <2>4, <2>5, <2>6 DEF Own, Live
<1> QED BY <1>2, <1>4, <1>5, <1>6, <1>7

\* A guest who was told of the signup and still has it is shown it, whatever the
\* page asked before and whichever of its fetches come late or get lost.
THEOREM SignupsAreShown == Spec => []OwnSignupShown
<1> DEFINE Owned == \A g \in Guests : Own(g)
<1>1. Init => Owned
  BY DEF Init, Own
<1>2. Inv /\ Owned /\ [Next]_vars => Owned'
  <2> SUFFICES ASSUME Inv, Owned, [Next]_vars PROVE \A g \in Guests : Own(g)'
    OBVIOUS
  <2>1. TypeOK /\ \A w \in Workers : req[w] \in Requests /\ Fit(req[w])
    BY DEF Inv, TypeOK
  <2>2. ASSUME UNCHANGED <<signup, req, page>> PROVE \A g \in Guests : Own(g)'
    BY <2>2 DEF Own, Live
  <2>3. CASE UNCHANGED vars \/ Sweep \/ Tick
    BY <2>2, <2>3 DEF vars, Sweep, Tick, club
  <2>4. \A w \in Workers : At(w, "save") => req[w].kind = "register"
    BY <2>1 DEF Fit, At
  <2>5. \A w \in Workers : ~ At(w, "idle") => req[w].who \in Guests
    BY <2>1 DEF Fit, At
  <2>6. ASSUME NEW w \in Workers, Save(w) PROVE \A g \in Guests : Own(g)'
    <3>1. req[w].who \in Guests /\ req[w].kind = "register"
      BY <2>4, <2>5, <2>6 DEF Save, At
    <3> QED BY <2>1, <2>6, <3>1, OwnChanges
  <2>7. ASSUME NEW w \in Workers, HearPage(w) \/ HearSignup(w) PROVE \A g \in Guests : Own(g)'
    <3>1. req[w].who \in Guests
      BY <2>5, <2>7 DEF HearPage, HearSignup, At
    <3> QED BY <2>1, <2>7, <3>1, OwnPages
  <2> QED BY <2>1, <2>3, <2>6, <2>7, OwnHandlers, OwnSends, OwnChanges, OwnPages DEF Next
<1>3. Owned => OwnSignupShown
  BY DEF Own, OwnSignupShown, Awaits, Busy, At
<1> HIDE DEF Owned
<1> QED BY <1>1, <1>2, <1>3, InvHolds, PTL DEF Spec
=============================================================================
