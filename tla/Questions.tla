------------------------------ MODULE Questions ------------------------------
(***************************************************************************)
(* The signup form of one event while it is being changed: updateQuestions *)
(* and register of routes/router.ts, the builder of the organizers' edit   *)
(* pages (EditEventPage, EventForm) and the form of the guests (EventPage).*)
(*                                                                         *)
(* A type stands for a question's type with its options, Picks are the     *)
(* selects.  A standard field that has a column of its own in the          *)
(* registrations (major, dietary, resume, source) is kept among its        *)
(* answers here.  Labels, the order of the questions, uploads and the      *)
(* required flag are left out.  The event's lock makes a step of each      *)
(* transaction; approvals and seats are in Registrations.                  *)
(***************************************************************************)
EXTENDS Integers, Sequences, FiniteSets

CONSTANTS
    Guests,
    Pages,          \* edit pages, each in a browser of its own
    Keys,           \* standard fields
    NoKey,          \* the key of a custom question
    Types, Picks,
    MaxCustom,      \* MAX_CUSTOM_QUESTIONS
    MaxEdits,       \* bound on what all organizers do to their drafts
    MaxSaves,       \* bound on saves
    MaxActs         \* bound on signups and on what the super admin switches

ASSUME QuestionsAssumption ==
    /\ NoKey \notin Keys /\ Picks \subseteq Types /\ IsFiniteSet(Keys)
    /\ {MaxCustom, MaxEdits, MaxSaves, MaxActs} \subseteq Nat

VARIABLES
    rows,       \* event_questions in order of creation, deleted ones too
    control,    \* app_settings: the fields the club collects
    switches,   \* the super admins' switches under way
    status,     \* of each guest's registration
    answers,    \* of each guest's registration
    form,       \* what each guest's page asks
    sign,       \* the register request of each guest
    page,       \* the builder of each organizer
    save,       \* the updateQuestions request of each page
    edits, saves, acts,
    lost        \* history: a page never heard of a save that was applied

event == <<rows, control, status, answers, switches>>
bounds == <<edits, saves, acts>>
vars == <<event, form, sign, page, save, bounds, lost>>

\* draft is history: which click on "Add a question" the row comes from
Rows == [key: Keys \cup {NoKey}, type: Types, visible: BOOLEAN,
         live: BOOLEAN, draft: Nat]
\* raced is history: a save was under way while the answer was given
Answers == [qid: Nat, as: Types, raced: BOOLEAN]
Fields == [qid: Nat, type: Types]
\* a row of the builder; qid 0 has never been saved
Drafts == [qid: Nat, key: Keys \cup {NoKey}, type: Types,
           visible: BOOLEAN, locked: BOOLEAN, draft: Nat]
Builders == [open: BOOLEAN, list: SUBSET Drafts, known: SUBSET Keys]
Saves == [pc: {"idle", "read", "count", "apply", "done", "refused"}, body: SUBSET Drafts,
          existing: SUBSET Fields]
\* on and raced are history: keys that were on, a save applied, since it began
Signs == [pc: {"idle", "read", "questions", "clear", "create"}, body: SUBSET Fields,
          asks: SUBSET Keys, kept: SUBSET Fields, on: SUBSET Keys, raced: BOOLEAN]

\* seen is the row of app_settings that the request read
Switches == [no: Nat, key: Keys, on: BOOLEAN, seen: [Keys -> BOOLEAN]]

NoSave == [pc |-> "idle", body |-> {}, existing |-> {}]
NoSign == [pc |-> "idle", body |-> {}, asks |-> {}, kept |-> {}, on |-> {}, raced |-> FALSE]
Closed == [open |-> FALSE, list |-> {}, known |-> {}]

Live == {i \in DOMAIN rows : rows[i].live}
On == {k \in Keys : control[k]}
Answered == {a.qid : a \in UNION {answers[g] : g \in Guests}}
Underway == {p \in Pages : save[p].pc \in {"count", "apply"}}

(***************************************************************************)
(* The edit page.  The definitions called Faulty... are wrong on purpose   *)
(* and stand in for the one below them when a property is tested.          *)
(***************************************************************************)
\* a row as the builder has it, with whether it has answers, which locks it
ToDraft(i) ==
    [qid |-> i, key |-> rows[i].key, type |-> rows[i].type, visible |-> rows[i].visible,
     locked |-> i \in Answered, draft |-> rows[i].draft]

OrgQuestions == {ToDraft(i) : i \in Live}

\* the page opens or is reloaded
Load(p) ==
    /\ save[p].pc = "idle"
    /\ page' = [page EXCEPT ![p] = [open |-> TRUE, list |-> OrgQuestions, known |-> On]]
    /\ UNCHANGED <<event, form, sign, save, bounds, lost>>

\* the builder is frozen while its save is pending
Edit(p, list) ==
    /\ page[p].open /\ save[p].pc = "idle" /\ edits < MaxEdits
    /\ page' = [page EXCEPT ![p].list = list] /\ edits' = edits + 1
    /\ UNCHANGED <<event, form, sign, save, saves, acts, lost>>

\* blankQuestion has a short answer; edits + 1 names the draft
AddQuestion(p, t) ==
    Edit(p, page[p].list \cup
            {[qid |-> 0, key |-> NoKey, type |-> t, visible |-> TRUE,
              locked |-> FALSE, draft |-> edits + 1]})

Swapped(p, d, e) == (page[p].list \ {d}) \cup {e}

Retype(p, d, t) ==
    /\ d.key = NoKey /\ d.visible /\ ~d.locked /\ d.type # t
    /\ Edit(p, Swapped(p, d, [d EXCEPT !.type = t]))

\* what has answers goes to the hidden rows, the rest goes
RemoveQuestion(p, d) ==
    /\ d.key = NoKey /\ d.visible
    /\ Edit(p, IF d.locked THEN Swapped(p, d, [d EXCEPT !.visible = FALSE]) ELSE page[p].list \ {d})

ShowAgain(p, d) ==
    /\ d.key = NoKey /\ ~d.visible
    /\ Edit(p, Swapped(p, d, [d EXCEPT !.visible = TRUE]))

SwitchField(p, d) ==
    /\ d.key \in page[p].known
    /\ Edit(p, Swapped(p, d, [d EXCEPT !.visible = ~@]))

\* a field that the page knows to be off club-wide is sent as not visible
Payload(p) ==
    {[d EXCEPT !.visible = @ /\ (d.key = NoKey \/ d.key \in page[p].known)] : d \in page[p].list}

Custom(list) == {d \in list : d.key = NoKey}

\* the page counts the questions itself, hidden ones too
Sendable(p) == Cardinality(Custom(page[p].list)) <= MaxCustom

SaveQuestions(p) ==
    /\ page[p].open /\ save[p].pc = "idle" /\ saves < MaxSaves /\ Sendable(p)
    /\ saves' = saves + 1
    /\ save' = [save EXCEPT ![p] = [NoSave EXCEPT !.pc = "read", !.body = Payload(p)]]
    /\ UNCHANGED <<event, form, sign, page, edits, acts, lost>>

FaultySaved(p) == page[p].list      \* "Saved", without the server's ids

Saved(p) == OrgQuestions

\* the answer to the save: the server's list replaces the builder's, or an error
SaveReply(p) ==
    /\ save[p].pc \in {"done", "refused"}
    /\ page' = IF save[p].pc = "done" THEN [page EXCEPT ![p].list = Saved(p)] ELSE page
    /\ save' = [save EXCEPT ![p] = NoSave]
    /\ UNCHANGED <<event, form, sign, bounds, lost>>

SaveLost(p) ==
    /\ save[p].pc = "done"
    /\ save' = [save EXCEPT ![p] = NoSave] /\ lost' = TRUE
    /\ UNCHANGED <<event, form, sign, page, bounds>>

(***************************************************************************)
(* updateQuestions.                                                        *)
(***************************************************************************)
SaveRead(p) ==
    /\ save[p].pc = "read"
    /\ save' = [save EXCEPT ![p].pc = "count",
                            ![p].existing = {[qid |-> i, type |-> rows[i].type] : i \in Live}]
    /\ UNCHANGED <<event, form, sign, page, bounds, lost>>

\* ids that are not the event's, a standard field that is missing, too many
Mismatch(p) ==
    LET ids == {d.qid : d \in save[p].body}
        known == {f.qid : f \in save[p].existing}
    IN  \/ ~ ids \subseteq known \cup {0}
        \/ \E i \in known : rows[i].key # NoKey /\ i \notin ids
        \/ Cardinality(Custom(save[p].body)) > MaxCustom

GloballyOff(p) == \E d \in save[p].body : d.key \in Keys \ On /\ d.visible

FaultyLocked(p) == {}       \* nothing is locked

\* counts answers now, compares with the types read before
Locked(p) ==
    {d \in save[p].body :
       d.key = NoKey /\ d.qid \in Answered /\ [qid |-> d.qid, type |-> d.type] \notin save[p].existing}

Validate(p) ==
    /\ save[p].pc = "count"
    /\ save' = [save EXCEPT ![p].pc =
                  IF Mismatch(p) \/ GloballyOff(p) \/ Locked(p) # {} THEN "refused" ELSE "apply"]
    /\ UNCHANGED <<event, form, sign, page, bounds, lost>>

FaultyDropped(p, i) == [rows[i] EXCEPT !.visible = FALSE, !.live = FALSE]  \* deletes whatever it has

\* a custom row the organizer dropped: deleted, or hidden if it has answers now
Dropped(p, i) == [rows[i] EXCEPT !.visible = FALSE, !.live = i \in Answered]

Updated(p, i, d) ==
    IF rows[i].key # NoKey THEN [rows[i] EXCEPT !.visible = d.visible]
    ELSE [rows[i] EXCEPT !.type = d.type, !.visible = d.visible]

\* under the lock; a draft whose row is gone by now is skipped
Kept(p) ==
    [i \in DOMAIN rows |->
       IF i \notin Live THEN rows[i]
       ELSE IF \E d \in save[p].body : d.qid = i
            THEN Updated(p, i, CHOOSE d \in save[p].body : d.qid = i)
            ELSE IF rows[i].key = NoKey THEN Dropped(p, i) ELSE rows[i]]

\* the new rows, in the order they were added
Inserted(p) ==
    LET new == {d \in save[p].body : d.qid = 0}
        nth(k) == CHOOSE d \in new : Cardinality({e \in new : e.draft < d.draft}) = k - 1
    IN  [k \in 1 .. Cardinality(new) |->
           [key |-> NoKey, type |-> nth(k).type, 
            visible |-> nth(k).visible, live |-> TRUE, draft |-> nth(k).draft]]

\* deleting a row deletes its answers
Apply(p) ==
    /\ save[p].pc = "apply"
    /\ rows' = Kept(p) \o Inserted(p)
    /\ answers' = [g \in Guests |-> {a \in answers[g] : rows'[a.qid].live}]
    /\ save' = [save EXCEPT ![p].pc = "done"]
    /\ sign' = [g \in Guests |-> [sign[g] EXCEPT !.raced = sign[g].pc # "idle"]]
    /\ UNCHANGED <<control, switches, status, form, page, bounds, lost>>

(***************************************************************************)
(* The guests.                                                             *)
(***************************************************************************)
\* both switches: the club's and the event's own
Asked(i, on) == rows[i].live /\ rows[i].visible /\ rows[i].key \in on \cup {NoKey}

OpenForm(g) ==
    /\ form' = [form EXCEPT ![g] = {[qid |-> i, type |-> rows[i].type] :
                                      i \in {j \in DOMAIN rows : Asked(j, On)}}]
    /\ UNCHANGED <<event, sign, page, save, bounds, lost>>

\* the guest answers everything the page asks
Submit(g) ==
    /\ sign[g].pc = "idle" /\ acts < MaxActs
    /\ sign' = [sign EXCEPT ![g] = [NoSign EXCEPT !.pc = "read", !.body = form[g], !.on = On]]
    /\ acts' = acts + 1
    /\ UNCHANGED <<event, form, page, save, edits, saves, lost>>

\* the registration there is, the controls
RegisterRead(g) ==
    /\ sign[g].pc = "read"
    /\ sign' = [sign EXCEPT ![g] = IF status[g] = "active" THEN NoSign
                                   ELSE [@ EXCEPT !.pc = "questions", !.asks = On]]
    /\ UNCHANGED <<event, form, page, save, bounds, lost>>

FaultyTaken(g) == {i \in DOMAIN rows : rows[i].live /\ rows[i].visible}    \* whatever is visible

Taken(g) == {i \in DOMAIN rows : Asked(i, sign[g].asks)}

\* iterates the questions, not the payload: what is not asked any more is ignored,
\* what the old page did not ask may be required
RegisterCheck(g, required) ==
    LET given == [i \in DOMAIN rows |-> {f \in sign[g].body : f.qid = i}]
        missing == {i \in Taken(g) : given[i] = {}}
        wrong == {i \in Taken(g) : rows[i].type \in Picks /\ \E f \in given[i] : f.type # rows[i].type}
    IN
    /\ sign[g].pc = "questions"
    /\ sign' = [sign EXCEPT ![g] =
         IF wrong # {} \/ (missing # {} /\ required) THEN NoSign
         ELSE [@ EXCEPT !.pc = "clear",
                        !.kept = {[qid |-> i, type |-> rows[i].type] :
                                    i \in {j \in Taken(g) : given[j] # {}}}]]
    /\ UNCHANGED <<event, form, page, save, bounds, lost>>

\* a cancelled registration goes with its answers
RegisterClear(g) ==
    /\ sign[g].pc = "clear"
    /\ status' = [status EXCEPT ![g] = "none"] /\ answers' = [answers EXCEPT ![g] = {}]
    /\ sign' = [sign EXCEPT ![g].pc = "create"]
    /\ UNCHANGED <<rows, control, switches, form, page, save, bounds, lost>>

FaultyStored(g) == sign[g].kept     \* and breaks the foreign key

\* answers whose question was deleted meanwhile are dropped
Stored(g) == {k \in sign[g].kept : k.qid \in Live}

\* under the lock
RegisterCreate(g) ==
    /\ sign[g].pc = "create"
    /\ status' = [status EXCEPT ![g] = "active"]
    /\ answers' = [answers EXCEPT ![g] =
         {[qid |-> f.qid, as |-> f.type, raced |-> sign[g].raced \/ Underway # {}] :
            f \in Stored(g)}]
    /\ sign' = [sign EXCEPT ![g] = NoSign]
    /\ UNCHANGED <<rows, control, switches, form, page, save, bounds, lost>>

Cancel(g) ==
    /\ status[g] = "active"
    /\ status' = [status EXCEPT ![g] = "cancelled"]
    /\ UNCHANGED <<rows, control, switches, answers, form, sign, page, save, bounds, lost>>

\* a super admin's switch: the opposite of what the page shows, which may be old.
\* The buttons are never disabled: one admin can have several under way
SwitchRead(k, on) ==
    /\ acts < MaxActs
    /\ switches' = switches \cup {[no |-> acts, key |-> k, on |-> on, seen |-> control]}
    /\ acts' = acts + 1
    /\ UNCHANGED <<rows, control, status, answers, form, sign, page, save, edits, saves, lost>>

\* the whole row of app_settings, from what was read
Switched(s) == [s.seen EXCEPT ![s.key] = s.on]

SetQuestionControl(s) ==
    /\ control' = Switched(s) /\ switches' = switches \ {s}
    /\ sign' = [g \in Guests |-> IF sign[g].pc = "idle" THEN sign[g]
                                 ELSE [sign[g] EXCEPT !.on = @ \cup On']]
    /\ UNCHANGED <<rows, status, answers, form, page, save, bounds, lost>>

(***************************************************************************)
(* What the organizers read: the dashboard, the tools and the export.      *)
(***************************************************************************)
\* an answer is printed by the type its question has now
Loaded(g) == {[qid |-> a.qid, type |-> rows[a.qid].type] : a \in {b \in answers[g] : b.qid \in Live}}

FaultyColumns == {i \in Live : rows[i].visible}

\* hidden questions keep their column
Columns == Live

Exported(g) == {r \in Loaded(g) : r.qid \in Columns}

\* createEvent: the standard fields, visible if the club collects them and the
\* organizer wants them; custom rows come by the first save.  The event is there
\* before its questions: it stays without any if the process dies in between
Created ==
    \/ rows = <<>>
    \/ \E order \in [1 .. Cardinality(Keys) -> Keys] :
         /\ \A k \in Keys : \E i \in DOMAIN order : order[i] = k
         /\ \E wanted \in SUBSET Keys, t \in Types \ Picks :
              rows = [i \in DOMAIN order |->
                        [key |-> order[i], type |-> t, live |-> TRUE, draft |-> 0,
                         visible |-> control[order[i]] /\ order[i] \in wanted]]

Init ==
    /\ control \in [Keys -> BOOLEAN] /\ Created /\ switches = {}
    /\ status = [g \in Guests |-> "none"] /\ answers = [g \in Guests |-> {}]
    /\ form = [g \in Guests |-> {}] /\ sign = [g \in Guests |-> NoSign]
    /\ page = [p \in Pages |-> Closed] /\ save = [p \in Pages |-> NoSave]
    /\ edits = 0 /\ saves = 0 /\ acts = 0 /\ lost = FALSE

Next ==
    \/ \E p \in Pages :
         \/ Load(p) \/ SaveQuestions(p) \/ SaveReply(p) \/ SaveLost(p)
         \/ SaveRead(p) \/ Validate(p) \/ Apply(p)
         \/ \E t \in Types \ Picks : AddQuestion(p, t)
         \/ \E d \in page[p].list :
              \/ \E t \in Types : Retype(p, d, t)
              \/ RemoveQuestion(p, d) \/ ShowAgain(p, d) \/ SwitchField(p, d)
    \/ \E g \in Guests :
         \/ OpenForm(g) \/ Submit(g) \/ Cancel(g)
         \/ RegisterRead(g) \/ RegisterClear(g) \/ RegisterCreate(g)
         \/ \E required \in BOOLEAN : RegisterCheck(g, required)
    \/ \E k \in Keys, on \in BOOLEAN : SwitchRead(k, on)
    \/ \E s \in switches : SetQuestionControl(s)

Spec == Init /\ [][Next]_vars
-----------------------------------------------------------------------------
(***************************************************************************)
(* Properties.                                                             *)
(***************************************************************************)
\* Every variable keeps its type, and answers belong to questions that exist.
TypeOK ==
    /\ rows \in Seq(Rows) /\ control \in [Keys -> BOOLEAN] /\ switches \subseteq Switches
    /\ status \in [Guests -> {"none", "active", "cancelled"}] /\ answers \in [Guests -> SUBSET Answers]
    /\ form \in [Guests -> SUBSET Fields] /\ sign \in [Guests -> Signs]
    /\ page \in [Pages -> Builders] /\ save \in [Pages -> Saves]
    /\ {edits, saves, acts} \subseteq Nat /\ lost \in BOOLEAN
    /\ Answered \subseteq Live

\* No save of an organizer destroys an answer that somebody gave, however stale
\* the list it is based on: answers go only when their guest signs up again.
AnswersKept ==
    [][\A g \in Guests : sign[g].pc # "clear" => answers[g] \subseteq answers'[g]]_vars

\* The variables keep their types, and whatever becomes of its question, an answer
\* is in the export, read by the type and options it was given for, unless a save
\* was under way while it was given.
AnswersFit ==
    /\ TypeOK
    /\ \A g \in Guests : \A a \in answers[g] :
         \E r \in Exported(g) : r.qid = a.qid /\ (a.raced \/ r.type = a.as)

\* A question added once on a page is one row, however often the page saves; only
\* an answer of the server that got lost makes it two.
SavedOnce ==
    lost \/ \A i, j \in DOMAIN rows : rows[i].draft = rows[j].draft /\ rows[i].draft # 0 => i = j

\* A field switched off club-wide is not collected by signups sent after that,
\* whatever the event's own switch, an old form or an old edit page says.
OffMeansOff ==
    [][\A g \in Guests : sign[g].pc = "create" =>
         \A a \in answers'[g] \ answers[g] : rows[a.qid].key \in sign[g].on \cup {NoKey}]_vars
=============================================================================
