--------------------------- MODULE QuestionsProofs ---------------------------
(***************************************************************************)
(* The questions of an event and the answers to them, for every set of     *)
(* guests, edit pages and fields and whatever the bounds: answers survive  *)
(* and fit, a question is made once, and a field that is off is not asked. *)
(***************************************************************************)
EXTENDS Questions, FiniteSetTheorems, SequenceTheorems, TLAPS

(***************************************************************************)
(* The inductive invariant.                                                *)
(***************************************************************************)
\* A row of a builder is a draft that was never saved, or the copy of a question,
\* whose kind never changes.
Drawn(d) ==
    \/ d.qid = 0 /\ d.key = NoKey /\ 1 <= d.draft /\ d.draft <= edits
    \/ d.qid \in DOMAIN rows /\ d.key = rows[d.qid].key
Unsaved(p) == {d \in page[p].list : d.qid = 0}

\* A draft is in one row of one builder.
Drafting ==
    /\ \A i \in DOMAIN rows : rows[i].draft <= edits
    /\ \A p \in Pages : IsFiniteSet(page[p].list) /\ \A d \in page[p].list : Drawn(d)
    /\ \A p, q \in Pages : \A d \in Unsaved(p), e \in Unsaved(q) : d.draft = e.draft => p = q /\ d = e

\* The builder is frozen while its save is pending.
Saving == \A p \in Pages : save[p].pc # "idle" => save[p].body = Payload(p)

\* A draft has no question yet, until its save is applied; from then on the page
\* waits for the answer that replaces its drafts.
Fresh(p) == \A d \in Unsaved(p), i \in DOMAIN rows : rows[i].draft # d.draft
Once == lost \/ (SavedOnce /\ \A p \in Pages : save[p].pc # "done" => Fresh(p))

\* An answer that raced with no save is read by its own type, and so it is by every
\* save that has read the types since.
Fitting ==
    \A g \in Guests : \A a \in answers[g] : a.raced \/
        /\ rows[a.qid].type = a.as
        /\ \A p \in Pages :
             /\ save[p].pc \in {"count", "apply"} =>
                  \A f \in save[p].existing : f.qid = a.qid => f.type = a.as
             /\ save[p].pc = "apply" =>
                  \A d \in save[p].body : d.qid = a.qid /\ d.key = NoKey => d.type = a.as

\* What a signup keeps was asked of it, by fields that were on since it was sent.
Signing ==
    \A g \in Guests :
        /\ sign[g].pc # "idle" => On \subseteq sign[g].on
        /\ sign[g].pc \in {"questions", "clear", "create"} => sign[g].asks \subseteq sign[g].on
        /\ sign[g].pc \in {"clear", "create"} => \A f \in sign[g].kept :
             /\ f.qid \in DOMAIN rows /\ rows[f.qid].key \in sign[g].asks \cup {NoKey}
             /\ sign[g].raced \/ rows[f.qid].type = f.type
        /\ sign[g].pc = "create" => answers[g] = {}

Inv == TypeOK /\ Drafting /\ Saving /\ Once /\ Fitting /\ Signing

(***************************************************************************)
(* The questions a save adds: drafts are numbered, so counting the smaller *)
(* ones puts them in order.                                                *)
(***************************************************************************)
Below(N, d) == {e \in N : e.draft < d.draft}

LEMMA BelowGrows ==
    ASSUME NEW N, N \subseteq Drafts, IsFiniteSet(N), NEW d \in N, NEW e \in N, d.draft < e.draft
    PROVE  Cardinality(Below(N, d)) < Cardinality(Below(N, e))
<1>1. d.draft \in Nat /\ e.draft \in Nat /\ \A f \in N : f.draft \in Nat
  BY DEF Drafts
<1>2. Below(N, d) \subseteq Below(N, e) /\ d \in Below(N, e) /\ d \notin Below(N, d)
  BY <1>1 DEF Below
<1>3. IsFiniteSet(Below(N, e))
  BY FS_Subset DEF Below
<1> QED BY <1>2, <1>3, FS_Subset, FS_CardinalityType

\* Every place in the order is taken by just one draft.
LEMMA NthDraft ==
    ASSUME NEW N, N \subseteq Drafts, IsFiniteSet(N),
           \A d, e \in N : d.draft = e.draft => d = e
    PROVE  \A k \in 1 .. Cardinality(N) : \E d \in N : Cardinality(Below(N, d)) = k - 1
<1>1. PICK n \in Nat : n = Cardinality(N)
  BY FS_CardinalityType
<1>2. PICK rank : rank = [d \in N |-> Cardinality(Below(N, d))]
  OBVIOUS
<1>3. ASSUME NEW d \in N PROVE rank[d] \in 0 .. n - 1
  <2>1. Below(N, d) \subseteq N /\ d \notin Below(N, d)
    BY DEF Below, Drafts
  <2>2. Cardinality(Below(N, d)) \in Nat /\ Cardinality(Below(N, d)) < n
    BY <1>1, <2>1, FS_Subset, FS_CardinalityType
  <2> QED BY <1>2, <2>2
<1>4. ASSUME NEW d \in N, NEW e \in N, rank[d] = rank[e] PROVE d = e
  <2>1. d.draft \in Nat /\ e.draft \in Nat
    BY DEF Drafts
  <2>2. ~ (d.draft < e.draft) /\ ~ (e.draft < d.draft)
    BY <1>2, <1>3, <1>4, BelowGrows
  <2> QED BY <2>1, <2>2
<1>5. PICK T : T = {rank[d] : d \in N}
  OBVIOUS
<1>6. T \subseteq 0 .. n - 1
  BY <1>3, <1>5
<1>7. IsFiniteSet(0 .. n - 1) /\ Cardinality(0 .. n - 1) = n
  <2>1. n - 1 \in Int /\ 0 \in Int /\ (IF 0 > n - 1 THEN 0 ELSE n - 1 - 0 + 1) = n
    BY <1>1
  <2> QED BY <2>1, FS_Interval
<1>8. rank \in Bijection(N, T)
  <2>1. rank \in Injection(N, T)
    BY <1>2, <1>4, <1>5 DEF Injection, IsInjective
  <2>2. rank \in Surjection(N, T)
    BY <1>2, <1>5 DEF Surjection
  <2> QED BY <2>1, <2>2 DEF Bijection
<1>9. Cardinality(T) = n
  BY <1>1, <1>8, FS_Bijection DEF ExistsBijection
<1>10. T = 0 .. n - 1
  BY <1>6, <1>7, <1>9, FS_Subset
<1>11. ASSUME NEW k \in 1 .. n PROVE \E d \in N : rank[d] = k - 1
  <2>1. k - 1 \in T
    BY <1>1, <1>10
  <2> QED BY <1>5, <2>1
<1> QED BY <1>1, <1>2, <1>11

LEMMA IsASequence ==
    ASSUME NEW n \in Nat, NEW S, NEW s \in [1 .. n -> S]
    PROVE  s \in Seq(S) /\ Len(s) = n
OBVIOUS

\* The rows a save adds, one for each of its drafts.
RowOf(d) == [key |-> NoKey, type |-> d.type, visible |-> d.visible, live |-> TRUE, draft |-> d.draft]

New(p) == {d \in save[p].body : d.qid = 0}

LEMMA InsertedRows ==
    ASSUME NEW p \in Pages, New(p) \subseteq Drafts, IsFiniteSet(New(p)),
           \A d, e \in New(p) : d.draft = e.draft => d = e
    PROVE  /\ Inserted(p) \in Seq(Rows) /\ Len(Inserted(p)) = Cardinality(New(p))
           /\ \A k \in 1 .. Cardinality(New(p)) : \E d \in New(p) :
                Cardinality(Below(New(p), d)) = k - 1 /\ Inserted(p)[k] = RowOf(d)
<1>0. PICK N : N = New(p)
  OBVIOUS
<1>1. Cardinality(N) \in Nat /\ N \subseteq Drafts /\ \A d, e \in N : d.draft = e.draft => d = e
  BY <1>0, FS_CardinalityType
<1>2. PICK nth : nth = [k \in 1 .. Cardinality(N) |->
                          CHOOSE d \in N : Cardinality(Below(N, d)) = k - 1]
  OBVIOUS
<1>3. \A k \in 1 .. Cardinality(N) : nth[k] \in N /\ Cardinality(Below(N, nth[k])) = k - 1
  BY <1>0, <1>1, <1>2, NthDraft
<1>4. PICK s : s = [k \in 1 .. Cardinality(N) |-> RowOf(nth[k])]
  OBVIOUS
<1>5. Inserted(p) = s
  BY <1>0, <1>2, <1>4 DEF Inserted, Below, RowOf, New
<1>6. ASSUME NEW d \in N PROVE RowOf(d) \in Rows
  BY <1>1 DEF RowOf, Drafts, Rows
<1>7. s \in [1 .. Cardinality(N) -> Rows]
  BY <1>3, <1>4, <1>6
<1>8. s \in Seq(Rows) /\ Len(s) = Cardinality(N)
  <2>1. PICK n \in Nat : n = Cardinality(N)
    BY <1>1
  <2>2. s \in [1 .. n -> Rows]
    BY <1>7, <2>1
  <2> QED BY <2>1, <2>2, IsASequence
<1> QED BY <1>0, <1>3, <1>4, <1>5, <1>8

\* What a save leaves of the questions there are.
LEMMA KeptRows ==
    ASSUME TypeOK, NEW p \in Pages
    PROVE  /\ Kept(p) \in Seq(Rows) /\ Len(Kept(p)) = Len(rows)
           /\ \A i \in DOMAIN rows :
                /\ Kept(p)[i] \in Rows
                /\ Kept(p)[i].key = rows[i].key /\ Kept(p)[i].draft = rows[i].draft
                /\ i \in Answered => Kept(p)[i].live
                /\ \/ Kept(p)[i].type = rows[i].type
                   \/ /\ rows[i].key = NoKey
                      /\ \E d \in save[p].body : d.qid = i /\ Kept(p)[i].type = d.type
<1>1. rows \in Seq(Rows) /\ Answered \subseteq Live /\ save[p].body \subseteq Drafts
  BY DEF TypeOK, Saves
<1>2. DOMAIN Kept(p) = DOMAIN rows
  BY DEF Kept
<1>3. ASSUME NEW i \in DOMAIN rows
      PROVE  /\ Kept(p)[i] \in Rows
             /\ Kept(p)[i].key = rows[i].key /\ Kept(p)[i].draft = rows[i].draft
             /\ i \in Answered => Kept(p)[i].live
             /\ \/ Kept(p)[i].type = rows[i].type
                \/ /\ rows[i].key = NoKey
                   /\ \E d \in save[p].body : d.qid = i /\ Kept(p)[i].type = d.type
  <2>1. PICK r : r = rows[i]
    OBVIOUS
  <2>2. r \in Rows
    BY <1>1, <2>1
  <2>3. CASE i \notin Live
    BY <1>1, <2>1, <2>2, <2>3 DEF Kept
  <2>4. CASE i \in Live /\ \E d \in save[p].body : d.qid = i
    <3>1. PICK d \in save[p].body : d.qid = i /\ Kept(p)[i] = Updated(p, i, d)
      BY <2>4 DEF Kept
    <3>2. d \in Drafts /\ r.live
      BY <1>1, <2>1, <2>4 DEF Live
    <3>3. CASE r.key # NoKey
      <4>1. Kept(p)[i] = [r EXCEPT !.visible = d.visible]
        BY <2>1, <3>1, <3>3 DEF Updated
      <4> QED BY <2>1, <2>2, <3>2, <4>1 DEF Rows, Drafts
    <3>4. CASE r.key = NoKey
      <4>1. Kept(p)[i] = [r EXCEPT !.type = d.type, !.visible = d.visible]
        BY <2>1, <3>1, <3>4 DEF Updated
      <4> QED BY <2>1, <2>2, <3>1, <3>2, <3>4, <4>1 DEF Rows, Drafts
    <3> QED BY <3>3, <3>4
  <2>5. CASE i \in Live /\ (~ \E d \in save[p].body : d.qid = i) /\ r.key = NoKey
    <3>1. CASE i \in Answered
      <4>1. Kept(p)[i] = [r EXCEPT !.visible = FALSE, !.live = TRUE]
        BY <2>1, <2>5, <3>1 DEF Kept, Dropped
      <4> QED BY <2>1, <2>2, <4>1 DEF Rows
    <3>2. CASE i \notin Answered
      <4>a. (i \in Answered) = FALSE
        BY <3>2
      <4>1. Kept(p)[i] = [r EXCEPT !.visible = FALSE, !.live = FALSE]
        BY <2>1, <2>5, <4>a DEF Kept, Dropped
      <4> QED BY <2>1, <2>2, <3>2, <4>1 DEF Rows
    <3> QED BY <3>1, <3>2
  <2>6. CASE i \in Live /\ (~ \E d \in save[p].body : d.qid = i) /\ r.key # NoKey
    <3>1. Kept(p)[i] = r
      BY <2>1, <2>6 DEF Kept
    <3> QED BY <2>1, <2>2, <2>6, <3>1 DEF Live
  <2> QED BY <2>3, <2>4, <2>5, <2>6
<1>4. Kept(p) \in [1 .. Len(rows) -> Rows] /\ Len(rows) \in Nat
  <2>1. Kept(p) = [i \in DOMAIN rows |-> Kept(p)[i]]
    BY DEF Kept
  <2> QED BY <1>1, <1>3, <2>1
<1>5. Kept(p) \in Seq(Rows) /\ Len(Kept(p)) = Len(rows)
  BY <1>4
<1> QED BY <1>3, <1>5

\* What a page sends: its drafts, each once.
LEMMA SentRows ==
    ASSUME TypeOK, Drafting, Saving, NEW p \in Pages, save[p].pc # "idle"
    PROVE  /\ save[p].body \subseteq Drafts /\ IsFiniteSet(save[p].body)
           /\ \A d \in save[p].body : Drawn(d)
           /\ \A d \in save[p].body : d.qid = 0 => \E e \in Unsaved(p) : e.draft = d.draft
           /\ \A d, e \in save[p].body : d.qid = 0 /\ e.qid = 0 /\ d.draft = e.draft => d = e
<1>1. PICK list : list = page[p].list
  OBVIOUS
<1>2. list \subseteq Drafts /\ IsFiniteSet(list) /\ \A d \in list : Drawn(d)
  BY <1>1 DEF TypeOK, Builders, Drafting
<1>3. PICK F : F = [d \in list |-> [d EXCEPT !.visible = @ /\ (d.key = NoKey \/ d.key \in page[p].known)]]
  OBVIOUS
<1>4. save[p].body = {F[d] : d \in list}
  BY <1>1, <1>3 DEF Saving, Payload
<1>5. ASSUME NEW d \in list
      PROVE  F[d] \in Drafts /\ F[d].qid = d.qid /\ F[d].key = d.key /\ F[d].draft = d.draft
  <2>1. PICK b \in BOOLEAN : b = (d.visible /\ (d.key = NoKey \/ d.key \in page[p].known))
    OBVIOUS
  <2>2. F[d] = [d EXCEPT !.visible = b]
    BY <1>3, <2>1
  <2> QED BY <1>2, <2>2 DEF Drafts
<1>6. F \in Surjection(list, save[p].body)
  BY <1>3, <1>4 DEF Surjection
<1>7. IsFiniteSet(save[p].body)
  BY <1>2, <1>6, FS_Surjection
<1>8. \A d, e \in list : d.qid = 0 /\ e.qid = 0 /\ d.draft = e.draft => d = e
  BY <1>1 DEF Drafting, Unsaved
<1>9. \A d \in list : d.qid = 0 => d \in Unsaved(p)
  BY <1>1 DEF Unsaved
<1>10. \A d \in save[p].body : Drawn(d)
  BY <1>2, <1>4, <1>5 DEF Drawn
<1> QED BY <1>4, <1>5, <1>7, <1>8, <1>9, <1>10

LEMMA InitHolds == Init => Inv
<1> SUFFICES ASSUME Init PROVE Inv
  OBVIOUS
<1> USE QuestionsAssumption
<1>1. /\ answers = [g \in Guests |-> {}] /\ sign = [g \in Guests |-> NoSign]
      /\ page = [p \in Pages |-> Closed] /\ save = [p \in Pages |-> NoSave]
      /\ edits = 0 /\ saves = 0 /\ acts = 0 /\ lost = FALSE
  BY DEF Init
<1>2. rows \in Seq(Rows) /\ \A i \in DOMAIN rows : rows[i].draft = 0
  <2>1. CASE rows = <<>>
    BY <2>1, EmptySeq
  <2>2. CASE rows # <<>>
    <3>0. PICK order \in [1 .. Cardinality(Keys) -> Keys] :
             \E wanted \in SUBSET Keys, t \in Types \ Picks :
               rows = [i \in DOMAIN order |->
                        [key |-> order[i], type |-> t, live |-> TRUE, draft |-> 0,
                         visible |-> control[order[i]] /\ order[i] \in wanted]]
      <4>1. Created
        BY DEF Init
      <4> QED BY <2>2, <4>1 DEF Created
    <3>1. PICK wanted \in SUBSET Keys, t \in Types \ Picks :
             rows = [i \in DOMAIN order |->
                        [key |-> order[i], type |-> t, live |-> TRUE, draft |-> 0,
                         visible |-> control[order[i]] /\ order[i] \in wanted]]
      BY <3>0
    <3>2. PICK n \in Nat : n = Cardinality(Keys)
      BY FS_CardinalityType
    <3>3. ASSUME NEW i \in 1 .. n PROVE rows[i] \in Rows /\ rows[i].draft = 0
      <4>1. PICK b \in BOOLEAN : b = (control[order[i]] /\ order[i] \in wanted)
        OBVIOUS
      <4>2. rows[i] = [key |-> order[i], type |-> t, live |-> TRUE, draft |-> 0, visible |-> b]
        BY <3>1, <3>2, <4>1
      <4>3. order[i] \in Keys
        BY <3>1, <3>2
      <4> QED BY <4>2, <4>3 DEF Rows
    <3>4. rows \in [1 .. n -> Rows]
      <4>1. rows = [i \in 1 .. n |-> rows[i]]
        BY <3>1, <3>2
      <4> QED BY <3>3, <4>1
    <3> QED BY <3>2, <3>3, <3>4, IsASequence
  <2> QED BY <2>1, <2>2
<1>3. Answered = {}
  BY <1>1 DEF Answered
<1>4. TypeOK
  <2>1. NoSign \in Signs /\ Closed \in Builders /\ NoSave \in Saves
    BY DEF NoSign, Signs, Closed, Builders, NoSave, Saves
  <2>2. form \in [Guests -> SUBSET Fields] /\ control \in [Keys -> BOOLEAN] /\ switches = {}
        /\ status \in [Guests -> {"none", "active", "cancelled"}]
    BY DEF Init
  <2>3. /\ answers \in [Guests -> SUBSET Answers] /\ sign \in [Guests -> Signs]
        /\ page \in [Pages -> Builders] /\ save \in [Pages -> Saves]
    BY <1>1, <2>1
  <2>4. lost \in BOOLEAN
    BY <1>1
  <2>6. {edits, saves, acts} \subseteq Nat /\ switches \subseteq Switches
    BY <1>1, <2>2
  <2>5. Answered \subseteq Live
    BY <1>3
  <2> QED BY <1>2, <2>2, <2>3, <2>4, <2>5, <2>6 DEF TypeOK
<1>5. Drafting
  <2>1. \A p \in Pages : page[p].list = {}
    BY <1>1 DEF Closed
  <2>2. \A p \in Pages : IsFiniteSet(page[p].list) /\ Unsaved(p) = {}
    BY <2>1, FS_EmptySet DEF Unsaved
  <2>3. \A i \in DOMAIN rows : rows[i].draft <= edits
    BY <1>1, <1>2
  <2> QED BY <2>1, <2>2, <2>3 DEF Drafting
<1>6. Saving /\ Once
  <2>1. \A p \in Pages : save[p].pc = "idle" /\ Unsaved(p) = {}
    BY <1>1 DEF NoSave, Closed, Unsaved
  <2>2. SavedOnce
    BY <1>2 DEF SavedOnce
  <2> QED BY <2>1, <2>2 DEF Saving, Once, Fresh
<1>7. Fitting /\ Signing
  BY <1>1 DEF Fitting, Signing, NoSign
<1> QED BY <1>4, <1>5, <1>6, <1>7 DEF Inv

(***************************************************************************)
(* The edit page.                                                          *)
(***************************************************************************)
\* A builder changes: what it shows are questions and drafts of its own.
LEMMA PageStep ==
    ASSUME Inv, NEW p \in Pages, NEW b \in Builders, page' = [page EXCEPT ![p] = b],
           UNCHANGED <<event, form, sign, saves, acts, lost>>, edits' \in Nat, edits <= edits',
           (save[p].pc = "idle" /\ UNCHANGED save) \/ save' = [save EXCEPT ![p] = NoSave],
           IsFiniteSet(b.list), \A d \in b.list : Drawn(d)',
           \A d \in b.list : d.qid = 0 =>
             \/ save[p].pc # "done" /\ \E e \in Unsaved(p) : e.draft = d.draft
             \/ edits < d.draft,
           \A d, e \in b.list : d.qid = 0 /\ e.qid = 0 /\ d.draft = e.draft => d = e
    PROVE  Inv'
<1>1. /\ TypeOK /\ Drafting /\ Saving /\ Once /\ Fitting /\ Signing
      /\ page \in [Pages -> Builders] /\ save \in [Pages -> Saves] /\ edits \in Nat
      /\ \A i \in DOMAIN rows : rows[i].draft \in Nat
  <2>1. \A i \in DOMAIN rows : rows[i] \in Rows
    BY DEF Inv, TypeOK
  <2> QED BY <2>1 DEF Inv, TypeOK, Rows
<1>2. page'[p] = b /\ \A q \in Pages : q # p => page'[q] = page[q]
  BY <1>1
<1>3. /\ save'[p].pc = "idle" /\ save' \in [Pages -> Saves]
      /\ \A q \in Pages : q # p => save'[q] = save[q]
  <2>1. NoSave \in Saves /\ NoSave.pc = "idle"
    BY DEF NoSave, Saves
  <2> QED BY <1>1, <2>1
<1>4. UNCHANGED <<rows, control, switches, status, answers, form, sign, saves, acts, lost>>
  BY DEF event
<1>5. TypeOK'
  BY <1>1, <1>2, <1>3, <1>4 DEF TypeOK, Answered, Live
<1>6. \A q \in Pages : Unsaved(q) \subseteq Drafts /\ \A d \in Unsaved(q) : d.draft \in Nat /\ d.draft <= edits
  <2>1. \A q \in Pages : \A d \in page[q].list : d \in Drafts /\ Drawn(d)
    BY <1>1 DEF Builders, Drafting
  <2>2. \A i \in DOMAIN rows : i # 0
    BY DEF Inv, TypeOK
  <2> QED BY <2>1, <2>2 DEF Unsaved, Drafts, Drawn
<1>7. Drafting'
  <2>1. \A q \in Pages : q # p => Unsaved(q)' = Unsaved(q)
    BY <1>2 DEF Unsaved
  <2>2. Unsaved(p)' = {d \in b.list : d.qid = 0}
    BY <1>2 DEF Unsaved
  <2>3. ASSUME NEW q \in Pages PROVE IsFiniteSet(page'[q].list) /\ \A d \in page'[q].list : Drawn(d)'
    <3>1. CASE q = p
      BY <1>2, <3>1
    <3>2. CASE q # p
      <4>1. \A d \in page[q].list : d.draft \in Nat /\ Drawn(d)
        BY <1>1 DEF Drafting, Builders, Drafts
      <4> QED BY <1>1, <1>2, <1>4, <3>2, <4>1 DEF Drafting, Drawn
    <3> QED BY <3>1, <3>2
  <2>4. ASSUME NEW q \in Pages, q # p, NEW d \in Unsaved(p)', NEW e \in Unsaved(q)' PROVE d.draft # e.draft
    <3>1. e \in Unsaved(q) /\ d \in b.list /\ d.qid = 0
      BY <2>1, <2>2, <2>4
    <3>2. CASE edits < d.draft
      BY <1>1, <1>6, <3>1, <3>2
    <3>3. CASE \E f \in Unsaved(p) : f.draft = d.draft
      BY <1>1, <2>4, <3>1, <3>3 DEF Drafting
    <3> QED BY <3>1, <3>2, <3>3
  <2>5. \A d, e \in Unsaved(p)' : d.draft = e.draft => d = e
    BY <2>2
  <2>6. ASSUME NEW q \in Pages, NEW r \in Pages, NEW d \in Unsaved(q)', NEW e \in Unsaved(r)', d.draft = e.draft
        PROVE  q = r /\ d = e
    <3>1. CASE q = p /\ r = p
      BY <2>5, <2>6, <3>1
    <3>2. CASE q # p /\ r # p
      BY <1>1, <2>1, <2>6, <3>2 DEF Drafting
    <3>3. CASE (q = p /\ r # p) \/ (q # p /\ r = p)
      BY <2>4, <2>6, <3>3
    <3> QED BY <3>1, <3>2, <3>3
  <2>7. \A i \in DOMAIN rows : rows[i].draft <= edits'
    BY <1>1 DEF Drafting
  <2> QED BY <1>4, <2>3, <2>6, <2>7 DEF Drafting
<1>8. Saving'
  BY <1>1, <1>2, <1>3 DEF Saving, Payload
<1>9. Once'
  <2> SUFFICES ASSUME ~ lost PROVE SavedOnce' /\ \A q \in Pages : save'[q].pc # "done" => Fresh(q)'
    BY <1>4 DEF Once
  <2>1. SavedOnce'
    BY <1>1, <1>4 DEF Once, SavedOnce
  <2>2. ASSUME NEW q \in Pages, q # p, save'[q].pc # "done" PROVE Fresh(q)'
    BY <1>1, <1>2, <1>3, <1>4, <2>2 DEF Once, Fresh, Unsaved
  <2>3. ASSUME NEW d \in b.list, d.qid = 0, NEW i \in DOMAIN rows PROVE rows[i].draft # d.draft
    <3>1. CASE edits < d.draft
      BY <1>1, <3>1 DEF Drafting
    <3>2. CASE save[p].pc # "done" /\ \E e \in Unsaved(p) : e.draft = d.draft
      BY <1>1, <3>2 DEF Once, Fresh
    <3> QED BY <2>3, <3>1, <3>2
  <2>4. Fresh(p)'
    BY <1>2, <1>4, <2>3 DEF Fresh, Unsaved
  <2> QED BY <2>1, <2>2, <2>4
<1>10. Fitting'
  <2>1. \A q \in Pages : save'[q].pc \in {"count", "apply"} => save'[q] = save[q]
    BY <1>3
  <2> QED BY <1>1, <1>4, <2>1 DEF Fitting
<1>11. Signing'
  BY <1>1, <1>4 DEF Signing, On
<1> QED BY <1>5, <1>7, <1>8, <1>9, <1>10, <1>11 DEF Inv

\* What the server says the questions are.
LEMMA Served ==
    ASSUME Inv
    PROVE  /\ OrgQuestions \subseteq Drafts /\ IsFiniteSet(OrgQuestions)
           /\ \A d \in OrgQuestions : Drawn(d) /\ d.qid # 0
<1>1. rows \in Seq(Rows) /\ Live \subseteq DOMAIN rows /\ DOMAIN rows = 1 .. Len(rows) /\ Len(rows) \in Nat
  BY DEF Inv, TypeOK, Live
<1>2. ASSUME NEW i \in Live
      PROVE  ToDraft(i) \in Drafts /\ ToDraft(i).qid = i /\ ToDraft(i).key = rows[i].key
  <2>1. rows[i] \in Rows /\ i \in Nat
    BY <1>1
  <2>2. (i \in Answered) \in BOOLEAN
    OBVIOUS
  <2> QED BY <2>1, <2>2 DEF ToDraft, Drafts, Rows
<1>3. PICK F : F = [i \in Live |-> ToDraft(i)]
  OBVIOUS
<1>4. OrgQuestions = {F[i] : i \in Live}
  BY <1>3 DEF OrgQuestions
<1>5. IsFiniteSet(Live)
  <2>1. PICK n \in Nat : n = Len(rows)
    BY <1>1
  <2>2. IsFiniteSet(1 .. n) /\ Live \subseteq 1 .. n
    BY <1>1, <2>1, FS_Interval
  <2> QED BY <2>2, FS_Subset
<1>6. F \in Surjection(Live, OrgQuestions)
  BY <1>3, <1>4 DEF Surjection
<1>7. IsFiniteSet(OrgQuestions)
  BY <1>5, <1>6, FS_Surjection
<1>8. \A d \in OrgQuestions : d \in Drafts /\ \E i \in Live : d.qid = i /\ d.key = rows[i].key
  BY <1>2, <1>3, <1>4
<1>9. ASSUME NEW d \in OrgQuestions PROVE Drawn(d) /\ d.qid # 0
  BY <1>1, <1>8 DEF Drawn
<1> QED BY <1>7, <1>8, <1>9

LEMMA LoadStep == ASSUME Inv, NEW p \in Pages, Load(p) PROVE Inv'
<1>1. PICK b : b = [open |-> TRUE, list |-> OrgQuestions, known |-> On]
  OBVIOUS
<1>2. b \in Builders /\ b.list = OrgQuestions
  BY <1>1, Served DEF Builders, On
<1>3. /\ page' = [page EXCEPT ![p] = b] /\ save[p].pc = "idle"
      /\ UNCHANGED <<event, form, sign, save, saves, acts, lost, edits>>
  BY <1>1 DEF Load, bounds
<1>4. edits' \in Nat /\ edits <= edits'
  BY <1>3 DEF Inv, TypeOK
<1>5. \A d \in b.list : Drawn(d)'
  BY <1>2, <1>3, Served DEF Drawn, event
<1> QED BY <1>2, <1>3, <1>4, <1>5, Served, PageStep

LEMMA ReplyStep == ASSUME Inv, NEW p \in Pages, SaveReply(p) PROVE Inv'
<1>0. /\ page \in [Pages -> Builders] /\ edits \in Nat
      /\ UNCHANGED <<event, form, sign, saves, acts, lost, edits>> /\ save' = [save EXCEPT ![p] = NoSave]
  BY DEF SaveReply, bounds, Inv, TypeOK
<1>a. edits' \in Nat /\ edits <= edits'
  BY <1>0
<1>1. CASE save[p].pc = "done"
  <2>1. PICK b : b = [page[p] EXCEPT !.list = OrgQuestions]
    OBVIOUS
  <2>2. b \in Builders /\ b.list = OrgQuestions
    BY <1>0, <2>1, Served DEF Builders
  <2>3. page' = [page EXCEPT ![p] = b]
    BY <1>0, <1>1, <2>1 DEF SaveReply, Saved
  <2>4. \A d \in b.list : Drawn(d)'
    BY <1>0, <2>2, Served DEF Drawn, event
  <2> QED BY <1>0, <1>a, <2>2, <2>3, <2>4, Served, PageStep
<1>2. CASE save[p].pc # "done"
  <2>1. PICK b : b = page[p]
    OBVIOUS
  <2>2. page' = [page EXCEPT ![p] = b] /\ b \in Builders
    BY <1>0, <1>2, <2>1 DEF SaveReply
  <2>3. IsFiniteSet(b.list) /\ \A d \in b.list : Drawn(d)
    BY <2>1 DEF Inv, Drafting
  <2>4. \A d \in b.list : Drawn(d)'
    BY <1>0, <2>3 DEF Drawn, event
  <2>5. \A d \in b.list : d.qid = 0 => d \in Unsaved(p)
    BY <2>1 DEF Unsaved
  <2>6. \A d, e \in b.list : d.qid = 0 /\ e.qid = 0 /\ d.draft = e.draft => d = e
    BY <2>5 DEF Inv, Drafting
  <2> QED BY <1>0, <1>2, <1>a, <2>2, <2>3, <2>4, <2>5, <2>6, PageStep
<1> QED BY <1>1, <1>2

\* An organizer edits: every row that was not there before is a new version of one
\* that was, or the next draft.
LEMMA EditStep ==
    ASSUME Inv, NEW p \in Pages, NEW list, Edit(p, list), list \subseteq Drafts, IsFiniteSet(list),
           \A d \in list : \/ \E e \in page[p].list : e.qid = d.qid /\ e.key = d.key /\ e.draft = d.draft
                           \/ d.qid = 0 /\ d.key = NoKey /\ d.draft = edits + 1,
           \A d, e \in list : d.qid = 0 /\ e.qid = 0 /\ d.draft = e.draft => d = e
    PROVE  Inv'
<1>1. PICK b : b = [page[p] EXCEPT !.list = list]
  OBVIOUS
<1>2. page \in [Pages -> Builders] /\ edits \in Nat /\ Drafting
  BY DEF Inv, TypeOK
<1>3. b \in Builders /\ b.list = list
  BY <1>1, <1>2 DEF Builders
<1>4. /\ page' = [page EXCEPT ![p] = b] /\ save[p].pc = "idle" /\ edits' = edits + 1
      /\ UNCHANGED <<event, form, sign, save, saves, acts, lost>>
  BY <1>1 DEF Edit
<1>5. ASSUME NEW d \in list
      PROVE  /\ Drawn(d)'
             /\ d.qid = 0 => \/ save[p].pc # "done" /\ \E e \in Unsaved(p) : e.draft = d.draft
                             \/ edits < d.draft
  <2>1. CASE \E e \in page[p].list : e.qid = d.qid /\ e.key = d.key /\ e.draft = d.draft
    <3>1. PICK e \in page[p].list : e.qid = d.qid /\ e.key = d.key /\ e.draft = d.draft
      BY <2>1
    <3>2. Drawn(e) /\ e.draft \in Nat
      BY <1>2 DEF Drafting, Builders, Drafts
    <3>3. Drawn(d)'
      BY <1>2, <1>4, <3>1, <3>2 DEF Drawn, event
    <3> QED BY <1>4, <3>1, <3>3 DEF Unsaved
  <2>2. CASE d.qid = 0 /\ d.key = NoKey /\ d.draft = edits + 1
    BY <1>2, <1>4, <2>2 DEF Drawn
  <2> QED BY <2>1, <2>2
<1>6. edits' \in Nat /\ edits <= edits'
  BY <1>2, <1>4
<1> QED BY <1>3, <1>4, <1>5, <1>6, PageStep

\* A row is replaced by another version of itself.
LEMMA SwapStep ==
    ASSUME Inv, NEW p \in Pages, NEW d \in page[p].list, NEW e \in Drafts, Edit(p, Swapped(p, d, e)),
           e.qid = d.qid, e.key = d.key, e.draft = d.draft
    PROVE  Inv'
<1>1. page[p].list \subseteq Drafts /\ IsFiniteSet(page[p].list)
  BY DEF Inv, TypeOK, Builders, Drafting
<1>2. \A f, h \in page[p].list : f.qid = 0 /\ h.qid = 0 /\ f.draft = h.draft => f = h
  BY DEF Inv, Drafting, Unsaved
<1>3. IsFiniteSet(Swapped(p, d, e)) /\ Swapped(p, d, e) \subseteq Drafts
  BY <1>1, FS_RemoveElement, FS_AddElement DEF Swapped
<1>4. \A f \in Swapped(p, d, e) : \E h \in page[p].list : h.qid = f.qid /\ h.key = f.key /\ h.draft = f.draft
  BY DEF Swapped
<1>5. \A f, h \in Swapped(p, d, e) : f.qid = 0 /\ h.qid = 0 /\ f.draft = h.draft => f = h
  BY <1>2 DEF Swapped
<1> QED BY <1>3, <1>4, <1>5, EditStep

LEMMA BuilderStep ==
    ASSUME Inv, NEW p \in Pages,
           \/ \E t \in Types \ Picks : AddQuestion(p, t)
           \/ \E d \in page[p].list :
                \/ \E t \in Types : Retype(p, d, t)
                \/ RemoveQuestion(p, d) \/ ShowAgain(p, d) \/ SwitchField(p, d)
    PROVE  Inv'
<1>1. /\ page[p].list \subseteq Drafts /\ IsFiniteSet(page[p].list) /\ edits \in Nat
      /\ \A d, e \in page[p].list : d.qid = 0 /\ e.qid = 0 /\ d.draft = e.draft => d = e
  BY DEF Inv, TypeOK, Builders, Drafting, Unsaved
<1>2. ASSUME NEW t \in Types \ Picks, AddQuestion(p, t) PROVE Inv'
  <2>1. PICK new : new = [qid |-> 0, key |-> NoKey, type |-> t, visible |-> TRUE,
                          locked |-> FALSE, draft |-> edits + 1]
    OBVIOUS
  <2>2. new \in Drafts /\ new.qid = 0 /\ new.key = NoKey /\ new.draft = edits + 1
    BY <1>1, <2>1 DEF Drafts
  <2>3. PICK list : list = page[p].list \cup {new}
    OBVIOUS
  <2>4. Edit(p, list)
    BY <1>2, <2>1, <2>3 DEF AddQuestion
  <2>5. list \subseteq Drafts /\ IsFiniteSet(list)
    BY <1>1, <2>2, <2>3, FS_AddElement
  <2>6. ASSUME NEW d \in page[p].list, d.qid = 0 PROVE d.draft # new.draft
    <3>1. d.draft \in Nat /\ Drawn(d) /\ rows \in Seq(Rows)
      BY <1>1 DEF Drafts, Inv, Drafting, TypeOK
    <3>2. d.draft <= edits
      BY <2>6, <3>1 DEF Drawn
    <3> QED BY <1>1, <2>2, <3>1, <3>2
  <2>7. \A d, e \in list : d.qid = 0 /\ e.qid = 0 /\ d.draft = e.draft => d = e
    BY <1>1, <2>3, <2>6
  <2> QED BY <2>2, <2>3, <2>4, <2>5, <2>7, EditStep
<1>3. ASSUME NEW d \in page[p].list, NEW t \in Types, Retype(p, d, t) PROVE Inv'
  <2>1. PICK e : e = [d EXCEPT !.type = t]
    OBVIOUS
  <2>2. e \in Drafts /\ e.qid = d.qid /\ e.key = d.key /\ e.draft = d.draft
    BY <1>1, <2>1 DEF Drafts
  <2>3. Edit(p, Swapped(p, d, e))
    BY <1>3, <2>1 DEF Retype
  <2> QED BY <2>2, <2>3, SwapStep
<1>4. ASSUME NEW d \in page[p].list, NEW b \in BOOLEAN, Edit(p, Swapped(p, d, [d EXCEPT !.visible = b])) PROVE Inv'
  <2>1. PICK e : e = [d EXCEPT !.visible = b]
    OBVIOUS
  <2>2. e \in Drafts /\ e.qid = d.qid /\ e.key = d.key /\ e.draft = d.draft
    BY <1>1, <2>1 DEF Drafts
  <2> QED BY <1>4, <2>1, <2>2, SwapStep
<1>5. ASSUME NEW d \in page[p].list, Edit(p, page[p].list \ {d}) PROVE Inv'
  <2>1. PICK list : list = page[p].list \ {d}
    OBVIOUS
  <2>2. list \subseteq Drafts /\ IsFiniteSet(list) /\ list \subseteq page[p].list
    BY <1>1, <2>1, FS_RemoveElement
  <2>3. \A e \in list : \E f \in page[p].list : f.qid = e.qid /\ f.key = e.key /\ f.draft = e.draft
    BY <2>2
  <2> QED BY <1>1, <1>5, <2>1, <2>2, <2>3, EditStep
<1>6. ASSUME NEW d \in page[p].list, RemoveQuestion(p, d) PROVE Inv'
  BY <1>4, <1>5, <1>6 DEF RemoveQuestion
<1>7. ASSUME NEW d \in page[p].list, ShowAgain(p, d) PROVE Inv'
  BY <1>4, <1>7 DEF ShowAgain
<1>8. ASSUME NEW d \in page[p].list, SwitchField(p, d) PROVE Inv'
  <2>1. PICK b \in BOOLEAN : b = ~ d.visible
    OBVIOUS
  <2> QED BY <1>4, <1>8, <2>1 DEF SwitchField
<1> QED BY <1>2, <1>3, <1>6, <1>7, <1>8

(***************************************************************************)
(* The save of a page.                                                     *)
(***************************************************************************)
LEMMA SaveStep ==
    ASSUME Inv, NEW p \in Pages, NEW s \in Saves, save' = [save EXCEPT ![p] = s],
           UNCHANGED <<event, form, sign, page, edits, acts>>, saves' \in Nat, lost' \in BOOLEAN,
           lost => lost', lost' \/ (save[p].pc = "done" => s.pc = "done"),
           s.pc # "idle" => s.body = Payload(p),
           \A g \in Guests : \A a \in answers[g] : a.raced \/ rows[a.qid].type # a.as \/
             /\ s.pc \in {"count", "apply"} => \A f \in s.existing : f.qid = a.qid => f.type = a.as
             /\ s.pc = "apply" => \A d \in s.body : d.qid = a.qid /\ d.key = NoKey => d.type = a.as
    PROVE  Inv'
<1>1. /\ TypeOK /\ Drafting /\ Saving /\ Once /\ Fitting /\ Signing
      /\ save \in [Pages -> Saves]
      /\ UNCHANGED <<rows, control, switches, status, answers, form, sign, page, edits, acts>>
  BY DEF Inv, TypeOK, event
<1>2. /\ save' \in [Pages -> Saves] /\ save'[p] = s
      /\ \A q \in Pages : q # p => save'[q] = save[q]
  BY <1>1
<1>3. TypeOK'
  BY <1>1, <1>2 DEF TypeOK, Answered, Live
<1>4. Drafting' /\ Signing'
  BY <1>1 DEF Drafting, Drawn, Unsaved, Signing, On
<1>5. Saving'
  BY <1>1, <1>2 DEF Saving, Payload
<1>6. Once'
  BY <1>1, <1>2 DEF Once, SavedOnce, Fresh, Unsaved
<1>7. Fitting'
  BY <1>1, <1>2 DEF Fitting
<1> QED BY <1>3, <1>4, <1>5, <1>6, <1>7 DEF Inv

LEMMA SaveSteps ==
    ASSUME Inv, NEW p \in Pages, SaveQuestions(p) \/ SaveLost(p) \/ SaveRead(p) \/ Validate(p)
    PROVE  Inv'
<1>1. /\ save[p] \in Saves /\ page[p] \in Builders /\ saves \in Nat /\ lost \in BOOLEAN
      /\ rows \in Seq(Rows)
      /\ save[p].pc # "idle" => save[p].body = Payload(p)
  BY DEF Inv, TypeOK, Saving
<1>2. CASE SaveQuestions(p)
  <2>1. Payload(p) \subseteq Drafts
    <3>1. ASSUME NEW d \in page[p].list
          PROVE  [d EXCEPT !.visible = @ /\ (d.key = NoKey \/ d.key \in page[p].known)] \in Drafts
      <4>1. PICK b \in BOOLEAN : b = (d.visible /\ (d.key = NoKey \/ d.key \in page[p].known))
        OBVIOUS
      <4>2. [d EXCEPT !.visible = b] \in Drafts
        BY <1>1 DEF Builders, Drafts
      <4> QED BY <4>1, <4>2
    <3> QED BY <3>1 DEF Payload
  <2>2. PICK s : s = [NoSave EXCEPT !.pc = "read", !.body = Payload(p)]
    OBVIOUS
  <2>3. s \in Saves /\ s.pc = "read" /\ s.body = Payload(p)
    BY <2>1, <2>2 DEF NoSave, Saves
  <2>4. /\ save' = [save EXCEPT ![p] = s] /\ save[p].pc = "idle" /\ saves' \in Nat
        /\ UNCHANGED <<event, form, sign, page, edits, acts, lost>>
    BY <1>1, <1>2, <2>2 DEF SaveQuestions
  <2> QED BY <1>1, <2>3, <2>4, SaveStep
<1>3. CASE SaveLost(p)
  <2>1. NoSave \in Saves /\ NoSave.pc = "idle"
    BY DEF NoSave, Saves
  <2>2. /\ save' = [save EXCEPT ![p] = NoSave] /\ lost' = TRUE /\ saves' = saves
        /\ UNCHANGED <<event, form, sign, page, edits, acts>>
    BY <1>3 DEF SaveLost, bounds
  <2> QED BY <1>1, <2>1, <2>2, SaveStep
<1>4. CASE SaveRead(p)
  <2>1. PICK E : E = {[qid |-> i, type |-> rows[i].type] : i \in Live}
    OBVIOUS
  <2>2. E \subseteq Fields
    <3>1. \A i \in Live : i \in Nat /\ rows[i].type \in Types
      <4>1. \A i \in Live : i \in 1 .. Len(rows) /\ Len(rows) \in Nat /\ rows[i] \in Rows
        BY <1>1 DEF Live
      <4> QED BY <4>1 DEF Rows
    <3> QED BY <2>1, <3>1 DEF Fields
  <2>3. PICK s : s = [save[p] EXCEPT !.pc = "count", !.existing = E]
    OBVIOUS
  <2>4. s \in Saves /\ s.pc = "count" /\ s.body = save[p].body /\ s.existing = E
    BY <1>1, <2>2, <2>3 DEF Saves
  <2>5. /\ save' = [save EXCEPT ![p] = s] /\ save[p].pc = "read" /\ saves' = saves
        /\ UNCHANGED <<event, form, sign, page, edits, acts, lost>>
    BY <1>4, <2>1, <2>3 DEF SaveRead, bounds
  <2>6. \A f \in E : f.type = rows[f.qid].type
    BY <2>1
  <2>7. \A g \in Guests : \A a \in answers[g] : rows[a.qid].type # a.as \/
           \A f \in s.existing : f.qid = a.qid => f.type = a.as
    BY <2>4, <2>6
  <2>8. saves' \in Nat /\ lost' \in BOOLEAN /\ (lost => lost') /\ save[p].pc # "done" /\ s.pc # "apply"
    BY <1>1, <2>4, <2>5
  <2>9. s.body = Payload(p)
    BY <1>1, <2>4, <2>5
  <2> QED BY <2>4, <2>5, <2>7, <2>8, <2>9, SaveStep
<1>5. CASE Validate(p)
  <2>1. PICK pc : pc = IF Mismatch(p) \/ GloballyOff(p) \/ Locked(p) # {} THEN "refused" ELSE "apply"
    OBVIOUS
  <2>2. PICK s : s = [save[p] EXCEPT !.pc = pc]
    OBVIOUS
  <2>3. pc \in {"refused", "apply"} /\ (pc = "apply" => Locked(p) = {})
    BY <2>1
  <2>4. s \in Saves /\ s.pc = pc /\ s.body = save[p].body /\ s.existing = save[p].existing
    BY <1>1, <2>2, <2>3 DEF Saves
  <2>5. /\ save' = [save EXCEPT ![p] = s] /\ save[p].pc = "count" /\ saves' = saves
        /\ UNCHANGED <<event, form, sign, page, edits, acts, lost>>
    BY <1>5, <2>1, <2>2 DEF Validate, bounds
  <2>6. ASSUME NEW g \in Guests, NEW a \in answers[g], ~ a.raced, rows[a.qid].type = a.as
        PROVE  /\ \A f \in s.existing : f.qid = a.qid => f.type = a.as
               /\ s.pc = "apply" => \A d \in s.body : d.qid = a.qid /\ d.key = NoKey => d.type = a.as
    <3>1. \A f \in s.existing : f.qid = a.qid => f.type = a.as
      BY <2>4, <2>5, <2>6 DEF Inv, Fitting
    <3>2. ASSUME s.pc = "apply", NEW d \in s.body, d.qid = a.qid, d.key = NoKey PROVE d.type = a.as
      <4>1. d.qid \in Answered
        BY <3>2 DEF Answered
      <4>2. [qid |-> d.qid, type |-> d.type] \in save[p].existing
        BY <2>3, <2>4, <3>2, <4>1 DEF Locked
      <4> QED BY <2>4, <3>1, <3>2, <4>2
    <3> QED BY <3>1, <3>2
  <2> QED BY <1>1, <2>3, <2>4, <2>5, <2>6, SaveStep
<1> QED BY <1>2, <1>3, <1>4, <1>5

\* The questions after a save: those there were, and one for each draft of the page.
LEMMA AppliedRows ==
    ASSUME Inv, NEW p \in Pages, Apply(p)
    PROVE  /\ rows' \in Seq(Rows) /\ DOMAIN rows \subseteq DOMAIN rows'
           /\ \A i \in DOMAIN rows : rows'[i] = Kept(p)[i]
           /\ \A i \in DOMAIN rows' \ DOMAIN rows :
                \E d \in save[p].body : d.qid = 0 /\ rows'[i] = RowOf(d)
           /\ \A i, j \in DOMAIN rows' \ DOMAIN rows : rows'[i].draft = rows'[j].draft => i = j
<1>1. /\ TypeOK /\ save[p].pc = "apply" /\ rows' = Kept(p) \o Inserted(p)
      /\ save[p].body \subseteq Drafts /\ IsFiniteSet(save[p].body)
      /\ \A d, e \in save[p].body : d.qid = 0 /\ e.qid = 0 /\ d.draft = e.draft => d = e
  BY SentRows DEF Inv, Apply
<1>2. PICK N : N = New(p)
  OBVIOUS
<1>3. N \subseteq Drafts /\ IsFiniteSet(N) /\ \A d, e \in N : d.draft = e.draft => d = e
  BY <1>1, <1>2, FS_Subset DEF New
<1>4. PICK n \in Nat : n = Cardinality(N)
  BY <1>3, FS_CardinalityType
<1>5. PICK s : s = Inserted(p)
  OBVIOUS
<1>6. /\ s \in Seq(Rows) /\ Len(s) = n
      /\ \A k \in 1 .. n : \E d \in N : Cardinality(Below(N, d)) = k - 1 /\ s[k] = RowOf(d)
  <2>1. /\ Inserted(p) \in Seq(Rows) /\ Len(Inserted(p)) = Cardinality(New(p))
        /\ \A k \in 1 .. Cardinality(New(p)) : \E d \in New(p) :
             Cardinality(Below(New(p), d)) = k - 1 /\ Inserted(p)[k] = RowOf(d)
    BY <1>2, <1>3, InsertedRows
  <2> QED BY <1>2, <1>4, <1>5, <2>1
<1>7. PICK t : t = Kept(p)
  OBVIOUS
<1>8. t \in Seq(Rows) /\ Len(t) = Len(rows) /\ rows \in Seq(Rows)
  BY <1>1, <1>7, KeptRows DEF TypeOK
<1>9. PICK m \in Nat : m = Len(rows) /\ DOMAIN rows = 1 .. m
  BY <1>8
<1>10. /\ rows' \in Seq(Rows) /\ Len(rows') = m + n
       /\ \A i \in 1 .. m + n : rows'[i] = IF i <= m THEN t[i] ELSE s[i - m]
  <2>0. t \in Seq(Rows) /\ s \in Seq(Rows)
    BY <1>6, <1>8
  <2>1. /\ t \o s \in Seq(Rows) /\ Len(t \o s) = Len(t) + Len(s)
        /\ \A i \in 1 .. Len(t) + Len(s) : (t \o s)[i] = IF i <= Len(t) THEN t[i] ELSE s[i - Len(t)]
    BY <2>0, ConcatProperties
  <2> QED BY <1>1, <1>5, <1>6, <1>7, <1>8, <1>9, <2>1
<1>11. DOMAIN rows' = 1 .. m + n
  BY <1>10
<1>12. ASSUME NEW i \in DOMAIN rows' \ DOMAIN rows
       PROVE  i - m \in 1 .. n /\ rows'[i] = s[i - m]
  BY <1>9, <1>10, <1>11
<1>13. ASSUME NEW i \in DOMAIN rows' \ DOMAIN rows, NEW j \in DOMAIN rows' \ DOMAIN rows,
              rows'[i].draft = rows'[j].draft
       PROVE  i = j
  <2>1. PICK d \in N : Cardinality(Below(N, d)) = i - m - 1 /\ rows'[i] = RowOf(d)
    BY <1>6, <1>12
  <2>2. PICK e \in N : Cardinality(Below(N, e)) = j - m - 1 /\ rows'[j] = RowOf(e)
    BY <1>6, <1>12
  <2>3. d.draft = e.draft
    BY <1>13, <2>1, <2>2 DEF RowOf
  <2>4. d = e
    BY <1>3, <2>3
  <2>5. i - m - 1 = j - m - 1
    BY <2>1, <2>2, <2>4
  <2> QED BY <1>9, <1>11, <2>5
<1>14. \A i \in DOMAIN rows' \ DOMAIN rows : \E d \in save[p].body : d.qid = 0 /\ rows'[i] = RowOf(d)
  BY <1>2, <1>6, <1>12 DEF New
<1>15. DOMAIN rows \subseteq DOMAIN rows' /\ \A i \in DOMAIN rows : rows'[i] = t[i]
  BY <1>9, <1>10, <1>11
<1> QED BY <1>7, <1>10, <1>13, <1>14, <1>15

\* A save leaves every answer.
LEMMA AnswersStay ==
    ASSUME Inv, NEW p \in Pages, Apply(p)
    PROVE  answers' = answers
<1>1. TypeOK /\ answers' = [g \in Guests |-> {a \in answers[g] : rows'[a.qid].live}]
  BY DEF Inv, Apply
<1>2. ASSUME NEW g \in Guests, NEW a \in answers[g] PROVE rows'[a.qid].live
  <2>1. a.qid \in Answered /\ Answered \subseteq DOMAIN rows
    BY <1>1 DEF Answered, TypeOK, Live
  <2> QED BY <1>1, <2>1, AppliedRows, KeptRows
<1>3. \A g \in Guests : answers'[g] = answers[g]
  BY <1>1, <1>2
<1>4. answers = [g \in Guests |-> answers[g]] /\ answers' = [g \in Guests |-> answers'[g]]
  BY <1>1 DEF TypeOK
<1> QED BY <1>3, <1>4

LEMMA ApplyStep == ASSUME Inv, NEW p \in Pages, Apply(p) PROVE Inv'
<1>1. /\ TypeOK /\ Drafting /\ Saving /\ Once /\ Fitting /\ Signing
      /\ save[p].pc = "apply" /\ save \in [Pages -> Saves] /\ sign \in [Guests -> Signs]
      /\ UNCHANGED <<control, switches, status, form, page, edits, saves, acts, lost>>
      /\ answers' = answers /\ rows \in Seq(Rows)
  BY AnswersStay DEF Inv, TypeOK, Apply, bounds
<1>2. /\ save' \in [Pages -> Saves] /\ save'[p].pc = "done" /\ save'[p].body = save[p].body
      /\ \A q \in Pages : q # p => save'[q] = save[q]
  <2>1. PICK s : s = [save[p] EXCEPT !.pc = "done"]
    OBVIOUS
  <2>2. s \in Saves /\ s.pc = "done" /\ s.body = save[p].body
    BY <1>1, <2>1 DEF Saves
  <2>3. save' = [save EXCEPT ![p] = s]
    BY <1>1, <2>1 DEF Apply
  <2> QED BY <1>1, <2>2, <2>3
<1>3. /\ sign' \in [Guests -> Signs]
      /\ \A g \in Guests :
           /\ sign'[g].pc = sign[g].pc /\ sign'[g].on = sign[g].on /\ sign'[g].asks = sign[g].asks
           /\ sign'[g].kept = sign[g].kept /\ (sign[g].pc # "idle" => sign'[g].raced)
  <2>1. ASSUME NEW g \in Guests
        PROVE  /\ sign'[g] \in Signs
               /\ sign'[g].pc = sign[g].pc /\ sign'[g].on = sign[g].on /\ sign'[g].asks = sign[g].asks
               /\ sign'[g].kept = sign[g].kept /\ (sign[g].pc # "idle" => sign'[g].raced)
    <3>1. PICK b \in BOOLEAN : b = (sign[g].pc # "idle")
      OBVIOUS
    <3>2. sign'[g] = [sign[g] EXCEPT !.raced = b]
      BY <3>1 DEF Apply
    <3> QED BY <1>1, <3>1, <3>2 DEF Signs
  <2>2. sign' = [g \in Guests |-> sign'[g]]
    BY DEF Apply
  <2> QED BY <2>1, <2>2
<1>4. /\ rows' \in Seq(Rows) /\ DOMAIN rows \subseteq DOMAIN rows' /\ 0 \notin DOMAIN rows
      /\ \A i \in DOMAIN rows : rows'[i].key = rows[i].key /\ rows'[i].draft = rows[i].draft
      /\ \A i \in Answered : rows'[i].live
  <2>1. Answered \subseteq DOMAIN rows
    BY <1>1 DEF TypeOK, Live
  <2> QED BY <1>1, <2>1, AppliedRows, KeptRows
<1>5. \A i \in DOMAIN rows' \ DOMAIN rows : \E e \in Unsaved(p) : rows'[i].draft = e.draft
  <2>1. ASSUME NEW d \in save[p].body, d.qid = 0 PROVE \E e \in Unsaved(p) : RowOf(d).draft = e.draft
    BY <1>1, <2>1, SentRows DEF RowOf
  <2> QED BY <2>1, AppliedRows
<1>6. TypeOK'
  <2>1. Answered' = Answered /\ Answered \subseteq Live
    BY <1>1 DEF Answered, TypeOK
  <2>2. Answered' \subseteq Live'
    BY <1>4, <2>1 DEF Live
  <2> QED BY <1>1, <1>2, <1>3, <1>4, <2>2 DEF TypeOK
<1>7. Drafting'
  <2>1. \A q \in Pages : Unsaved(q)' = Unsaved(q)
    BY <1>1 DEF Unsaved
  <2>2. \A q \in Pages : \A d \in page[q].list : Drawn(d)'
    BY <1>1, <1>4 DEF Drafting, Drawn
  <2>3. \A e \in Unsaved(p) : e.draft <= edits
    BY <1>1, <1>4 DEF Drafting, Drawn, Unsaved
  <2>4. \A i \in DOMAIN rows' : rows'[i].draft <= edits
    BY <1>1, <1>4, <1>5, <2>3 DEF Drafting
  <2> QED BY <1>1, <2>1, <2>2, <2>4 DEF Drafting
<1>8. Saving'
  BY <1>1, <1>2 DEF Saving, Payload
<1>9. Once'
  <2> SUFFICES ASSUME ~ lost PROVE SavedOnce' /\ \A q \in Pages : save'[q].pc # "done" => Fresh(q)'
    BY <1>1 DEF Once
  <2>1. SavedOnce /\ \A q \in Pages : save[q].pc # "done" => Fresh(q)
    BY <1>1 DEF Once
  <2>2. Fresh(p)
    BY <1>1, <2>1
  <2>3. ASSUME NEW i \in DOMAIN rows', NEW j \in DOMAIN rows', rows'[i].draft = rows'[j].draft, rows'[i].draft # 0
        PROVE  i = j
    <3>1. CASE i \in DOMAIN rows /\ j \in DOMAIN rows
      BY <1>1, <1>4, <2>1, <2>3, <3>1 DEF SavedOnce
    <3>2. CASE i \notin DOMAIN rows /\ j \notin DOMAIN rows
      BY <2>3, <3>2, AppliedRows
    <3>3. CASE i \in DOMAIN rows /\ j \notin DOMAIN rows
      BY <1>4, <1>5, <2>2, <2>3, <3>3 DEF Fresh
    <3>4. CASE i \notin DOMAIN rows /\ j \in DOMAIN rows
      BY <1>4, <1>5, <2>2, <2>3, <3>4 DEF Fresh
    <3> QED BY <3>1, <3>2, <3>3, <3>4
  <2>4. SavedOnce'
    <3>1. lost' = lost
      BY <1>1
    <3> QED BY <2>3 DEF SavedOnce
  <2>5. ASSUME NEW q \in Pages, save'[q].pc # "done" PROVE Fresh(q)'
    <3>1. q # p /\ Fresh(q) /\ Unsaved(q)' = Unsaved(q)
      BY <1>1, <1>2, <2>1, <2>5 DEF Unsaved
    <3>2. ASSUME NEW d \in Unsaved(q), NEW i \in DOMAIN rows' PROVE rows'[i].draft # d.draft
      <4>1. CASE i \in DOMAIN rows
        BY <1>4, <3>1, <4>1 DEF Fresh
      <4>2. CASE i \notin DOMAIN rows
        BY <1>1, <1>5, <3>1, <4>2 DEF Drafting
      <4> QED BY <4>1, <4>2
    <3> QED BY <3>1, <3>2 DEF Fresh
  <2> QED BY <2>4, <2>5
<1>10. Fitting'
  <2> SUFFICES ASSUME NEW g \in Guests, NEW a \in answers[g], ~ a.raced
               PROVE  /\ rows'[a.qid].type = a.as
                      /\ \A q \in Pages :
                           /\ save'[q].pc \in {"count", "apply"} =>
                                \A f \in save'[q].existing : f.qid = a.qid => f.type = a.as
                           /\ save'[q].pc = "apply" =>
                                \A d \in save'[q].body : d.qid = a.qid /\ d.key = NoKey => d.type = a.as
    BY <1>1 DEF Fitting
  <2>1. a.qid \in DOMAIN rows
    BY <1>1 DEF TypeOK, Answered, Live
  <2>2. rows[a.qid].type = a.as /\ \A d \in save[p].body : d.qid = a.qid /\ d.key = NoKey => d.type = a.as
    BY <1>1 DEF Fitting
  <2>3. \A d \in save[p].body : d.qid = a.qid => d.key = rows[a.qid].key
    BY <1>1, <1>4, <2>1, SentRows DEF Drawn
  <2>4. rows'[a.qid].type = a.as
    <3>1. rows'[a.qid] = Kept(p)[a.qid]
      BY <1>1, <2>1, AppliedRows
    <3>2. \/ Kept(p)[a.qid].type = rows[a.qid].type
          \/ /\ rows[a.qid].key = NoKey
             /\ \E d \in save[p].body : d.qid = a.qid /\ Kept(p)[a.qid].type = d.type
      BY <1>1, <2>1, KeptRows
    <3> QED BY <2>2, <2>3, <3>1, <3>2
  <2> QED BY <1>1, <1>2, <2>4 DEF Fitting
<1>11. Signing'
  <2>1. On' = On /\ \A g \in Guests : answers'[g] = answers[g]
    BY <1>1 DEF On
  <2>2. ASSUME NEW g \in Guests, sign'[g].pc \in {"clear", "create"}, NEW f \in sign'[g].kept
        PROVE  /\ f.qid \in DOMAIN rows' /\ rows'[f.qid].key \in sign'[g].asks \cup {NoKey}
               /\ sign'[g].raced
    <3>1. f.qid \in DOMAIN rows /\ rows[f.qid].key \in sign[g].asks \cup {NoKey}
      BY <1>1, <1>3, <2>2 DEF Signing
    <3> QED BY <1>3, <1>4, <2>2, <3>1
  <2> QED BY <1>1, <1>3, <2>1, <2>2 DEF Signing
<1> QED BY <1>6, <1>7, <1>8, <1>9, <1>10, <1>11 DEF Inv

(***************************************************************************)
(* The guests and the super admin.                                         *)
(***************************************************************************)
\* What has to do with the builders stays when the questions and the saves do.
LEMMA BuildersStay ==
    ASSUME Inv, UNCHANGED <<rows, page, save, edits, lost>>
    PROVE  Drafting' /\ Saving' /\ Once'
<1>1. Drafting /\ Saving /\ Once
  BY DEF Inv
<1>2. Drafting'
  BY <1>1 DEF Drafting, Drawn, Unsaved
<1>3. Saving'
  BY <1>1 DEF Saving, Payload
<1>4. Once'
  BY <1>1 DEF Once, SavedOnce, Fresh, Unsaved
<1> QED BY <1>2, <1>3, <1>4

\* A step of one guest's request, which may replace the answers of that guest.
LEMMA SignStep ==
    ASSUME Inv, NEW g \in Guests, NEW s \in Signs, sign' = [sign EXCEPT ![g] = s],
           NEW A \in SUBSET Answers, answers' = [answers EXCEPT ![g] = A],
           UNCHANGED <<rows, control, switches, form, page, save, edits, saves, lost>>, acts' \in Nat,
           status' \in [Guests -> {"none", "active", "cancelled"}],
           \A a \in A : \/ a \in answers[g]
                        \/ a.qid \in Live /\ (a.raced \/ (Underway = {} /\ rows[a.qid].type = a.as)),
           s.pc # "idle" => On \subseteq s.on,
           s.pc \in {"questions", "clear", "create"} => s.asks \subseteq s.on,
           s.pc \in {"clear", "create"} => \A f \in s.kept :
             /\ f.qid \in DOMAIN rows /\ rows[f.qid].key \in s.asks \cup {NoKey}
             /\ s.raced \/ rows[f.qid].type = f.type,
           s.pc = "create" => A = {}
    PROVE  Inv'
<1>1. /\ TypeOK /\ Fitting /\ Signing
      /\ sign \in [Guests -> Signs] /\ answers \in [Guests -> SUBSET Answers]
  BY DEF Inv, TypeOK
<1>2. /\ sign' \in [Guests -> Signs] /\ sign'[g] = s
      /\ answers' \in [Guests -> SUBSET Answers] /\ answers'[g] = A
      /\ \A h \in Guests : h # g => sign'[h] = sign[h] /\ answers'[h] = answers[h]
  BY <1>1
<1>3. Answered' \subseteq Live'
  <2>1. ASSUME NEW h \in Guests, NEW a \in answers'[h] PROVE a.qid \in Live
    <3>1. \A i \in Guests : \A b \in answers[i] : b.qid \in Live
      BY <1>1 DEF TypeOK, Answered
    <3>2. CASE h = g
      BY <1>2, <2>1, <3>1, <3>2
    <3>3. CASE h # g
      BY <1>2, <2>1, <3>1, <3>3
    <3> QED BY <3>2, <3>3
  <2>2. Live' = Live
    BY DEF Live
  <2> QED BY <2>1, <2>2 DEF Answered
<1>4. TypeOK'
  BY <1>1, <1>2, <1>3 DEF TypeOK
<1>5. Fitting'
  <2> SUFFICES ASSUME NEW h \in Guests, NEW a \in answers'[h], ~ a.raced
               PROVE  /\ rows[a.qid].type = a.as
                      /\ \A p \in Pages :
                           /\ save[p].pc \in {"count", "apply"} =>
                                \A f \in save[p].existing : f.qid = a.qid => f.type = a.as
                           /\ save[p].pc = "apply" =>
                                \A d \in save[p].body : d.qid = a.qid /\ d.key = NoKey => d.type = a.as
    BY DEF Fitting
  <2>1. CASE a \in answers[h]
    BY <1>1, <2>1 DEF Fitting
  <2>2. CASE a \notin answers[h]
    <3>1. h = g /\ Underway = {} /\ rows[a.qid].type = a.as
      BY <1>2, <2>2
    <3> QED BY <3>1 DEF Underway
  <2> QED BY <2>1, <2>2
<1>6. Signing'
  <2>1. On' = On
    BY DEF On
  <2> QED BY <1>1, <1>2, <2>1 DEF Signing
<1> QED BY <1>4, <1>5, <1>6, BuildersStay DEF Inv

LEMMA FormStep == ASSUME Inv, NEW g \in Guests, OpenForm(g) PROVE Inv'
<1>1. /\ UNCHANGED <<rows, control, switches, status, answers, sign, page, save, edits, saves, acts, lost>>
      /\ TypeOK /\ Fitting /\ Signing /\ rows \in Seq(Rows)
  BY DEF OpenForm, event, bounds, Inv, TypeOK
<1>2. {[qid |-> i, type |-> rows[i].type] : i \in {j \in DOMAIN rows : Asked(j, On)}} \in SUBSET Fields
  <2>1. \A i \in DOMAIN rows : rows[i] \in Rows /\ i \in Nat
    BY <1>1
  <2> QED BY <2>1 DEF Fields, Rows
<1>3. form' \in [Guests -> SUBSET Fields]
  BY <1>1, <1>2 DEF OpenForm, TypeOK
<1>4. TypeOK'
  BY <1>1, <1>3 DEF TypeOK, Answered, Live
<1>5. Fitting' /\ Signing'
  BY <1>1 DEF Fitting, Signing, On
<1> QED BY <1>1, <1>4, <1>5, BuildersStay DEF Inv

LEMMA SubmitStep == ASSUME Inv, NEW g \in Guests, Submit(g) PROVE Inv'
<1>1. /\ UNCHANGED <<rows, control, switches, status, answers, form, page, save, edits, saves, lost>>
      /\ TypeOK /\ answers \in [Guests -> SUBSET Answers] /\ acts' \in Nat /\ form[g] \in SUBSET Fields
  BY DEF Submit, event, Inv, TypeOK
<1>2. PICK s : s = [NoSign EXCEPT !.pc = "read", !.body = form[g], !.on = On]
  OBVIOUS
<1>3. s \in Signs /\ s.pc = "read" /\ s.on = On
  BY <1>1, <1>2 DEF Signs, NoSign, On
<1>4. sign' = [sign EXCEPT ![g] = s] /\ answers' = [answers EXCEPT ![g] = answers[g]]
  BY <1>1, <1>2 DEF Submit
<1>5. status' \in [Guests -> {"none", "active", "cancelled"}] /\ answers[g] \in SUBSET Answers
  BY <1>1 DEF TypeOK
<1> QED BY <1>1, <1>3, <1>4, <1>5, SignStep

LEMMA ReadStep == ASSUME Inv, NEW g \in Guests, RegisterRead(g) PROVE Inv'
<1>1. /\ UNCHANGED <<rows, control, switches, status, answers, form, page, save, edits, saves, acts, lost>>
      /\ TypeOK /\ Signing /\ answers \in [Guests -> SUBSET Answers] /\ acts \in Nat
      /\ sign[g] \in Signs /\ sign[g].pc = "read" /\ answers[g] \in SUBSET Answers
      /\ status' \in [Guests -> {"none", "active", "cancelled"}]
  BY DEF RegisterRead, event, bounds, Inv, TypeOK
<1>2. acts' \in Nat /\ answers' = [answers EXCEPT ![g] = answers[g]]
  BY <1>1
<1>3. CASE status[g] = "active"
  <2>1. sign' = [sign EXCEPT ![g] = NoSign] /\ NoSign \in Signs /\ NoSign.pc = "idle"
    BY <1>3 DEF RegisterRead, NoSign, Signs
  <2> QED BY <1>1, <1>2, <2>1, SignStep
<1>4. CASE status[g] # "active"
  <2>1. PICK s : s = [sign[g] EXCEPT !.pc = "questions", !.asks = On]
    OBVIOUS
  <2>2. s \in Signs /\ s.pc = "questions" /\ s.asks = On /\ s.on = sign[g].on
    BY <1>1, <2>1 DEF Signs, On
  <2>3. sign' = [sign EXCEPT ![g] = s]
    BY <1>4, <2>1 DEF RegisterRead
  <2>4. On \subseteq s.on
    BY <1>1, <2>2 DEF Signing
  <2> QED BY <1>1, <1>2, <2>2, <2>3, <2>4, SignStep
<1> QED BY <1>3, <1>4

LEMMA CheckStep ==
    ASSUME Inv, NEW g \in Guests, NEW required \in BOOLEAN, RegisterCheck(g, required)
    PROVE  Inv'
<1>1. /\ UNCHANGED <<rows, control, switches, status, answers, form, page, save, edits, saves, acts, lost>>
      /\ TypeOK /\ Signing /\ answers \in [Guests -> SUBSET Answers] /\ acts \in Nat
      /\ sign[g] \in Signs /\ sign[g].pc = "questions" /\ answers[g] \in SUBSET Answers
      /\ rows \in Seq(Rows) /\ status' \in [Guests -> {"none", "active", "cancelled"}]
  BY DEF RegisterCheck, event, bounds, Inv, TypeOK
<1>2. acts' \in Nat /\ answers' = [answers EXCEPT ![g] = answers[g]]
  BY <1>1
<1>3. \/ sign' = [sign EXCEPT ![g] = NoSign]
      \/ \E T \in SUBSET Taken(g) :
           sign' = [sign EXCEPT ![g] = [sign[g] EXCEPT !.pc = "clear",
                                          !.kept = {[qid |-> i, type |-> rows[i].type] : i \in T}]]
  <2>1. PICK given : given = [i \in DOMAIN rows |-> {f \in sign[g].body : f.qid = i}]
    OBVIOUS
  <2>2. PICK T : T = {j \in Taken(g) : given[j] # {}}
    OBVIOUS
  <2>3. T \in SUBSET Taken(g)
    BY <2>2
  <2>4. \/ sign' = [sign EXCEPT ![g] = NoSign]
        \/ sign' = [sign EXCEPT ![g] = [sign[g] EXCEPT !.pc = "clear",
                                          !.kept = {[qid |-> i, type |-> rows[i].type] : i \in T}]]
    BY <1>1, <2>1, <2>2 DEF RegisterCheck
  <2> QED BY <2>3, <2>4
<1>4. CASE sign' = [sign EXCEPT ![g] = NoSign]
  <2>1. NoSign \in Signs /\ NoSign.pc = "idle"
    BY DEF NoSign, Signs
  <2> QED BY <1>1, <1>2, <1>4, <2>1, SignStep
<1>5. ASSUME NEW T \in SUBSET Taken(g),
             sign' = [sign EXCEPT ![g] = [sign[g] EXCEPT !.pc = "clear",
                                            !.kept = {[qid |-> i, type |-> rows[i].type] : i \in T}]]
      PROVE  Inv'
  <2>1. PICK kept : kept = {[qid |-> i, type |-> rows[i].type] : i \in T}
    OBVIOUS
  <2>2. PICK s : s = [sign[g] EXCEPT !.pc = "clear", !.kept = kept]
    OBVIOUS
  <2>3. \A i \in T : /\ i \in DOMAIN rows /\ rows[i].key \in sign[g].asks \cup {NoKey}
                     /\ [qid |-> i, type |-> rows[i].type] \in Fields
    <3>1. \A i \in DOMAIN rows : rows[i] \in Rows /\ i \in Nat
      BY <1>1
    <3> QED BY <3>1 DEF Taken, Asked, Fields, Rows
  <2>4. kept \in SUBSET Fields
    BY <2>1, <2>3
  <2>5. /\ s \in Signs /\ s.pc = "clear" /\ s.asks = sign[g].asks /\ s.on = sign[g].on
        /\ s.kept = kept
    BY <1>1, <2>2, <2>4 DEF Signs
  <2>6. On \subseteq s.on /\ s.asks \subseteq s.on
    BY <1>1, <2>5 DEF Signing
  <2>7. \A f \in s.kept : /\ f.qid \in DOMAIN rows /\ rows[f.qid].key \in s.asks \cup {NoKey}
                          /\ s.raced \/ rows[f.qid].type = f.type
    BY <2>1, <2>3, <2>5
  <2>8. sign' = [sign EXCEPT ![g] = s]
    BY <1>5, <2>1, <2>2
  <2> QED BY <1>1, <1>2, <2>5, <2>6, <2>7, <2>8, SignStep
<1> QED BY <1>3, <1>4, <1>5

LEMMA ClearStep == ASSUME Inv, NEW g \in Guests, RegisterClear(g) PROVE Inv'
<1>1. /\ UNCHANGED <<rows, control, switches, form, page, save, edits, saves, acts, lost>>
      /\ TypeOK /\ Signing /\ acts \in Nat /\ sign[g] \in Signs /\ sign[g].pc = "clear"
      /\ answers' = [answers EXCEPT ![g] = {}] /\ status' = [status EXCEPT ![g] = "none"]
      /\ status \in [Guests -> {"none", "active", "cancelled"}]
  BY DEF RegisterClear, bounds, Inv, TypeOK
<1>2. acts' \in Nat /\ status' \in [Guests -> {"none", "active", "cancelled"}] /\ {} \in SUBSET Answers
  BY <1>1
<1>3. PICK s : s = [sign[g] EXCEPT !.pc = "create"]
  OBVIOUS
<1>4. /\ s \in Signs /\ s.pc = "create" /\ s.asks = sign[g].asks /\ s.on = sign[g].on
      /\ s.kept = sign[g].kept /\ s.raced = sign[g].raced
  BY <1>1, <1>3 DEF Signs
<1>5. sign' = [sign EXCEPT ![g] = s]
  BY <1>3 DEF RegisterClear
<1>6. /\ On \subseteq s.on /\ s.asks \subseteq s.on
      /\ \A f \in s.kept : /\ f.qid \in DOMAIN rows /\ rows[f.qid].key \in s.asks \cup {NoKey}
                           /\ s.raced \/ rows[f.qid].type = f.type
  BY <1>1, <1>4 DEF Signing
<1>7. PICK A \in SUBSET Answers : A = {} /\ answers' = [answers EXCEPT ![g] = A]
  BY <1>1
<1>8. \A a \in A : \/ a \in answers[g]
                   \/ a.qid \in Live /\ (a.raced \/ (Underway = {} /\ rows[a.qid].type = a.as))
  BY <1>7
<1>9. /\ s.pc # "idle" => On \subseteq s.on
      /\ s.pc \in {"questions", "clear", "create"} => s.asks \subseteq s.on
      /\ s.pc \in {"clear", "create"} => \A f \in s.kept :
           /\ f.qid \in DOMAIN rows /\ rows[f.qid].key \in s.asks \cup {NoKey}
           /\ s.raced \/ rows[f.qid].type = f.type
      /\ s.pc = "create" => A = {}
  BY <1>4, <1>6, <1>7
<1> QED BY <1>1, <1>2, <1>4, <1>5, <1>7, <1>8, <1>9, SignStep

LEMMA CreateStep == ASSUME Inv, NEW g \in Guests, RegisterCreate(g) PROVE Inv'
<1>1. /\ UNCHANGED <<rows, control, switches, form, page, save, edits, saves, acts, lost>>
      /\ TypeOK /\ Signing /\ acts \in Nat /\ sign[g] \in Signs /\ sign[g].pc = "create"
      /\ status' = [status EXCEPT ![g] = "active"] /\ sign' = [sign EXCEPT ![g] = NoSign]
      /\ status \in [Guests -> {"none", "active", "cancelled"}] /\ sign[g].raced \in BOOLEAN
  BY DEF RegisterCreate, bounds, Inv, TypeOK, Signs
<1>2. acts' \in Nat /\ status' \in [Guests -> {"none", "active", "cancelled"}]
  BY <1>1
<1>3. PICK b \in BOOLEAN : b = (sign[g].raced \/ Underway # {})
  OBVIOUS
<1>4. PICK A : A = {[qid |-> f.qid, as |-> f.type, raced |-> b] : f \in Stored(g)}
  OBVIOUS
<1>5. answers' = [answers EXCEPT ![g] = A]
  BY <1>3, <1>4 DEF RegisterCreate
<1>6. Stored(g) \subseteq sign[g].kept /\ sign[g].kept \subseteq Fields /\ \A f \in Stored(g) : f.qid \in Live
  BY <1>1 DEF Stored, Signs
<1>7. A \in SUBSET Answers
  BY <1>4, <1>6 DEF Fields, Answers
<1>8. \A f \in Stored(g) : b \/ (Underway = {} /\ rows[f.qid].type = f.type)
  BY <1>1, <1>3, <1>6 DEF Signing
<1>9. \A a \in A : a.qid \in Live /\ (a.raced \/ (Underway = {} /\ rows[a.qid].type = a.as))
  <2>1. ASSUME NEW f \in Stored(g), NEW a, a = [qid |-> f.qid, as |-> f.type, raced |-> b]
        PROVE  a.qid \in Live /\ (a.raced \/ (Underway = {} /\ rows[a.qid].type = a.as))
    BY <1>6, <1>8, <2>1
  <2> QED BY <1>4, <2>1
<1>10. PICK s \in Signs : s = NoSign /\ s.pc = "idle" /\ sign' = [sign EXCEPT ![g] = s]
  BY <1>1 DEF NoSign, Signs
<1>11. \A a \in A : \/ a \in answers[g]
                    \/ a.qid \in Live /\ (a.raced \/ (Underway = {} /\ rows[a.qid].type = a.as))
  BY <1>9
<1>12. /\ s.pc # "idle" => On \subseteq s.on
       /\ s.pc \in {"questions", "clear", "create"} => s.asks \subseteq s.on
       /\ s.pc \in {"clear", "create"} => \A f \in s.kept :
            /\ f.qid \in DOMAIN rows /\ rows[f.qid].key \in s.asks \cup {NoKey}
            /\ s.raced \/ rows[f.qid].type = f.type
       /\ s.pc = "create" => A = {}
  BY <1>10
<1>13. UNCHANGED <<rows, control, switches, form, page, save, edits, saves, lost>>
  BY <1>1
<1> QED BY <1>2, <1>5, <1>7, <1>10, <1>11, <1>12, <1>13, SignStep

LEMMA CancelStep == ASSUME Inv, NEW g \in Guests, Cancel(g) PROVE Inv'
<1>1. /\ UNCHANGED <<rows, control, switches, answers, form, sign, page, save, edits, saves, acts, lost>>
      /\ TypeOK /\ Signing /\ Fitting /\ status \in [Guests -> {"none", "active", "cancelled"}]
      /\ status' = [status EXCEPT ![g] = "cancelled"]
  BY DEF Cancel, bounds, Inv, TypeOK
<1>2. status' \in [Guests -> {"none", "active", "cancelled"}]
  BY <1>1
<1>3. TypeOK'
  BY <1>1, <1>2 DEF TypeOK, Answered, Live
<1>4. Fitting' /\ Signing'
  BY <1>1 DEF Fitting, Signing, On
<1> QED BY <1>1, <1>3, <1>4, BuildersStay DEF Inv

LEMMA SwitchReadStep ==
    ASSUME Inv, NEW k \in Keys, NEW on \in BOOLEAN, SwitchRead(k, on)
    PROVE  Inv'
<1>1. /\ UNCHANGED <<rows, control, status, answers, form, sign, page, save, edits, saves, lost>>
      /\ TypeOK /\ Signing /\ Fitting /\ acts \in Nat /\ acts' = acts + 1
      /\ control \in [Keys -> BOOLEAN] /\ switches \subseteq Switches
      /\ switches' = switches \cup {[no |-> acts, key |-> k, on |-> on, seen |-> control]}
  BY DEF SwitchRead, Inv, TypeOK
<1>2. [no |-> acts, key |-> k, on |-> on, seen |-> control] \in Switches
  BY <1>1 DEF Switches
<1>3. switches' \subseteq Switches /\ acts' \in Nat
  BY <1>1, <1>2
<1>4. TypeOK'
  BY <1>1, <1>3 DEF TypeOK, Answered, Live
<1>5. Fitting' /\ Signing'
  BY <1>1 DEF Fitting, Signing, On
<1> QED BY <1>1, <1>4, <1>5, BuildersStay DEF Inv

\* Whatever old row the write is based on, a signup in flight records the fields
\* that are on after it.
LEMMA SwitchStep ==
    ASSUME Inv, NEW w \in switches, SetQuestionControl(w)
    PROVE  Inv'
<1>1. /\ UNCHANGED <<rows, status, answers, form, page, save, edits, saves, acts, lost>>
      /\ TypeOK /\ Signing /\ Fitting /\ acts \in Nat /\ switches \subseteq Switches
      /\ control' = [w.seen EXCEPT ![w.key] = w.on] /\ switches' = switches \ {w}
      /\ sign \in [Guests -> Signs]
  BY DEF SetQuestionControl, Switched, bounds, Inv, TypeOK
<1>2. control' \in [Keys -> BOOLEAN] /\ switches' \subseteq Switches
  BY <1>1 DEF Switches
<1>3. PICK O \in SUBSET Keys : O = On'
  BY DEF On
<1>4. ASSUME NEW g \in Guests
      PROVE  /\ sign'[g] \in Signs /\ sign'[g].pc = sign[g].pc /\ sign'[g].asks = sign[g].asks
             /\ sign'[g].kept = sign[g].kept /\ sign'[g].raced = sign[g].raced
             /\ sign[g].on \subseteq sign'[g].on
             /\ sign[g].pc # "idle" => O \subseteq sign'[g].on
  <2>1. PICK s : s = sign[g]
    OBVIOUS
  <2>2. s \in Signs
    BY <1>1, <2>1
  <2>3. CASE s.pc = "idle"
    <3>1. sign'[g] = s
      BY <2>1, <2>3 DEF SetQuestionControl
    <3> QED BY <2>1, <2>2, <2>3, <3>1
  <2>4. CASE s.pc # "idle"
    <3>1. sign'[g] = [s EXCEPT !.on = s.on \cup O]
      BY <1>3, <2>1, <2>4 DEF SetQuestionControl
    <3> QED BY <2>1, <2>2, <3>1 DEF Signs
  <2> QED BY <2>3, <2>4
<1>5. sign' \in [Guests -> Signs]
  <2>1. sign' = [g \in Guests |-> sign'[g]]
    BY DEF SetQuestionControl
  <2> QED BY <1>4, <2>1
<1>6. TypeOK'
  BY <1>1, <1>2, <1>5 DEF TypeOK, Answered, Live
<1>7. Fitting'
  BY <1>1 DEF Fitting
<1>8. Signing'
  BY <1>1, <1>3, <1>4 DEF Signing
<1> QED BY <1>1, <1>6, <1>7, <1>8, BuildersStay DEF Inv

\* A signup stores answers to what it was asked, where there were none.
LEMMA CreatedAnswers ==
    ASSUME Inv, NEW g \in Guests, RegisterCreate(g)
    PROVE  /\ answers[g] = {} /\ \A h \in Guests \ {g} : answers'[h] = answers[h]
           /\ \A a \in answers'[g] : rows[a.qid].key \in sign[g].on \cup {NoKey}
<1>1. /\ TypeOK /\ Signing /\ sign[g].pc = "create" /\ answers \in [Guests -> SUBSET Answers]
      /\ answers' = [answers EXCEPT ![g] =
           {[qid |-> f.qid, as |-> f.type, raced |-> sign[g].raced \/ Underway # {}] : f \in Stored(g)}]
  BY DEF RegisterCreate, Inv, TypeOK
<1>2. \A a \in answers'[g] : \E f \in sign[g].kept : a.qid = f.qid
  BY <1>1 DEF Stored
<1>3. \A f \in sign[g].kept : rows[f.qid].key \in sign[g].on \cup {NoKey}
  BY <1>1 DEF Signing
<1> QED BY <1>1, <1>2, <1>3 DEF Signing

LEMMA StepKeeps == Inv /\ [Next]_vars => Inv'
<1> SUFFICES ASSUME Inv, [Next]_vars PROVE Inv'
  OBVIOUS
<1>1. CASE UNCHANGED vars
  <2>1. UNCHANGED <<rows, control, switches, status, answers, form, sign, page, save, edits, saves, acts, lost>>
    BY <1>1 DEF vars, event, bounds
  <2>2. TypeOK'
    BY <2>1 DEF Inv, TypeOK, Answered, Live
  <2>3. Fitting' /\ Signing'
    BY <2>1 DEF Inv, Fitting, Signing, On
  <2> QED BY <2>1, <2>2, <2>3, BuildersStay DEF Inv
<1>2. ASSUME NEW p \in Pages,
             \/ Load(p) \/ SaveQuestions(p) \/ SaveReply(p) \/ SaveLost(p)
             \/ SaveRead(p) \/ Validate(p) \/ Apply(p)
             \/ \E t \in Types \ Picks : AddQuestion(p, t)
             \/ \E d \in page[p].list :
                  \/ \E t \in Types : Retype(p, d, t)
                  \/ RemoveQuestion(p, d) \/ ShowAgain(p, d) \/ SwitchField(p, d)
      PROVE  Inv'
  BY <1>2, LoadStep, SaveSteps, ReplyStep, ApplyStep, BuilderStep
<1>3. ASSUME NEW g \in Guests,
             \/ OpenForm(g) \/ Submit(g) \/ Cancel(g)
             \/ RegisterRead(g) \/ RegisterClear(g) \/ RegisterCreate(g)
             \/ \E required \in BOOLEAN : RegisterCheck(g, required)
      PROVE  Inv'
  BY <1>3, FormStep, SubmitStep, CancelStep, ReadStep, ClearStep, CreateStep, CheckStep
<1>4. ASSUME NEW k \in Keys, NEW on \in BOOLEAN, SwitchRead(k, on) PROVE Inv'
  BY <1>4, SwitchReadStep
<1>5. ASSUME NEW w \in switches, SetQuestionControl(w) PROVE Inv'
  BY <1>5, SwitchStep
<1> QED BY <1>1, <1>2, <1>3, <1>4, <1>5 DEF Next

\* What a step does to the answers of a guest: only the guest's own signup, and the
\* clearing before it, touches them.
LEMMA AnswersTouched ==
    ASSUME Inv, [Next]_vars, NEW g \in Guests
    PROVE  \/ answers'[g] = answers[g] \/ RegisterClear(g) \/ RegisterCreate(g)
<1>1. CASE UNCHANGED vars
  BY <1>1 DEF vars, event
<1>2. ASSUME NEW p \in Pages,
             \/ Load(p) \/ SaveQuestions(p) \/ SaveReply(p) \/ SaveLost(p)
             \/ SaveRead(p) \/ Validate(p)
             \/ \E t \in Types \ Picks : AddQuestion(p, t)
             \/ \E d \in page[p].list :
                  \/ \E t \in Types : Retype(p, d, t)
                  \/ RemoveQuestion(p, d) \/ ShowAgain(p, d) \/ SwitchField(p, d)
      PROVE  answers' = answers
  BY <1>2 DEF Load, SaveQuestions, SaveReply, SaveLost, SaveRead, Validate, AddQuestion,
              Retype, RemoveQuestion, ShowAgain, SwitchField, Edit, event
<1>3. ASSUME NEW p \in Pages, Apply(p) PROVE answers' = answers
  BY <1>3, AnswersStay
<1>4. ASSUME NEW h \in Guests, h # g,
             \/ OpenForm(h) \/ Submit(h) \/ Cancel(h)
             \/ RegisterRead(h) \/ RegisterClear(h) \/ RegisterCreate(h)
             \/ \E required \in BOOLEAN : RegisterCheck(h, required)
      PROVE  answers'[g] = answers[g]
  <2>1. answers \in [Guests -> SUBSET Answers]
    BY DEF Inv, TypeOK
  <2> QED BY <1>4, <2>1 DEF OpenForm, Submit, Cancel, RegisterRead, RegisterClear, RegisterCreate,
                            RegisterCheck, event
<1>5. ASSUME \/ OpenForm(g) \/ Submit(g) \/ Cancel(g) \/ RegisterRead(g)
             \/ \E required \in BOOLEAN : RegisterCheck(g, required)
      PROVE  answers' = answers
  BY <1>5 DEF OpenForm, Submit, Cancel, RegisterRead, RegisterCheck, event
<1>6. ASSUME NEW k \in Keys, NEW on \in BOOLEAN, SwitchRead(k, on) PROVE answers' = answers
  BY <1>6 DEF SwitchRead
<1>7. ASSUME NEW w \in switches, SetQuestionControl(w) PROVE answers' = answers
  BY <1>7 DEF SetQuestionControl
<1> QED BY <1>1, <1>2, <1>3, <1>4, <1>5, <1>6, <1>7 DEF Next

(***************************************************************************)
(* The theorems.                                                           *)
(***************************************************************************)
LEMMA AlwaysInv == Spec => []Inv
<1>1. Init => Inv
  BY InitHolds
<1>2. Inv /\ [Next]_vars => Inv'
  BY StepKeeps
<1> QED BY <1>1, <1>2, PTL DEF Spec

\* Every answer is in the export, whatever became of its question, and read by the
\* type and options it was given for, unless a save was under way meanwhile.
THEOREM AnswersAreReadAsGiven == Spec => []AnswersFit
<1>1. Inv => AnswersFit
  <2> SUFFICES ASSUME Inv, NEW g \in Guests, NEW a \in answers[g]
               PROVE  \E r \in Exported(g) : r.qid = a.qid /\ (a.raced \/ r.type = a.as)
    BY DEF Inv, AnswersFit
  <2>1. a.qid \in Live
    BY DEF Inv, TypeOK, Answered
  <2>2. a.raced \/ rows[a.qid].type = a.as
    BY DEF Inv, Fitting
  <2>3. [qid |-> a.qid, type |-> rows[a.qid].type] \in Exported(g)
    BY <2>1 DEF Exported, Loaded, Columns
  <2> QED BY <2>2, <2>3
<1> QED BY <1>1, AlwaysInv, PTL

\* A question added once on a page is one row however often the page saves, unless
\* an answer of the server got lost.
THEOREM QuestionsAreMadeOnce == Spec => []SavedOnce
<1>1. Inv => SavedOnce
  BY DEF Inv, Once, SavedOnce
<1> QED BY <1>1, AlwaysInv, PTL

\* No save destroys an answer, however old the list of questions it is based on:
\* answers go only when their guest signs up again.
THEOREM SavesKeepAnswers == Spec => AnswersKept
<1>1. Inv /\ [Next]_vars => [\A g \in Guests : sign[g].pc # "clear" => answers[g] \subseteq answers'[g]]_vars
  <2> SUFFICES ASSUME Inv, [Next]_vars, NEW g \in Guests, sign[g].pc # "clear"
               PROVE  answers[g] \subseteq answers'[g]
    OBVIOUS
  <2>1. CASE answers'[g] = answers[g]
    BY <2>1
  <2>2. CASE RegisterClear(g)
    BY <2>2 DEF RegisterClear
  <2>3. CASE RegisterCreate(g)
    BY <2>3, CreatedAnswers
  <2> QED BY <2>1, <2>2, <2>3, AnswersTouched
<1> QED BY <1>1, AlwaysInv, PTL DEF Spec, AnswersKept

\* A field that was off club-wide ever since a signup was sent is not among the
\* answers that signup stores.
THEOREM OffIsNotCollected == Spec => OffMeansOff
<1>1. Inv /\ [Next]_vars =>
        [\A g \in Guests : sign[g].pc = "create" =>
           \A a \in answers'[g] \ answers[g] : rows[a.qid].key \in sign[g].on \cup {NoKey}]_vars
  <2> SUFFICES ASSUME Inv, [Next]_vars, NEW g \in Guests, NEW a \in answers'[g] \ answers[g],
                      sign[g].pc = "create"
               PROVE  rows[a.qid].key \in sign[g].on \cup {NoKey}
    OBVIOUS
  <2>1. CASE answers'[g] = answers[g]
    BY <2>1
  <2>2. CASE RegisterClear(g)
    BY <2>2 DEF RegisterClear
  <2>3. CASE RegisterCreate(g)
    BY <2>3, CreatedAnswers
  <2> QED BY <2>1, <2>2, <2>3, AnswersTouched
<1> QED BY <1>1, AlwaysInv, PTL DEF Spec, OffMeansOff
=============================================================================
