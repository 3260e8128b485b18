---------------------------- MODULE ScreensProofs ----------------------------
(***************************************************************************)
(* What Transfers keeps for every set of hosts, users and requests, and    *)
(* that it keeps it behind the screens too, for every set of phones; that  *)
(* what a friend is told on the claim page is true, that a link its host   *)
(* has seen revoked is dead, that no screen waits in vain, and how often a *)
(* pass gets in.                                                           *)
(***************************************************************************)
EXTENDS Screens, FiniteSetTheorems, TLAPS

(***************************************************************************)
(* The requests of Transfers.                                              *)
(***************************************************************************)
\* A request that acts on a link or a pass has a host and, to claim, a user; what
\* makes it late is still so, and is not yet ruled out by the reads it has done.
RequestFits(w) ==
    LET r == req[w] IN
    /\ r.pc # "idle" => r.host \in Hosts
    /\ r.pc \in Claiming => r.user \in Users
    /\ r.pc = "rotate" => r.rotation < MaxRotation
    /\ r.pc = "claiming" => r.user # r.host /\ ~ r.late
    /\ r.pc = "claim" /\ r.late => r.host \in removed
    /\ r.pc \in {"parent", "seen"} /\ r.late =>
         entries[<<r.host, r.kind>>] > 0 \/ (r.pc = "parent" /\ r.host \in removed)
    /\ r.pc = "enter" => ~ r.late

Inv ==
    /\ TypeOK
    /\ ClaimedHasPass
    /\ \A h \in Hosts : plus[h].revoked => plus[h].by # Nobody
    /\ \A w \in Workers : RequestFits(w)

-----------------------------------------------------------------------------
LEMMA InitHolds == Init => Inv
<1> SUFFICES ASSUME Init PROVE Inv
  OBVIOUS
<1> USE TransfersAssumption
<1>1. TypeOK
  <2>1. Idle \in Requests /\ NoTicket \in PlusOneTickets
        /\ [status |-> "none", rotation |-> 0] \in Links
    BY DEF Idle, Requests, NoTicket, PlusOneTickets, Links, LinkStatuses
  <2> QED BY <2>1 DEF Init, TypeOK
<1>2. ClaimedHasPass /\ \A h \in Hosts : plus[h].revoked => plus[h].by # Nobody
  BY DEF Init, ClaimedHasPass, NoTicket
<1>3. \A w \in Workers : RequestFits(w)
  BY DEF Init, RequestFits, Idle, Claiming
<1> QED BY <1>1, <1>2, <1>3 DEF Inv

\* A step of one request that touches no row.
LEMMA ReadStep ==
    ASSUME Inv, NEW w \in Workers, NEW r \in Requests, req' = [req EXCEPT ![w] = r],
           UNCHANGED <<open, removed, link, plus, entries>>, RequestFits(w)'
    PROVE  Inv'
<1>1. \A v \in Workers : v # w => req'[v] = req[v]
  BY DEF Inv, TypeOK
<1>2. \A v \in Workers : RequestFits(v)'
  BY <1>1 DEF Inv, RequestFits
<1>3. TypeOK'
  BY DEF Inv, TypeOK
<1> QED BY <1>2, <1>3 DEF Inv, ClaimedHasPass

\* A request that ends, whatever it wrote: the others still fit as long as what
\* was removed or scanned stays so.
LEMMA LastStep ==
    ASSUME Inv, NEW w \in Workers, Finish(w), removed' = removed,
           entries' \in [Passes -> Nat], \A p \in Passes : entries[p] > 0 => entries'[p] > 0
    PROVE  (\A v \in Workers : RequestFits(v)') /\ req' \in [Workers -> Requests]
<1>1. Idle \in Requests /\ Idle.pc = "idle"
  BY TransfersAssumption DEF Idle, Requests
<1>2. req' \in [Workers -> Requests]
  BY <1>1 DEF Finish, Become, Inv, TypeOK
<1>3. ASSUME NEW v \in Workers PROVE RequestFits(v)'
  <2>1. CASE v = w
    <3>1. req'[v].pc = "idle"
      BY <1>1, <2>1 DEF Finish, Become, Inv, TypeOK
    <3> QED BY <3>1 DEF RequestFits, Claiming
  <2>2. CASE v # w
    <3>1. req'[v] = req[v] /\ RequestFits(v) /\ req[v] \in Requests
      BY <2>2 DEF Finish, Become, Inv, TypeOK
    <3>2. req[v].pc # "idle" => <<req[v].host, req[v].kind>> \in Passes
      BY <3>1 DEF RequestFits, Passes, Requests
    <3> QED BY <3>1, <3>2 DEF RequestFits
  <2> QED BY <2>1, <2>2
<1> QED BY <1>2, <1>3

\* Steps of the host, a removal and the event's status: no request moves.
LEMMA RowStep ==
    ASSUME Inv, UNCHANGED <<entries, req>>, removed \subseteq removed'
    PROVE  \A v \in Workers : RequestFits(v)'
BY DEF Inv, RequestFits

LEMMA DeactivatedLink ==
    ASSUME NEW l \in Links
    PROVE  /\ Deactivated(l) \in Links
           /\ Deactivated(l).status = "claimed" => l.status = "claimed"
BY DEF Deactivated, Links, LinkStatuses

\* Every action keeps the invariant.
LEMMA StepKeeps == Inv /\ [Next]_vars => Inv'
<1> SUFFICES ASSUME Inv, [Next]_vars PROVE Inv'
  OBVIOUS
<1> USE TransfersAssumption
<1>1. \A w \in Workers : req[w] \in Requests /\ RequestFits(w)
  BY DEF Inv, TypeOK
<1>2. Idle \in Requests /\ Idle.pc = "idle"
  BY DEF Idle, Requests
<1>3. ASSUME NEW w \in Workers, Finish(w), UNCHANGED <<open, removed, link, plus, entries>>
      PROVE  Inv'
  <2>1. (\A v \in Workers : RequestFits(v)') /\ req' \in [Workers -> Requests]
    BY <1>3, LastStep DEF Inv, TypeOK
  <2> QED BY <1>3, <2>1 DEF Inv, TypeOK, ClaimedHasPass
<1>4. ASSUME NEW w \in Workers, NEW h \in Hosts, EnsureStart(w, h) PROVE Inv'
  <2> DEFINE r == [Idle EXCEPT !.pc = "ensure", !.host = h]
  <2>1. r \in Requests /\ r.pc = "ensure" /\ r.host = h
    BY <1>2 DEF Requests, Making
  <2> HIDE DEF r
  <2>2. req' = [req EXCEPT ![w] = r] /\ req'[w] = r
    BY <1>4 DEF EnsureStart, Become, Inv, TypeOK, r
  <2> QED BY <1>4, <2>1, <2>2, ReadStep DEF EnsureStart, RequestFits, Claiming
<1>5. ASSUME NEW w \in Workers, NEW h \in Hosts, NEW u \in Users, ClaimParse(w, u, h) PROVE Inv'
  <2> DEFINE r == [Idle EXCEPT !.pc = "claim", !.user = u, !.host = h, !.late = h \in removed]
  <2>2. /\ r \in Requests /\ r.pc = "claim" /\ r.host = h /\ r.user = u
        /\ r.late = (h \in removed)
    <3>1. \A b \in BOOLEAN :
            LET q == [Idle EXCEPT !.pc = "claim", !.user = u, !.host = h, !.late = b]
            IN  q \in Requests /\ q.pc = "claim" /\ q.host = h /\ q.user = u /\ q.late = b
      BY <1>2 DEF Requests, Claiming
    <3>2. (h \in removed) \in BOOLEAN
      OBVIOUS
    <3> QED BY <3>1, <3>2
  <2> HIDE DEF r
  <2>3. req' = [req EXCEPT ![w] = r] /\ req'[w] = r
    BY <1>5 DEF ClaimParse, Become, Inv, TypeOK, r
  <2> QED BY <1>5, <2>2, <2>3, ReadStep DEF ClaimParse, RequestFits, Claiming
<1>6. ASSUME NEW w \in Workers, NEW p \in Passes, ScanTicket(w, p) PROVE Inv'
  <2> DEFINE pc == IF p[2] = "plus_one" THEN "parent" ELSE "seen"
             late == entries[p] > 0 \/ Host(p) \in removed
             r == [Idle EXCEPT !.pc = pc, !.host = Host(p), !.kind = p[2], !.late = late]
  <2>1. /\ Host(p) \in Hosts /\ p[2] \in {"primary", "plus_one"} /\ p = <<Host(p), p[2]>>
        /\ late \in BOOLEAN
    BY DEF Passes, Host
  <2>2. p[2] = "primary" => Host(p) \notin removed
    BY <1>6 DEF ScanTicket, Revoked
  <2>3. /\ r \in Requests /\ r.pc = pc /\ r.host = Host(p) /\ r.kind = p[2] /\ r.late = late
        /\ pc \in {"parent", "seen"} /\ (pc = "seen" => p[2] = "primary")
    BY <1>2, <2>1 DEF Requests, Scanning
  <2>4. req' = [req EXCEPT ![w] = r] /\ req'[w] = r
    BY <1>6 DEF ScanTicket, Become, Inv, TypeOK
  <2>5. UNCHANGED <<open, removed, link, plus, entries>>
    BY <1>6 DEF ScanTicket
  <2>6. r.late => entries[<<r.host, r.kind>>] > 0 \/ (r.pc = "parent" /\ r.host \in removed)
    BY <2>1, <2>2, <2>3
  <2> HIDE DEF r, pc, late
  <2>7. RequestFits(w)'
    BY <2>1, <2>3, <2>4, <2>5, <2>6 DEF RequestFits, Claiming
  <2> QED BY <2>3, <2>4, <2>5, <2>7, ReadStep
<1>7. ASSUME NEW w \in Workers, EnsureRead(w) PROVE Inv'
  <2>1. req[w].host \in Hosts
    BY <1>1, <1>7 DEF EnsureRead, At, RequestFits
  <2>2. link[req[w].host].rotation \in 0 .. MaxRotation
    BY <2>1 DEF Inv, TypeOK, Links
  <2>3. CASE Finish(w)
    BY <1>3, <1>7, <2>3 DEF EnsureRead
  <2>4. CASE Become(w, [req[w] EXCEPT !.pc = "insert"])
    <3> DEFINE r == [req[w] EXCEPT !.pc = "insert"]
    <3>1. r \in Requests /\ r.pc = "insert" /\ r.host = req[w].host
      BY <1>1 DEF Requests, Making
    <3> HIDE DEF r
    <3>2. req' = [req EXCEPT ![w] = r] /\ req'[w] = r
      BY <2>4 DEF Become, Inv, TypeOK, r
    <3> QED BY <1>7, <2>1, <3>1, <3>2, ReadStep DEF EnsureRead, RequestFits, Claiming
  <2>5. CASE /\ link[req[w].host].rotation < MaxRotation
             /\ Become(w, [req[w] EXCEPT !.pc = "rotate", !.rotation = link[req[w].host].rotation])
    <3> DEFINE r == [req[w] EXCEPT !.pc = "rotate", !.rotation = link[req[w].host].rotation]
    <3>1. r \in Requests /\ r.pc = "rotate" /\ r.host = req[w].host /\ r.rotation < MaxRotation
      BY <1>1, <2>2, <2>5 DEF Requests, Making
    <3> HIDE DEF r
    <3>2. req' = [req EXCEPT ![w] = r] /\ req'[w] = r
      BY <2>5 DEF Become, Inv, TypeOK, r
    <3> QED BY <1>7, <2>1, <3>1, <3>2, ReadStep DEF EnsureRead, RequestFits, Claiming
  <2> QED BY <1>7, <2>3, <2>4, <2>5 DEF EnsureRead
<1>8. ASSUME NEW w \in Workers, EnsureInsert(w) \/ EnsureRotate(w) PROVE Inv'
  <2>1. req[w].host \in Hosts /\ (req[w].pc = "rotate" => req[w].rotation + 1 \in 0 .. MaxRotation)
    <3>1. req[w].pc = "insert" \/ req[w].pc = "rotate"
      BY <1>8 DEF EnsureInsert, EnsureRotate, At
    <3>2. req[w].host \in Hosts /\ (req[w].pc = "rotate" => req[w].rotation < MaxRotation)
      BY <1>1, <3>1 DEF RequestFits
    <3>3. req[w].rotation \in 0 .. MaxRotation
      BY <1>1 DEF Requests
    <3> QED BY <3>2, <3>3
  <2>2. \/ link' = link
        \/ \E k \in 0 .. MaxRotation :
             link' = [link EXCEPT ![req[w].host] = [status |-> "active", rotation |-> k]]
    BY <1>8, <2>1 DEF EnsureInsert, EnsureRotate, At
  <2>3. link' \in [Hosts -> Links] /\ \A h \in Hosts : link'[h].status = "claimed" => link[h].status = "claimed"
    <3>1. \A k \in 0 .. MaxRotation : /\ [status |-> "active", rotation |-> k] \in Links
                                     /\ [status |-> "active", rotation |-> k].status # "claimed"
      BY DEF Links, LinkStatuses
    <3> QED BY <2>1, <2>2, <3>1 DEF Inv, TypeOK
  <2>4. Finish(w) /\ UNCHANGED <<open, removed, plus, entries>>
    BY <1>8 DEF EnsureInsert, EnsureRotate
  <2>5. (\A v \in Workers : RequestFits(v)') /\ req' \in [Workers -> Requests]
    BY <2>4, LastStep DEF Inv, TypeOK
  <2> QED BY <2>3, <2>4, <2>5 DEF Inv, TypeOK, ClaimedHasPass
<1>9. ASSUME NEW w \in Workers, ClaimRead(w) PROVE Inv'
  <2>1. CASE Finish(w)
    BY <1>3, <1>9, <2>1 DEF ClaimRead
  <2>2. CASE ~ Finish(w)
    <3> DEFINE r == [req[w] EXCEPT !.pc = "claiming"]
    <3>1. /\ r \in Requests /\ r.pc = "claiming" /\ r.host = req[w].host /\ r.user = req[w].user
          /\ r.late = req[w].late
      BY <1>1 DEF Requests, Claiming
    <3>2. req[w].pc = "claim" /\ req[w].host \notin removed /\ req[w].user # req[w].host
          /\ Become(w, r)
      BY <1>9, <2>2 DEF ClaimRead, At
    <3>3. /\ req[w].host \in Hosts /\ req[w].user \in Users /\ ~ req[w].late
      BY <1>1, <3>2 DEF RequestFits, Claiming, Requests
    <3> HIDE DEF r
    <3>4. req' = [req EXCEPT ![w] = r] /\ req'[w] = r
      BY <3>2 DEF Become, Inv, TypeOK
    <3> QED BY <1>9, <3>1, <3>2, <3>3, <3>4, ReadStep DEF ClaimRead, RequestFits, Claiming
  <2> QED BY <2>1, <2>2
<1>10. ASSUME NEW w \in Workers, ClaimCommit(w) PROVE Inv'
  <2>1. req[w].host \in Hosts /\ req[w].user \in Users
    BY <1>1, <1>10 DEF ClaimCommit, At, RequestFits, Claiming, Requests
  <2>2. Finish(w) /\ UNCHANGED <<open, removed, entries>>
    BY <1>10 DEF ClaimCommit
  <2>3. (\A v \in Workers : RequestFits(v)') /\ req' \in [Workers -> Requests]
    BY <2>2, LastStep DEF Inv, TypeOK
  <2>4. CASE UNCHANGED <<plus, link>>
    BY <2>2, <2>3, <2>4 DEF Inv, TypeOK, ClaimedHasPass
  <2>5. CASE /\ plus' = [plus EXCEPT ![req[w].host] =
                           [by |-> req[w].user, revoked |-> FALSE]]
             /\ link' = [link EXCEPT ![req[w].host].status = "claimed"]
    <3>1. plus' \in [Hosts -> PlusOneTickets] /\ link' \in [Hosts -> Links]
      BY <2>1, <2>5 DEF Inv, TypeOK, PlusOneTickets, Links, LinkStatuses
    <3>2. \A h \in Hosts : IF h = req[w].host THEN plus'[h].by # Nobody
                           ELSE plus'[h] = plus[h] /\ link'[h] = link[h]
      BY <2>1, <2>5 DEF Inv, TypeOK
    <3> QED BY <2>2, <2>3, <3>1, <3>2 DEF Inv, TypeOK, ClaimedHasPass
  <2> QED BY <1>10, <2>4, <2>5 DEF ClaimCommit
<1>11. ASSUME NEW w \in Workers, ScanParent(w) PROVE Inv'
  <2>1. CASE Finish(w)
    BY <1>3, <1>11, <2>1 DEF ScanParent
  <2>2. CASE ~ Finish(w)
    <3> DEFINE r == [req[w] EXCEPT !.pc = "seen"]
    <3>1. /\ r \in Requests /\ r.pc = "seen" /\ r.host = req[w].host /\ r.kind = req[w].kind
          /\ r.late = req[w].late
      BY <1>1 DEF Requests, Scanning
    <3>2. req[w].pc = "parent" /\ req[w].host \notin removed /\ Become(w, r)
      BY <1>11, <2>2 DEF ScanParent, At
    <3>3. req[w].host \in Hosts /\ (req[w].late => entries[<<req[w].host, req[w].kind>>] > 0)
      BY <1>1, <3>2 DEF RequestFits
    <3> HIDE DEF r
    <3>4. req' = [req EXCEPT ![w] = r] /\ req'[w] = r
      BY <3>2 DEF Become, Inv, TypeOK
    <3> QED BY <1>11, <3>1, <3>3, <3>4, ReadStep DEF ScanParent, RequestFits, Claiming
  <2> QED BY <2>1, <2>2
<1>12. ASSUME NEW w \in Workers, ScanSeen(w) PROVE Inv'
  <2>1. CASE Finish(w)
    BY <1>3, <1>12, <2>1 DEF ScanSeen
  <2>2. CASE ~ Finish(w)
    <3> DEFINE r == [req[w] EXCEPT !.pc = "enter"]
    <3>1. r \in Requests /\ r.pc = "enter" /\ r.host = req[w].host /\ r.late = req[w].late
      BY <1>1 DEF Requests, Scanning
    <3>2. req[w].pc = "seen" /\ ~ (entries[<<req[w].host, req[w].kind>>] > 0) /\ Become(w, r)
      BY <1>12, <2>2 DEF ScanSeen, At, Pass
    <3>3. req[w].host \in Hosts /\ ~ req[w].late
      BY <1>1, <3>2 DEF RequestFits, Requests
    <3> HIDE DEF r
    <3>4. req' = [req EXCEPT ![w] = r] /\ req'[w] = r
      BY <3>2 DEF Become, Inv, TypeOK
    <3> QED BY <1>12, <3>1, <3>3, <3>4, ReadStep DEF ScanSeen, RequestFits, Claiming
  <2> QED BY <2>1, <2>2
<1>13. ASSUME NEW w \in Workers, ScanEnter(w) PROVE Inv'
  <2>1. entries' \in [Passes -> Nat] /\ \A p \in Passes : entries[p] > 0 => entries'[p] > 0
    <3> DEFINE q == Pass(w)
    <3>1. entries' = [entries EXCEPT ![q] = entries[q] + 1] /\ entries \in [Passes -> Nat]
      BY <1>13 DEF ScanEnter, Inv, TypeOK
    <3> HIDE DEF q
    <3>2. \A p \in Passes : entries[p] \in Nat
      BY <3>1
    <3>3. entries' = [p \in Passes |-> IF p = q THEN entries[p] + 1 ELSE entries[p]]
      BY <3>1
    <3>4. \A p \in Passes : entries'[p] \in Nat /\ (entries[p] > 0 => entries'[p] > 0)
      BY <3>2, <3>3
    <3> QED BY <3>3, <3>4
  <2>2. Finish(w) /\ UNCHANGED <<open, removed, link, plus>>
    BY <1>13 DEF ScanEnter
  <2>3. (\A v \in Workers : RequestFits(v)') /\ req' \in [Workers -> Requests]
    BY <2>1, <2>2, LastStep
  <2> QED BY <2>1, <2>2, <2>3 DEF Inv, TypeOK, ClaimedHasPass
<1>14. ASSUME NEW w \in Workers, Abort(w) PROVE Inv'
  BY <1>3, <1>14 DEF Abort
<1>15. ASSUME NEW h \in Hosts, RevokeLink(h) \/ Remove(h) PROVE Inv'
  <2>1. link' = [link EXCEPT ![h] = Deactivated(link[h])] /\ UNCHANGED <<open, entries, req>>
        /\ removed \subseteq removed' /\ removed' \subseteq Hosts
    BY <1>15 DEF RevokeLink, Remove, Inv, TypeOK
  <2>2. link' \in [Hosts -> Links] /\ \A g \in Hosts : link'[g].status = "claimed" => link[g].status = "claimed"
    BY <2>1, DeactivatedLink DEF Inv, TypeOK
  <2>3. /\ plus' \in [Hosts -> PlusOneTickets]
        /\ \A g \in Hosts : plus'[g].by = plus[g].by /\ (plus'[g].revoked => plus[g].by # Nobody)
    <3>1. CASE RevokeLink(h)
      BY <3>1 DEF RevokeLink, Inv, TypeOK
    <3>2. CASE Remove(h)
      <4>1. plus' = [plus EXCEPT ![h].revoked = plus[h].by # Nobody]
        BY <3>2 DEF Remove
      <4>2. \A g \in Hosts : plus[g] \in PlusOneTickets
        BY DEF Inv, TypeOK
      <4>3. plus'[h] = [plus[h] EXCEPT !.revoked = plus[h].by # Nobody]
        BY <4>1 DEF Inv, TypeOK
      <4>4. /\ plus'[h] \in PlusOneTickets /\ plus'[h].by = plus[h].by
            /\ (plus'[h].revoked => plus[h].by # Nobody)
        BY <4>2, <4>3 DEF PlusOneTickets
      <4> QED BY <4>1, <4>4 DEF Inv, TypeOK
    <3> QED BY <1>15, <3>1, <3>2
  <2>4. \A v \in Workers : RequestFits(v)'
    BY <2>1, RowStep
  <2> QED BY <2>1, <2>2, <2>3, <2>4 DEF Inv, TypeOK, ClaimedHasPass
<1>16. CASE SetStatus
  BY <1>16, RowStep DEF SetStatus, Inv, TypeOK, ClaimedHasPass
<1>17. CASE UNCHANGED vars
  BY <1>17 DEF vars, Inv, TypeOK, ClaimedHasPass, RequestFits
<1> QED
  BY <1>4, <1>5, <1>6, <1>7, <1>8, <1>9, <1>10, <1>11, <1>12, <1>13, <1>14, <1>15, <1>16, <1>17
     DEF Next, Arrive, Proceed

LEMMA InvHolds == Spec => []Inv
BY InitHolds, StepKeeps, PTL DEF Spec

-----------------------------------------------------------------------------
\* Types of the variables, in every reachable state.
THEOREM TypeCorrect == Spec => []TypeOK
<1>1. Inv => TypeOK
  BY DEF Inv
<1> QED BY <1>1, InvHolds, PTL

\* A transfer that says claimed has a +1 ticket behind it.
THEOREM ClaimsHavePasses == Spec => []ClaimedHasPass
<1>1. Inv => ClaimedHasPass
  BY DEF Inv
<1> QED BY <1>1, InvHolds, PTL

\* Nobody gets in on a pass that was used, or on a +1 of a host who was removed,
\* before the scan began; nobody claims the +1 of a host who was removed before
\* the claim began.
THEOREM DoorHolds == Spec => []LatecomersTurnedAway
<1>1. Inv => LatecomersTurnedAway
  BY DEF Inv, RequestFits, LatecomersTurnedAway, At
<1> QED BY <1>1, InvHolds, PTL

\* The transfers implement the promise of the +1: it goes to one person, not the
\* host, and stays taken back.
THEOREM PromiseImplemented == Spec => PromiseKept
<1> DEFINE holder == [h \in Hosts |-> plus[h].by]
           void == {h \in Hosts : plus[h].revoked}
<1>1. Init => Promise!Init
  BY DEF Init, Promise!Init, NoTicket
<1>2. Inv /\ [Next]_vars => [Promise!Next]_<<holder, void>>
  <2> SUFFICES ASSUME Inv, [Next]_vars PROVE Promise!Next \/ UNCHANGED <<holder, void>>
    OBVIOUS
  <2>1. CASE plus' = plus
    BY <2>1
  <2>2. ASSUME NEW w \in Workers, ClaimCommit(w), plus' # plus PROVE Promise!Next
    <3>1. PICK h \in Hosts, u \in Users :
            /\ u # h /\ plus[h].by = Nobody
            /\ plus' = [plus EXCEPT ![h] = [by |-> u, revoked |-> FALSE]]
      <4>1. /\ req[w].host \in Hosts /\ req[w].user \in Users /\ req[w].user # req[w].host
        BY <2>2 DEF ClaimCommit, At, Inv, TypeOK, Requests, RequestFits, Claiming
      <4>2. /\ plus[req[w].host].by = Nobody
            /\ plus' = [plus EXCEPT ![req[w].host] =
                          [by |-> req[w].user, revoked |-> FALSE]]
        BY <2>2 DEF ClaimCommit
      <4> QED BY <4>1, <4>2
    <3>2. /\ plus'[h].by = u /\ ~ plus'[h].revoked /\ ~ plus[h].revoked
          /\ \A g \in Hosts : g # h => plus'[g] = plus[g]
      BY <3>1 DEF Inv, TypeOK
    <3>3. holder' = [holder EXCEPT ![h] = u] /\ void' = void
      <4>1. \A g \in Hosts : plus'[g].by = IF g = h THEN u ELSE plus[g].by
        BY <3>2
      <4>2. holder' = [g \in Hosts |-> IF g = h THEN u ELSE plus[g].by]
        BY <4>1
      <4>3. void' = void
        BY <3>2
      <4> QED BY <4>2, <4>3
    <3>4. holder[h] = Nobody
      BY <3>1
    <3>5. Promise!Give(h, u)
      BY <3>1, <3>3, <3>4 DEF Promise!Give
    <3> QED BY <3>5 DEF Promise!Next
  <2>3. ASSUME NEW h \in Hosts, Remove(h) PROVE Promise!Next \/ UNCHANGED <<holder, void>>
    <3>1. plus' = [plus EXCEPT ![h].revoked = plus[h].by # Nobody]
      BY <2>3 DEF Remove
    <3>2. \A g \in Hosts : plus[g] \in PlusOneTickets
      BY DEF Inv, TypeOK
    <3>3. /\ plus'[h] = [plus[h] EXCEPT !.revoked = plus[h].by # Nobody]
          /\ \A g \in Hosts : g # h => plus'[g] = plus[g]
      BY <3>1 DEF Inv, TypeOK
    <3>4. plus'[h].by = plus[h].by /\ plus'[h].revoked = (plus[h].by # Nobody)
      BY <3>2, <3>3 DEF PlusOneTickets
    <3>5. holder' = holder
      BY <3>3, <3>4
    <3>6. CASE plus[h].by = Nobody
      <4>1. ~ plus[h].revoked
        BY <3>6 DEF Inv
      <4>2. void' = void
        BY <3>3, <3>4, <3>6, <4>1
      <4> QED BY <3>5, <4>2
    <3>7. CASE plus[h].by # Nobody
      <4>1. void' = void \cup {h}
        BY <3>3, <3>4, <3>7
      <4>2. Promise!TakeBack(h)
        BY <3>5, <3>7, <4>1 DEF Promise!TakeBack
      <4> QED BY <4>2 DEF Promise!Next
    <3> QED BY <3>6, <3>7
  <2>4. \/ plus' = plus
        \/ \E w \in Workers : ClaimCommit(w)
        \/ \E h \in Hosts : Remove(h)
    BY DEF Next, vars, Arrive, Proceed, EnsureStart, ClaimParse, ScanTicket, EnsureRead, EnsureInsert,
           EnsureRotate, ClaimRead, ScanParent, ScanSeen, ScanEnter, Abort, RevokeLink, SetStatus
  <2> QED BY <2>1, <2>2, <2>3, <2>4
<1> QED BY <1>1, <1>2, InvHolds, PTL DEF Spec, PromiseKept, Promise!Spec

(***************************************************************************)
(* The screens in front of them.                                           *)
(***************************************************************************)
\* Whoever was told that the +1 is theirs has it.
WinnerFits(u) ==
    visitor[u].won => visitor[u].from \in Hosts /\ plus[visitor[u].from].by = u

\* A claim page that waits has its own link's claim under way, or an answer that
\* says what became of it.
CallFits(w) ==
    LET u == call[w].by IN
    call[w].of = "visitor" =>
      /\ u \in Users /\ visitor[u].from \in Hosts
      /\ ~ At(w, "idle") => /\ req[w].pc \in Claiming
                            /\ req[w].user = u /\ req[w].host = visitor[u].from
      /\ At(w, "idle") /\ call[w].ok => plus[visitor[u].from].by = u

Pages ==
    /\ call \in [Workers -> Calls]
    /\ visitor \in [Users -> Visitors]
    /\ \A w \in Workers : CallFits(w)
    /\ \A u \in Users : WinnerFits(u)

-----------------------------------------------------------------------------
\* Every step of a screen, of the network or of the API is a step of Transfers
\* or leaves its variables alone.
LEMMA StepsOfTransfers == visitor \in [Users -> Visitors] /\ ScreensNext => [Next]_vars
<1> SUFFICES ASSUME visitor \in [Users -> Visitors], ScreensNext PROVE Next \/ UNCHANGED vars
  OBVIOUS
<1>1. ASSUME NEW d \in Phones, AtTheDoor(d) PROVE Next \/ UNCHANGED vars
  <2>1. \/ UNCHANGED vars
        \/ \E w \in Workers, p \in Passes : ScanTicket(w, p)
    BY <1>1 DEF AtTheDoor, Glimpse, ScanDenied, Scan, LookUp, Found, PassesOf, Cool, Forget
  <2> QED BY <2>1 DEF Next, Arrive
<1>2. ASSUME NEW h \in Hosts, OnTheCard(h) PROVE Next \/ UNCHANGED vars
  <2>1. \/ UNCHANGED vars
        \/ \E w \in Workers : EnsureStart(w, h)
        \/ RevokeLink(h)
    BY <1>2 DEF OnTheCard, Visit, FetchRead, FetchArrives, FetchFails, Create, ClickRevoke, Revoke, RevokeHeard
  <2> QED BY <2>1 DEF Next, Arrive
<1>3. ASSUME NEW u \in Users, OnTheClaimPage(u) PROVE Next \/ UNCHANGED vars
  <2>1. CASE \E w \in Workers : Claim(u, w)
    <3>1. PICK w \in Workers : Claim(u, w)
      BY <2>1
    <3>2. ClaimParse(w, u, visitor[u].from) /\ visitor[u].from # Nobody
      BY <3>1 DEF Claim, Signed
    <3>3. visitor[u].from \in Hosts
      BY <3>2 DEF Visitors
    <3> QED BY <3>2, <3>3 DEF Next, Arrive
  <2> QED BY <1>3, <2>1 DEF OnTheClaimPage, Open, Preview
<1>4. ASSUME NEW w \in Workers, InTheApi(w) PROVE Next \/ UNCHANGED vars
  <2>1. Proceed(w) \/ UNCHANGED vars
    BY <1>4 DEF InTheApi, CreateGoesOn, ClaimGoesOn, ScanGoesOn, Dies, Hear, Lose, Proceed
  <2> QED BY <2>1 DEF Next
<1>5. CASE Elsewhere
  BY <1>5 DEF Elsewhere, Next
<1> QED BY <1>1, <1>2, <1>3, <1>4, <1>5 DEF ScreensNext

\* A +1 that has a holder keeps it.
LEMMA HolderStays ==
    ASSUME Inv, [Next]_vars, NEW h \in Hosts, plus[h].by # Nobody
    PROVE  plus'[h].by = plus[h].by
<1>1. CASE plus' = plus
  BY <1>1
<1>2. ASSUME NEW w \in Workers, ClaimCommit(w) PROVE plus'[h].by = plus[h].by
  <2>1. CASE plus' = plus
    BY <2>1
  <2>2. CASE plus' # plus
    BY <1>2, <2>2 DEF ClaimCommit, Inv, TypeOK
  <2> QED BY <2>1, <2>2
<1>3. ASSUME NEW g \in Hosts, Remove(g) PROVE plus'[h].by = plus[h].by
  <2>1. plus' = [plus EXCEPT ![g].revoked = plus[g].by # Nobody]
    BY <1>3 DEF Remove
  <2>2. plus[h] \in PlusOneTickets /\ plus \in [Hosts -> PlusOneTickets]
    BY DEF Inv, TypeOK
  <2>3. plus'[h] = plus[h] \/ plus'[h] = [plus[h] EXCEPT !.revoked = plus[g].by # Nobody]
    BY <2>1, <2>2
  <2> QED BY <2>2, <2>3 DEF PlusOneTickets
<1>4. \/ plus' = plus
      \/ \E w \in Workers : ClaimCommit(w)
      \/ \E g \in Hosts : Remove(g)
  BY DEF Next, vars, Arrive, Proceed, EnsureStart, ClaimParse, ScanTicket, EnsureRead, EnsureInsert,
         EnsureRotate, ClaimRead, ScanParent, ScanSeen, ScanEnter, Abort, RevokeLink, SetStatus
<1> QED BY <1>1, <1>2, <1>3, <1>4

\* Calls and pages that a step leaves alone still fit, and so does the page of a
\* friend who is told nothing new.
LEMMA OthersFit ==
    ASSUME Inv, Pages, [Next]_vars,
           \A u \in Users : visitor'[u].from = visitor[u].from
    PROVE  /\ \A v \in Workers : call'[v] = call[v] /\ req'[v] = req[v] => CallFits(v)'
           /\ \A u \in Users : visitor'[u].won = visitor[u].won => WinnerFits(u)'
<1> USE TransfersAssumption
<1>1. ASSUME NEW v \in Workers, call'[v] = call[v], req'[v] = req[v] PROVE CallFits(v)'
  <2>1. CallFits(v)
    BY DEF Pages
  <2>2. CASE call[v].of = "visitor"
    <3> DEFINE u == call[v].by
               h == visitor[u].from
    <3>1. u \in Users /\ h \in Hosts /\ u # Nobody /\ call'[v].by = u /\ visitor'[u].from = h
      BY <1>1, <2>1, <2>2 DEF CallFits
    <3>2. plus[h].by = u => plus'[h].by = u
      BY <3>1, HolderStays
    <3> QED BY <1>1, <2>1, <2>2, <3>1, <3>2 DEF CallFits, At
  <2>3. CASE call[v].of # "visitor"
    BY <1>1, <2>3 DEF CallFits
  <2> QED BY <2>2, <2>3
<1>2. ASSUME NEW u \in Users, visitor'[u].won = visitor[u].won PROVE WinnerFits(u)'
  <2>1. CASE visitor[u].won
    <3>1. visitor[u].from \in Hosts /\ plus[visitor[u].from].by = u /\ u # Nobody
      BY <2>1 DEF Pages, WinnerFits
    <3> QED BY <3>1, HolderStays DEF WinnerFits
  <2>2. CASE ~ visitor[u].won
    BY <1>2, <2>2 DEF WinnerFits
  <2> QED BY <2>1, <2>2
<1> QED BY <1>1, <1>2

\* A step of one request, whoever waits for it.
LEMMA CallStep ==
    ASSUME Inv, Pages, [Next]_vars, NEW w \in Workers, NEW c \in Calls,
           call' = [call EXCEPT ![w] = c], \A v \in Workers : v # w => req'[v] = req[v],
           visitor' = visitor, CallFits(w)'
    PROVE  Pages'
<1>1. call' \in [Workers -> Calls] /\ \A v \in Workers : v # w => call'[v] = call[v]
  BY DEF Pages
<1> QED BY <1>1, OthersFit DEF Pages

\* A request that becomes something else moves no other.
LEMMA OneRequest ==
    ASSUME Inv, NEW w \in Workers, NEW r, Become(w, r)
    PROVE  req'[w] = r /\ \A v \in Workers : v # w => req'[v] = req[v]
BY DEF Inv, TypeOK, Become

LEMMA NewCall ==
    /\ NoCall \in Calls /\ NoCall.of = "phone"
    /\ \A s \in {"phone", "card", "visitor"}, x \in Phones \cup Users :
         LET c == [of |-> s, by |-> x, ok |-> FALSE] IN c \in Calls /\ c.of = s /\ c.by = x /\ ~ c.ok
BY DEF NoCall, Calls

-----------------------------------------------------------------------------
LEMMA PagesInit == ScreensInit => Inv /\ Pages
<1> SUFFICES ASSUME ScreensInit PROVE Pages
  BY InitHolds DEF ScreensInit
<1>1. Nowhere \in Visitors /\ ~ Nowhere.won
  BY TransfersAssumption DEF Nowhere, Visitors
<1> QED BY <1>1, NewCall DEF ScreensInit, Pages, CallFits, WinnerFits

\* A request that begins for a phone or a card.
LEMMA AskStep ==
    ASSUME Inv, Pages, [Next]_vars, visitor' = visitor,
           NEW w \in Workers, NEW s \in {"phone", "card"}, NEW x \in Phones \cup Users,
           Ask(w, s, x), NEW r, Become(w, r)
    PROVE  Pages'
<1> DEFINE c == [of |-> s, by |-> x, ok |-> FALSE]
<1>1. c \in Calls /\ c.of # "visitor"
  BY NewCall
<1>2. call' = [call EXCEPT ![w] = c]
  BY DEF Ask
<1> HIDE DEF c
<1>3. CallFits(w)'
  BY <1>1, <1>2 DEF CallFits, Pages
<1> QED BY <1>1, <1>2, <1>3, OneRequest, CallStep

\* A friend opens another link: what was asked for the earlier page concerns no page.
LEMMA OpenStep ==
    ASSUME Inv, Pages, NEW h \in Hosts, NEW u \in Users, Open(h, u),
           card[h].shown.rotation \in 0 .. MaxRotation
    PROVE  Pages'
<1> USE TransfersAssumption
<1> DEFINE n == [Nowhere EXCEPT !.from = h, !.rotation = card[h].shown.rotation]
<1>1. n \in Visitors /\ ~ n.won
  BY DEF Nowhere, Visitors
<1>2. visitor' = [visitor EXCEPT ![u] = n]
  BY DEF Open
<1> HIDE DEF n
<1>3. /\ visitor' \in [Users -> Visitors] /\ ~ visitor'[u].won
      /\ \A v \in Users : v # u => visitor'[v] = visitor[v]
  BY <1>1, <1>2 DEF Pages
<1>4. call' = [w \in Workers |-> IF w \in Asking("visitor", u) THEN NoCall ELSE call[w]]
      /\ UNCHANGED <<plus, req>>
  BY DEF Open, vars
<1>5. call' \in [Workers -> Calls]
  BY <1>4, NewCall DEF Pages
<1>6. ASSUME NEW w \in Workers PROVE CallFits(w)'
  <2>1. CASE w \in Asking("visitor", u)
    BY <1>4, <2>1, NewCall DEF CallFits
  <2>2. CASE w \notin Asking("visitor", u)
    <3>1. call'[w] = call[w] /\ CallFits(w) /\ (call[w].of = "visitor" => call[w].by # u)
      BY <1>4, <2>2 DEF Asking, Pages
    <3> QED BY <1>3, <1>4, <3>1 DEF CallFits, At
  <2> QED BY <2>1, <2>2
<1>7. ASSUME NEW v \in Users PROVE WinnerFits(v)'
  <2>1. CASE v = u
    BY <1>3, <2>1 DEF WinnerFits
  <2>2. CASE v # u
    BY <1>3, <1>4, <2>2 DEF WinnerFits, Pages
  <2> QED BY <2>1, <2>2
<1> QED BY <1>3, <1>5, <1>6, <1>7 DEF Pages

\* A friend is offered the +1, or asks for it.
LEMMA PageStep ==
    ASSUME Inv, Pages, [Next]_vars, NEW u \in Users, NEW n \in Visitors,
           visitor' = [visitor EXCEPT ![u] = n], n.from = visitor[u].from, n.won = visitor[u].won,
           call' \in [Workers -> Calls],
           \A w \in Workers : (call'[w] = call[w] /\ req'[w] = req[w]) \/ CallFits(w)'
    PROVE  Pages'
<1>1. /\ visitor' \in [Users -> Visitors]
      /\ \A v \in Users : visitor'[v].from = visitor[v].from /\ visitor'[v].won = visitor[v].won
  BY DEF Pages
<1> QED BY <1>1, OthersFit DEF Pages

LEMMA ClaimStep ==
    ASSUME Inv, Pages, [Next]_vars, NEW u \in Users, NEW w \in Workers, Claim(u, w)
    PROVE  Pages'
<1> USE TransfersAssumption
<1> DEFINE n == [visitor[u] EXCEPT !.claiming = TRUE]
           c == [of |-> "visitor", by |-> u, ok |-> FALSE]
           h == visitor[u].from
<1>1. n \in Visitors /\ n.from = h /\ n.won = visitor[u].won /\ h \in Hosts
  BY DEF Pages, Visitors, Claim, Signed
<1>2. visitor' = [visitor EXCEPT ![u] = n] /\ call' = [call EXCEPT ![w] = c]
  BY DEF Claim, Ask, Pages
<1>3. c \in Calls /\ c.of = "visitor" /\ c.by = u /\ ~ c.ok
  BY NewCall
<1>4. PICK b \in BOOLEAN : Become(w, [Idle EXCEPT !.pc = "claim", !.user = u, !.host = h, !.late = b])
  <2>1. (h \in removed) \in BOOLEAN
    OBVIOUS
  <2> QED BY <2>1 DEF Claim, ClaimParse
<1> DEFINE r == [Idle EXCEPT !.pc = "claim", !.user = u, !.host = h, !.late = b]
<1>5. r.pc = "claim" /\ r.user = u /\ r.host = h
  BY DEF Idle
<1> HIDE DEF n, c, r
<1>6. req'[w] = r /\ \A v \in Workers : v # w => req'[v] = req[v]
  BY <1>4, OneRequest DEF r
<1>7. /\ visitor'[u].from = h /\ call'[w] = c /\ call' \in [Workers -> Calls]
      /\ \A v \in Workers : v # w => call'[v] = call[v]
  BY <1>1, <1>2, <1>3 DEF Pages
<1>8. CallFits(w)'
  BY <1>1, <1>3, <1>5, <1>6, <1>7 DEF CallFits, At, Claiming
<1> QED BY <1>1, <1>2, <1>6, <1>7, <1>8, PageStep

\* A request goes on, and is not the claim of a page or stays so.
LEMMA GoesOnStep ==
    ASSUME Inv, Pages, [Next]_vars, NEW w \in Workers, NEW r, Become(w, r), UNCHANGED <<call, visitor>>,
           call[w].of = "visitor" =>
             r.pc \in Claiming /\ r.user = req[w].user /\ r.host = req[w].host /\ ~ At(w, "idle")
    PROVE  Pages'
<1>1. req'[w] = r /\ \A v \in Workers : v # w => req'[v] = req[v]
  BY OneRequest
<1>2. CallFits(w)'
  BY <1>1 DEF CallFits, Pages, At, Claiming
<1>3. \A v \in Workers : CallFits(v)'
  BY <1>1, <1>2, OthersFit
<1> QED BY <1>3, OthersFit DEF Pages

\* A request ends: with success only if its claim has been granted.
LEMMA EndsStep ==
    ASSUME Inv, Pages, [Next]_vars, NEW w \in Workers, Finish(w), NEW ok \in BOOLEAN, Ends(w, ok),
           visitor' = visitor,
           call[w].of = "visitor" /\ ok => plus'[visitor[call[w].by].from].by = call[w].by
    PROVE  Pages'
<1> DEFINE c == IF call[w].by = Nobody THEN NoCall ELSE [call[w] EXCEPT !.ok = ok]
<1>1. call[w] \in Calls
  BY DEF Pages
<1>2. /\ c \in Calls
      /\ c.of = "visitor" => c.of = call[w].of /\ c.by = call[w].by /\ c.ok = ok
  BY <1>1, NewCall DEF Calls
<1>3. call' = [call EXCEPT ![w] = c]
  BY DEF Ends, Pages
<1> HIDE DEF c
<1>4. req'[w] = Idle /\ \A v \in Workers : v # w => req'[v] = req[v]
  BY OneRequest DEF Finish
<1>5. CallFits(w)'
  BY <1>2, <1>3, <1>4 DEF CallFits, Pages, At, Idle
<1> QED BY <1>2, <1>3, <1>4, <1>5, CallStep

\* The page is told how its claim ended.
LEMMA ToldStep ==
    ASSUME Inv, Pages, [Next]_vars, NEW w \in Workers, NEW ok \in BOOLEAN, Told(w, ok), req' = req,
           call' = [call EXCEPT ![w] = NoCall],
           ok => At(w, "idle") /\ call[w].ok
    PROVE  Pages'
<1>1. /\ call'[w] = NoCall /\ call' \in [Workers -> Calls]
      /\ \A v \in Workers : v # w => call'[v] = call[v]
  BY NewCall DEF Pages
<1>2. CallFits(w)'
  BY <1>1, NewCall DEF CallFits
<1>3. CASE visitor' = visitor
  BY <1>1, <1>2, <1>3, OthersFit DEF Pages
<1>4. CASE visitor' # visitor
  <2>0. PICK u : u = call[w].by
    OBVIOUS
  <2> DEFINE n == [visitor[u] EXCEPT !.claiming = FALSE, !.won = ok]
  <2>1. call[w].of = "visitor" /\ visitor' = [visitor EXCEPT ![u].claiming = FALSE, ![u].won = ok]
    BY <1>4, <2>0 DEF Told, Pages, Calls
  <2>2. u \in Users /\ visitor[u].from \in Hosts
    BY <2>0, <2>1 DEF Pages, CallFits
  <2>3. visitor' = [visitor EXCEPT ![u] = n]
    BY <2>1, <2>2 DEF Pages
  <2>4. n \in Visitors /\ n.from = visitor[u].from /\ n.won = ok
    BY <2>2 DEF Pages, Visitors
  <2> HIDE DEF n
  <2>5. /\ visitor' \in [Users -> Visitors]
        /\ visitor'[u].won = ok
        /\ \A v \in Users : visitor'[v].from = visitor[v].from
        /\ \A v \in Users : v # u => visitor'[v].won = visitor[v].won
    BY <2>2, <2>3, <2>4 DEF Pages
  <2>6. WinnerFits(u)'
    <3>1. ok => plus[visitor[u].from].by = u /\ u # Nobody
      BY <2>0, <2>1, <2>2, TransfersAssumption DEF Pages, CallFits
    <3>2. ok => plus'[visitor[u].from].by = u
      BY <2>2, <3>1, HolderStays
    <3>3. visitor'[u].won => ok
      BY <2>5
    <3>4. visitor'[u].from = visitor[u].from
      BY <2>2, <2>5
    <3> QED BY <2>2, <3>2, <3>3, <3>4 DEF WinnerFits
  <2>7. \A v \in Users : WinnerFits(v)'
    BY <2>5, <2>6, OthersFit
  <2>8. \A v \in Workers : CallFits(v)'
    BY <1>1, <1>2, <2>5, OthersFit
  <2> QED BY <1>1, <2>5, <2>7, <2>8 DEF Pages
<1> QED BY <1>3, <1>4

\* The steps of the API, and what their answers say.
LEMMA ApiStep ==
    ASSUME Inv, Pages, [Next]_vars, NEW w \in Workers, InTheApi(w)
    PROVE  Pages'
<1> USE TransfersAssumption
<1>1. CallFits(w) /\ req[w] \in Requests /\ call[w] \in Calls /\ Idle.pc = "idle"
  BY DEF Pages, Inv, TypeOK, Idle
<1>2. ASSUME req[w].pc \in Making \cup Scanning, NEW r, Become(w, r), visitor' = visitor,
             NEW ok \in BOOLEAN, GoesOn \/ (r = Idle /\ Ends(w, ok))
      PROVE  Pages'
  <2>1. call[w].of # "visitor"
    BY <1>1, <1>2 DEF CallFits, At, Making, Scanning, Claiming
  <2> QED BY <1>2, <2>1, GoesOnStep, EndsStep DEF GoesOn, Finish
<1>3. CASE CreateGoesOn(w)
  <2>1. PICK ok \in BOOLEAN :
          \/ EnsureRead(w) /\ (IF req'[w] = Idle THEN Ends(w, ok) ELSE GoesOn)
          \/ (EnsureInsert(w) \/ EnsureRotate(w)) /\ Ends(w, ok)
    <3>1. /\ (link[req[w].host].status = "active") \in BOOLEAN
          /\ (link[req[w].host].status = "none") \in BOOLEAN
      OBVIOUS
    <3> QED BY <1>3, <3>1 DEF CreateGoesOn
  <2>2. req[w].pc \in Making /\ visitor' = visitor
    BY <1>3 DEF CreateGoesOn, Quiet, EnsureRead, EnsureInsert, EnsureRotate, At, Making
  <2>3. CASE EnsureRead(w)
    <3>1. PICK r : Become(w, r)
      BY <2>3 DEF EnsureRead, Finish
    <3>2. req'[w] = r
      BY <3>1, OneRequest
    <3>3. IF r = Idle THEN Ends(w, ok) ELSE GoesOn
      BY <2>1, <2>3, <3>2 DEF EnsureRead, EnsureInsert, EnsureRotate, At
    <3> QED BY <1>2, <2>2, <3>1, <3>3
  <2>4. CASE (EnsureInsert(w) \/ EnsureRotate(w)) /\ Ends(w, ok)
    <3>1. Become(w, Idle)
      BY <2>4 DEF EnsureInsert, EnsureRotate, Finish
    <3> QED BY <1>2, <2>2, <2>4, <3>1
  <2> QED BY <2>1, <2>3, <2>4
<1>4. CASE ClaimGoesOn(w)
  <2>1. visitor' = visitor
    BY <1>4 DEF ClaimGoesOn, Quiet
  <2>2. CASE ClaimRead(w) /\ Finish(w)
    <3>1. req'[w] = Idle
      BY <2>2, OneRequest DEF Finish
    <3>2. Ends(w, FALSE)
      BY <1>4, <2>2, <3>1 DEF ClaimGoesOn, ClaimRead, ClaimCommit, At
    <3> QED BY <2>1, <2>2, <3>2, EndsStep
  <2>3. CASE ClaimRead(w) /\ Become(w, [req[w] EXCEPT !.pc = "claiming"])
    <3> DEFINE r == [req[w] EXCEPT !.pc = "claiming"]
    <3>1. r.pc = "claiming" /\ r.user = req[w].user /\ r.host = req[w].host
      BY <1>1 DEF Requests
    <3> HIDE DEF r
    <3>2. req'[w] = r
      BY <2>3, OneRequest DEF r
    <3>3. GoesOn /\ req[w].pc = "claim"
      BY <1>1, <1>4, <2>3, <3>1, <3>2 DEF ClaimGoesOn, ClaimRead, ClaimCommit, At
    <3>4. Become(w, r)
      BY <2>3 DEF r
    <3> QED BY <2>1, <3>1, <3>3, <3>4, GoesOnStep DEF GoesOn, Claiming, At
  <2>4. CASE ClaimCommit(w) /\ Ends(w, ~ Taken(req[w].host))
    <3> DEFINE ok == plus[req[w].host].by = Nobody
    <3>1. ok \in BOOLEAN /\ Finish(w) /\ req[w].pc = "claiming" /\ RequestFits(w)
      BY <2>4 DEF ClaimCommit, At, Inv
    <3>2. req[w].host \in Hosts
      BY <3>1 DEF RequestFits
    <3>3. ok => plus'[req[w].host].by = req[w].user
      BY <2>4, <3>2 DEF ClaimCommit, Inv, TypeOK
    <3>4. call[w].of = "visitor" => call[w].by = req[w].user /\ visitor[call[w].by].from = req[w].host
      BY <1>1, <3>1 DEF CallFits, At
    <3>5. Ends(w, ok)
      BY <2>4 DEF Taken, Ends
    <3>6. call[w].of = "visitor" /\ ok => plus'[visitor[call[w].by].from].by = call[w].by
      BY <3>3, <3>4
    <3> HIDE DEF ok
    <3> QED BY <2>1, <3>1, <3>5, <3>6, EndsStep
  <2> QED BY <1>4, <2>2, <2>3, <2>4 DEF ClaimGoesOn, ClaimRead
<1>5. CASE ScanGoesOn(w)
  <2>1. req[w].pc \in Scanning /\ visitor' = visitor
    BY <1>5 DEF ScanGoesOn, Quiet, ScanParent, ScanSeen, ScanEnter, At, Scanning
  <2>2. PICK r : Become(w, r)
    BY <1>5 DEF ScanGoesOn, ScanParent, ScanSeen, ScanEnter, Finish
  <2>3. req'[w] = r
    BY <2>2, OneRequest
  <2>4. IF r = Idle THEN Ends(w, TRUE) ELSE GoesOn
    BY <1>5, <2>3 DEF ScanGoesOn
  <2> QED BY <1>2, <2>1, <2>2, <2>4
<1>6. CASE Dies(w)
  BY <1>6, EndsStep DEF Dies, Abort, Quiet
<1>7. CASE Hear(w)
  <2>1. call[w].ok \in BOOLEAN
    BY <1>1 DEF Calls
  <2> QED BY <1>7, <2>1, ToldStep DEF Hear, vars
<1>8. CASE Lose(w)
  BY <1>8, ToldStep DEF Lose, vars
<1> QED BY <1>3, <1>4, <1>5, <1>6, <1>7, <1>8 DEF InTheApi

\* A card keeps its type, and its clicks stay within their bound.
CardFits(c) == c \in Cards /\ c.revokes + c.done <= MaxRevokes
CardsFit == card \in [Hosts -> Cards] /\ \A h \in Hosts : CardFits(card[h])

LEMMA CardStep ==
    ASSUME CardsFit, NEW h, NEW c, card' = [card EXCEPT ![h] = c], h \in Hosts => CardFits(c)
    PROVE  CardsFit'
BY DEF CardsFit, CardFits

LEMMA CardsKept ==
    ASSUME Inv, Pages, CardsFit, [ScreensNext]_<<vars, screens>> PROVE CardsFit'
<1> USE TransfersAssumption, ScreensAssumption
<1>1. Gone \in Views /\ \A h \in Hosts : View(h) \in Views
  BY DEF Gone, View, Views, LinkStatuses, Links, Inv, TypeOK
<1>2. CASE card' = card
  BY <1>2 DEF CardsFit
<1>3. ASSUME NEW h \in Hosts, OnTheCard(h) PROVE CardsFit'
  <2>1. CardFits(card[h]) /\ card[h] \in Cards
    BY DEF CardsFit
  <2>2. CASE Visit(h)
    <3> DEFINE c == [card[h] EXCEPT !.fetch = IF @ = "none" THEN "sent" ELSE @, !.creating = FALSE,
                                    !.doubt = @ \/ card[h].creating]
    <3>1. CardFits(c)
      BY <2>1 DEF CardFits, Cards
    <3>2. card' = [card EXCEPT ![h] = c]
      BY <2>2 DEF Visit, CardsFit
    <3> HIDE DEF c
    <3> QED BY <3>1, <3>2, CardStep
  <2>3. CASE FetchRead(h)
    <3> DEFINE c == [card[h] EXCEPT !.fetch = "answered", !.answer = View(h)]
    <3>1. CardFits(c)
      BY <1>1, <2>1 DEF CardFits, Cards
    <3>2. card' = [card EXCEPT ![h] = c]
      BY <2>3 DEF FetchRead, CardsFit
    <3> HIDE DEF c
    <3> QED BY <3>1, <3>2, CardStep
  <2>4. CASE FetchArrives(h)
    <3> DEFINE v == card[h].answer
               d == IF v.status = "revoked" THEN card[h].disowned \cup {v.rotation} ELSE card[h].disowned
               c == [card[h] EXCEPT !.fetch = "none", !.answer = Gone, !.shown = v, !.disowned = d]
    <3>1. v \in Views /\ v.rotation \in 0 .. MaxRotation /\ card[h].disowned \in SUBSET (0 .. MaxRotation)
      BY <2>1 DEF Cards, Views
    <3>2. d \in SUBSET (0 .. MaxRotation)
      BY <3>1
    <3>3. card' = [card EXCEPT ![h] = c]
      BY <2>4 DEF FetchArrives, CardsFit
    <3> HIDE DEF d, v
    <3>4. CardFits(c)
      BY <1>1, <2>1, <3>1, <3>2 DEF CardFits, Cards
    <3> HIDE DEF c
    <3> QED BY <3>3, <3>4, CardStep
  <2>5. CASE FetchFails(h)
    <3> DEFINE c == [card[h] EXCEPT !.fetch = "none", !.answer = Gone]
    <3>1. CardFits(c)
      BY <1>1, <2>1 DEF CardFits, Cards
    <3>2. card' = [card EXCEPT ![h] = c]
      BY <2>5 DEF FetchFails, CardsFit
    <3> HIDE DEF c
    <3> QED BY <3>1, <3>2, CardStep
  <2>6. ASSUME NEW w \in Workers, Create(h, w) PROVE CardsFit'
    <3> DEFINE c == [card[h] EXCEPT !.creating = TRUE]
    <3>1. CardFits(c)
      BY <2>1 DEF CardFits, Cards
    <3>2. card' = [card EXCEPT ![h] = c]
      BY <2>6 DEF Create, CardsFit
    <3> HIDE DEF c
    <3> QED BY <3>1, <3>2, CardStep
  <2>7. CASE ClickRevoke(h)
    <3> DEFINE n == card[h].revokes + 1
               c == [card[h] EXCEPT !.revokes = n]
    <3>0. n \in 0 .. MaxRevokes /\ n + card[h].done <= MaxRevokes
      BY <2>1, <2>7 DEF Cards, ClickRevoke
    <3> HIDE DEF n
    <3>1. CardFits(c)
      BY <2>1, <3>0 DEF CardFits, Cards
    <3>2. card' = [card EXCEPT ![h] = c]
      BY <2>7 DEF ClickRevoke, CardsFit, n
    <3> HIDE DEF c
    <3> QED BY <3>1, <3>2, CardStep
  <2>8. CASE Revoke(h)
    <3> DEFINE n == card[h].revokes - 1
               m == card[h].done + 1
               c == [card[h] EXCEPT !.revokes = n, !.done = m]
    <3>0. n \in 0 .. MaxRevokes /\ m \in 0 .. MaxRevokes /\ n + m <= MaxRevokes
      BY <2>1, <2>8 DEF CardFits, Cards, Revoke
    <3>2. card' = [card EXCEPT ![h] = c]
      BY <2>1, <2>8 DEF Revoke, CardsFit, Cards
    <3> HIDE DEF n, m
    <3>1. CardFits(c)
      BY <2>1, <3>0 DEF CardFits, Cards
    <3> HIDE DEF c
    <3> QED BY <3>1, <3>2, CardStep
  <2>9. CASE RevokeHeard(h)
    <3> DEFINE m == card[h].done - 1
               c == [card[h] EXCEPT !.done = m, !.fetch = "sent", !.answer = Gone]
    <3>0. m \in 0 .. MaxRevokes /\ card[h].revokes + m <= MaxRevokes
      BY <2>1, <2>9 DEF CardFits, Cards, RevokeHeard
    <3>2. card' = [card EXCEPT ![h] = c]
      BY <2>1, <2>9 DEF RevokeHeard, Invalidated, CardsFit
    <3> HIDE DEF m
    <3>1. CardFits(c)
      BY <1>1, <2>1, <3>0 DEF CardFits, Cards
    <3> HIDE DEF c
    <3> QED BY <3>1, <3>2, CardStep
  <2> QED BY <1>3, <2>2, <2>3, <2>4, <2>5, <2>6, <2>7, <2>8, <2>9 DEF OnTheCard
<1>4. ASSUME NEW w \in Workers, NEW ok \in BOOLEAN, Told(w, ok), call[w].of = "card" PROVE CardsFit'
  <2> DEFINE h == call[w].by
             c == Answered(card[h], ok, ~ At(w, "idle"))
  <2>1. card' = [card EXCEPT ![h] = c]
    BY <1>4 DEF Told
  <2>2. ASSUME h \in Hosts PROVE CardFits(c)
    <3>1. CardFits(card[h])
      BY <2>2 DEF CardsFit
    <3>2. ASSUME NEW early \in BOOLEAN PROVE CardFits(Answered(card[h], ok, early))
      BY <1>1, <3>1 DEF CardFits, Cards, Answered, Invalidated
    <3>3. (~ At(w, "idle")) \in BOOLEAN
      OBVIOUS
    <3> QED BY <3>2, <3>3
  <2> HIDE DEF c, h
  <2> QED BY <2>1, <2>2, CardStep
<1>5. ASSUME NEW w \in Workers, InTheApi(w) PROVE CardsFit'
  <2>1. CASE card' = card
    BY <1>2, <2>1
  <2>2. ASSUME NEW ok \in BOOLEAN, Told(w, ok) PROVE CardsFit'
    <3>1. call[w].of = "card" \/ card' = card
      BY <2>2 DEF Told, Pages, Calls
    <3> QED BY <1>2, <1>4, <2>2, <3>1
  <2>3. CASE Hear(w)
    <3>1. call[w].ok \in BOOLEAN /\ Told(w, call[w].ok)
      BY <2>3 DEF Hear, Pages, Calls
    <3> QED BY <2>2, <3>1
  <2> QED BY <1>5, <2>1, <2>2, <2>3 DEF InTheApi, CreateGoesOn, ClaimGoesOn, ScanGoesOn, Dies, Lose, Quiet
<1>6. ASSUME NEW d \in Phones, AtTheDoor(d) PROVE CardsFit'
  BY <1>2, <1>6 DEF AtTheDoor, Scan, Glimpse, ScanDenied, LookUp, Cool, Forget
<1>7. ASSUME NEW u \in Users, OnTheClaimPage(u) PROVE CardsFit'
  BY <1>2, <1>7 DEF OnTheClaimPage, Open, Preview, Claim
<1>8. CASE Elsewhere \/ UNCHANGED <<vars, screens>>
  BY <1>2, <1>8 DEF Elsewhere, screens
<1> QED BY <1>3, <1>5, <1>6, <1>7, <1>8 DEF ScreensNext

\* Every step keeps what the pages show true.
LEMMA PagesKept ==
    ASSUME Inv, Pages, CardsFit, [ScreensNext]_<<vars, screens>> PROVE Inv' /\ Pages'
<1>1. [Next]_vars
  BY StepsOfTransfers DEF Pages
<1>2. Inv'
  BY <1>1, StepKeeps
<1>3. ASSUME UNCHANGED <<call, visitor, req>> PROVE Pages'
  <2>1. (\A w \in Workers : CallFits(w)') /\ \A u \in Users : WinnerFits(u)'
    BY <1>1, <1>3, OthersFit
  <2> QED BY <1>3, <2>1 DEF Pages
<1>4. ASSUME NEW d \in Phones, AtTheDoor(d) PROVE Pages'
  <2>1. CASE UNCHANGED <<call, visitor, req>>
    BY <1>3, <2>1
  <2>2. ASSUME NEW w \in Workers, NEW p, ScanTicket(w, p), Ask(w, "phone", d), visitor' = visitor
        PROVE  Pages'
    <3>1. PICK r : Become(w, r)
      BY <2>2 DEF ScanTicket
    <3> QED BY <1>1, <2>2, <3>1, AskStep
  <2> QED BY <1>4, <2>1, <2>2 DEF AtTheDoor, Glimpse, ScanDenied, Scan, LookUp, Cool, Forget, vars
<1>5. ASSUME NEW h \in Hosts, OnTheCard(h) PROVE Pages'
  <2>1. CASE UNCHANGED <<call, visitor, req>>
    BY <1>3, <2>1
  <2>2. ASSUME NEW w \in Workers, Create(h, w) PROVE Pages'
    <3>1. PICK r : Become(w, r)
      BY <2>2 DEF Create, EnsureStart
    <3>2. h \in Phones \cup Users
      BY TransfersAssumption
    <3> QED BY <1>1, <2>2, <3>1, <3>2, AskStep DEF Create
  <2> QED BY <1>5, <2>1, <2>2 DEF OnTheCard, Visit, FetchRead, FetchArrives, FetchFails, ClickRevoke,
                                  Revoke, RevokeLink, RevokeHeard, vars
<1>6. ASSUME NEW u \in Users, OnTheClaimPage(u) PROVE Pages'
  <2>1. ASSUME NEW h \in Hosts, Open(h, u) PROVE Pages'
    <3>1. card[h].shown.rotation \in 0 .. MaxRotation
      BY DEF CardsFit, Cards, Views
    <3> QED BY <2>1, <3>1, OpenStep
  <2>2. CASE Preview(u)
    <3> DEFINE n == [visitor[u] EXCEPT !.offered = TRUE]
    <3>1. n \in Visitors /\ n.from = visitor[u].from /\ n.won = visitor[u].won
      BY DEF Pages, Visitors
    <3>2. visitor' = [visitor EXCEPT ![u] = n] /\ call' = call /\ req' = req
      BY <2>2 DEF Preview, Pages, vars
    <3> HIDE DEF n
    <3> QED BY <1>1, <3>1, <3>2, PageStep DEF Pages
  <2>3. ASSUME NEW w \in Workers, Claim(u, w) PROVE Pages'
    BY <1>1, <2>3, ClaimStep
  <2> QED BY <1>6, <2>1, <2>2, <2>3 DEF OnTheClaimPage
<1>7. ASSUME NEW w \in Workers, InTheApi(w) PROVE Pages'
  BY <1>1, <1>7, ApiStep
<1>8. ASSUME Elsewhere \/ UNCHANGED <<vars, screens>> PROVE Pages'
  BY <1>3, <1>8 DEF Elsewhere, SetStatus, Remove, vars, screens
<1> QED BY <1>2, <1>4, <1>5, <1>6, <1>7, <1>8 DEF ScreensNext

LEMMA CardsInit == ScreensInit => CardsFit
<1>1. Gone \in Views
  BY TransfersAssumption DEF Gone, Views, LinkStatuses
<1> QED BY <1>1, ScreensAssumption DEF ScreensInit, CardsFit, CardFits, Cards

LEMMA PagesHold == ScreensSpec => [](Inv /\ Pages /\ CardsFit)
BY PagesInit, CardsInit, PagesKept, CardsKept, PTL DEF ScreensSpec

-----------------------------------------------------------------------------
\* Whatever the screens do, the API behind them behaves as Transfers says.
THEOREM ScreensImplementTransfers == ScreensSpec => Spec
<1>1. ScreensInit => Init
  BY DEF ScreensInit
<1>2. Pages /\ [ScreensNext]_<<vars, screens>> => [Next]_vars
  BY StepsOfTransfers DEF Pages, vars, screens
<1> QED BY <1>1, <1>2, PagesHold, PTL DEF ScreensSpec, Spec

\* Behind the screens too, a link that says claimed has a pass behind it.
THEOREM ScreensClaimsHavePasses == ScreensSpec => []ClaimedHasPass
BY ScreensImplementTransfers, ClaimsHavePasses

\* Behind the screens too, nobody is let in or given a +1 too late.
THEOREM ScreensDoorHolds == ScreensSpec => []LatecomersTurnedAway
BY ScreensImplementTransfers, DoorHolds

\* Behind the screens too, the promise of the +1 is kept: with its screens, the
\* detailed model implements PlusOnes.
THEOREM ScreensPromise == ScreensSpec => PromiseKept
BY ScreensImplementTransfers, PromiseImplemented

\* Whoever was told "It's yours" has the pass, then and later.
THEOREM WinnersHold == ScreensSpec => []WinnersHavePasses
<1>1. Pages => WinnersHavePasses
  BY DEF Pages, WinnerFits, WinnersHavePasses
<1> QED BY <1>1, PagesHold, PTL

-----------------------------------------------------------------------------
(***************************************************************************)
(* A revoked link stays dead.  While the page has not given up waiting for *)
(* a new link, it alone makes one, one at a time, and every link that was  *)
(* seen revoked has a lower rotation than the one that works.              *)
(***************************************************************************)
Behind(h, k) ==
    /\ link[h].status # "none" /\ k <= link[h].rotation
    /\ link[h].status = "active" => k < link[h].rotation

OwnCall(w, h) == call[w].of = "card" /\ call[w].by = h
Makes(w, h) == req[w].pc \in Making /\ req[w].host = h

LinkFits(h) ==
    ~ card[h].doubt =>
      /\ \A w \in Workers : OwnCall(w, h) => card[h].creating
      /\ \A v, w \in Workers : OwnCall(v, h) /\ OwnCall(w, h) => v = w
      /\ \A w \in Workers : Makes(w, h) => OwnCall(w, h)
      /\ \A w \in Workers : Makes(w, h) /\ At(w, "rotate") =>
           link[h].status \in {"revoked", "claimed"} /\ link[h].rotation = req[w].rotation
      /\ \A k \in card[h].disowned : Behind(h, k)
      /\ card[h].answer.status = "revoked" => Behind(h, card[h].answer.rotation)

LinksFit == \A h \in Hosts : LinkFits(h)

\* The link stays as it is, or stops working.
Calm(h) ==
    \/ link'[h] = link[h]
    \/ /\ link[h].status # "none" /\ link'[h].status \in {"revoked", "claimed"}
       /\ link'[h].rotation = link[h].rotation

\* The requests that make a link are the same, or one of them has read the row.
SameMakers(h) ==
    /\ \A w \in Workers : OwnCall(w, h)' => OwnCall(w, h)
    /\ \A w \in Workers : Makes(w, h)' =>
         /\ Makes(w, h) /\ (OwnCall(w, h) => OwnCall(w, h)')
         /\ At(w, "rotate")' => \/ req'[w] = req[w]
                                \/ link'[h].status = "revoked" /\ link'[h].rotation = req'[w].rotation

LEMMA SteadyStep ==
    ASSUME NEW h \in Hosts, LinkFits(h), Calm(h), SameMakers(h),
           card'[h].doubt = card[h].doubt, card'[h].creating = card[h].creating,
           card'[h].disowned = card[h].disowned,
           card'[h].answer = card[h].answer \/ card'[h].answer.status # "revoked"
    PROVE  LinkFits(h)'
<1> SUFFICES ASSUME ~ card[h].doubt PROVE LinkFits(h)'
  BY DEF LinkFits
<1>1. \A k : Behind(h, k) => Behind(h, k)'
  BY DEF Calm, Behind
<1>2. \A w \in Workers : Makes(w, h)' /\ At(w, "rotate")' =>
        link'[h].status \in {"revoked", "claimed"} /\ link'[h].rotation = req'[w].rotation
  <2> SUFFICES ASSUME NEW w \in Workers, Makes(w, h)', At(w, "rotate")'
               PROVE  link'[h].status \in {"revoked", "claimed"} /\ link'[h].rotation = req'[w].rotation
    OBVIOUS
  <2>1. CASE req'[w] = req[w]
    <3>1. link[h].status \in {"revoked", "claimed"} /\ link[h].rotation = req[w].rotation
      BY <2>1 DEF LinkFits, SameMakers, At
    <3> QED BY <2>1, <3>1 DEF Calm
  <2>2. CASE req'[w] # req[w]
    BY <2>2 DEF SameMakers
  <2> QED BY <2>1, <2>2
<1>3. \A w \in Workers : OwnCall(w, h)' => card'[h].creating
  BY DEF LinkFits, SameMakers
<1>4. \A v, w \in Workers : OwnCall(v, h)' /\ OwnCall(w, h)' => v = w
  BY DEF LinkFits, SameMakers
<1>5. \A w \in Workers : Makes(w, h)' => OwnCall(w, h)'
  BY DEF LinkFits, SameMakers
<1>6. \A k \in card'[h].disowned : Behind(h, k)'
  BY <1>1 DEF LinkFits
<1>7. card'[h].answer.status = "revoked" => Behind(h, card[h].answer.rotation)' /\ card'[h].answer = card[h].answer
  BY <1>1 DEF LinkFits
<1> QED BY <1>2, <1>3, <1>4, <1>5, <1>6, <1>7 DEF LinkFits, Behind

\* A step of one request that makes no link, or ends.
LEMMA PlainStep ==
    ASSUME Inv, Pages, NEW h \in Hosts, LinkFits(h), NEW w \in Workers, card' = card,
           \A v \in Workers : v # w => call'[v] = call[v] /\ req'[v] = req[v],
           OwnCall(w, h)' => OwnCall(w, h), ~ Makes(w, h)', Calm(h)
    PROVE  LinkFits(h)'
<1>1. SameMakers(h)
  BY DEF SameMakers, OwnCall, Makes, At
<1> QED BY <1>1, SteadyStep

\* A step that moves no request and only the card of one host, if any.
LEMMA CardOnlyStep ==
    ASSUME NEW h \in Hosts, LinkFits(h), UNCHANGED <<call, req>>, Calm(h),
           card'[h].doubt = card[h].doubt, card'[h].creating = card[h].creating,
           card'[h].disowned = card[h].disowned,
           card'[h].answer = card[h].answer \/ card'[h].answer.status # "revoked"
    PROVE  LinkFits(h)'
<1>1. SameMakers(h)
  BY DEF SameMakers, OwnCall, Makes, At
<1> QED BY <1>1, SteadyStep

\* A card that doubts has nothing to fit.
LEMMA DoubtStep == ASSUME NEW h \in Hosts, card'[h].doubt PROVE LinkFits(h)'
BY DEF LinkFits

\* The page asks for the ticket, and shows what it gets.
LEMMA FetchSteps ==
    ASSUME Inv, CardsFit, LinksFit, NEW h \in Hosts, NEW g \in Hosts, FetchRead(h) \/ FetchArrives(h)
    PROVE  LinkFits(g)'
<1>1. /\ UNCHANGED <<call, req, link>> /\ Calm(g) /\ LinkFits(g)
      /\ \A f \in Hosts : f # h => card'[f] = card[f]
  BY DEF FetchRead, FetchArrives, vars, Calm, LinksFit, CardsFit
<1>2. CASE g # h
  BY <1>1, <1>2, CardOnlyStep
<1>3. CASE g = h /\ FetchRead(h)
  <2>1. /\ card'[h].doubt = card[h].doubt /\ card'[h].creating = card[h].creating
        /\ card'[h].disowned = card[h].disowned /\ card'[h].answer = View(h)
    BY <1>3 DEF FetchRead, CardsFit, Cards
  <2>2. View(h).status = "revoked" => Behind(h, View(h).rotation)
    <3>1. link[h].rotation \in 0 .. MaxRotation /\ TransfersAssumption
      BY TransfersAssumption DEF Inv, TypeOK, Links
    <3> QED BY <3>1 DEF View, Gone, Behind, TransfersAssumption
  <2> QED BY <1>1, <1>3, <2>1, <2>2 DEF LinkFits, Behind, OwnCall, Makes, At
<1>4. CASE g = h /\ FetchArrives(h)
  <2>1. /\ card'[h].doubt = card[h].doubt /\ card'[h].creating = card[h].creating
        /\ card'[h].answer = Gone
        /\ card'[h].disowned = IF card[h].answer.status = "revoked"
                               THEN card[h].disowned \cup {card[h].answer.rotation} ELSE card[h].disowned
    BY <1>4 DEF FetchArrives, CardsFit, Cards
  <2>2. Gone.status # "revoked"
    BY DEF Gone
  <2> QED BY <1>1, <1>4, <2>1, <2>2 DEF LinkFits, Behind, OwnCall, Makes, At
<1> QED BY <1>2, <1>3, <1>4

\* The button: no link is being made for this host, as the page knows.
LEMMA CreateStep ==
    ASSUME Inv, Pages, CardsFit, LinksFit, NEW h \in Hosts, NEW g \in Hosts, NEW w \in Workers, Create(h, w)
    PROVE  LinkFits(g)'
<1> DEFINE c == [of |-> "card", by |-> h, ok |-> FALSE]
<1>0. h \in Users
  BY TransfersAssumption
<1>1. /\ req'[w].pc = "ensure" /\ req'[w].host = h /\ \A v \in Workers : v # w => req'[v] = req[v]
      /\ UNCHANGED link
  BY DEF Create, EnsureStart, Become, Idle, Inv, TypeOK
<1>2. /\ call'[w].of = "card" /\ call'[w].by = h
      /\ \A v \in Workers : v # w => call'[v] = call[v]
  BY DEF Create, Ask, Pages
<1>3. /\ \A f \in Hosts : f # h => card'[f] = card[f]
      /\ card'[h].doubt = card[h].doubt /\ card'[h].creating
      /\ card'[h].disowned = card[h].disowned /\ card'[h].answer = card[h].answer
  BY DEF Create, CardsFit, Cards
<1>4. ~ card[h].creating /\ LinkFits(g)
  BY DEF Create, MayCreate, LinksFit
<1>5. CASE g # h
  <2>1. SameMakers(g)
    BY <1>1, <1>2, <1>5 DEF SameMakers, OwnCall, Makes, At
  <2>2. Calm(g)
    BY <1>1 DEF Calm
  <2> QED BY <1>3, <1>4, <1>5, <2>1, <2>2, SteadyStep
<1>6. CASE g = h /\ ~ card[h].doubt
  <2>1. \A v \in Workers : ~ OwnCall(v, h) /\ ~ Makes(v, h)
    BY <1>4, <1>6 DEF LinkFits
  <2>2. \A v \in Workers : v # w => ~ OwnCall(v, h)' /\ ~ Makes(v, h)'
    BY <1>1, <1>2, <2>1 DEF OwnCall, Makes
  <2>3. OwnCall(w, h)' /\ ~ At(w, "rotate")'
    BY <1>1, <1>2 DEF OwnCall, At
  <2>4. \A k : Behind(h, k) => Behind(h, k)'
    BY <1>1 DEF Behind
  <2>5. \A k \in card'[h].disowned : Behind(h, k)'
    BY <1>3, <1>4, <1>6, <2>4 DEF LinkFits
  <2>6. card[h].answer.status = "revoked" => Behind(h, card[h].answer.rotation)
    BY <1>4, <1>6 DEF LinkFits
  <2>7. card'[h].answer.status = "revoked" => Behind(h, card[h].answer.rotation)'
    <3> DEFINE k == card[h].answer.rotation
    <3>1. card'[h].answer.status = "revoked" => Behind(h, k)
      BY <1>3, <2>6
    <3>2. card'[h].answer.rotation = k /\ link' = link
      BY <1>1, <1>3
    <3> QED BY <3>1, <3>2 DEF Behind
  <2>8. \A v \in Workers : OwnCall(v, h)' => v = w
    BY <2>2
  <2>9. \A v \in Workers : Makes(v, h)' => OwnCall(v, h)' /\ ~ At(v, "rotate")'
    BY <2>2, <2>3
  <2> QED BY <1>3, <1>6, <2>5, <2>7, <2>8, <2>9 DEF LinkFits
<1>7. CASE g = h /\ card[h].doubt
  BY <1>3, <1>7, DoubtStep
<1> QED BY <1>5, <1>6, <1>7

LEMMA CardLinks ==
    ASSUME Inv, Pages, CardsFit, LinksFit, NEW h \in Hosts, NEW g \in Hosts, OnTheCard(h)
    PROVE  LinkFits(g)'
<1>1. LinkFits(g)
  BY DEF LinksFit
<1>2. CASE Visit(h)
  <2>1. /\ UNCHANGED <<call, req, link>> /\ Calm(g) /\ \A f \in Hosts : f # h => card'[f] = card[f]
        /\ card'[h].doubt = (card[h].doubt \/ card[h].creating) /\ ~ card'[h].creating
        /\ card'[h].disowned = card[h].disowned /\ card'[h].answer = card[h].answer
    BY <1>2 DEF Visit, vars, Calm, CardsFit, Cards
  <2>2. CASE g = h /\ card[h].creating
    BY <2>1, <2>2, DoubtStep
  <2>3. CASE g # h
    BY <1>1, <2>1, <2>3, CardOnlyStep
  <2>4. CASE g = h /\ ~ card[h].creating
    <3>1. card[h].doubt \in BOOLEAN /\ card[h].creating \in BOOLEAN /\ card'[h].creating = FALSE
      BY <1>2 DEF CardsFit, Cards, Visit
    <3>2. card'[h].doubt = card[h].doubt /\ card'[h].creating = card[h].creating
      BY <2>1, <2>4, <3>1
    <3> QED BY <1>1, <2>1, <2>4, <3>2, CardOnlyStep
  <2> QED BY <2>2, <2>3, <2>4
<1>3. CASE FetchFails(h) \/ ClickRevoke(h) \/ Revoke(h) \/ RevokeHeard(h)
  <2>1. UNCHANGED <<call, req>> /\ Calm(g)
    <3>1. CASE Revoke(h)
      <4>1. UNCHANGED <<call, req>> /\ link' = [link EXCEPT ![h] = Deactivated(link[h])]
        BY <3>1 DEF Revoke, RevokeLink
      <4>2. link'[g] = link[g] \/ link'[g] = Deactivated(link[g])
        BY <4>1 DEF Inv, TypeOK
      <4>3. link[g] \in Links
        BY DEF Inv, TypeOK
      <4> QED BY <4>1, <4>2, <4>3 DEF Deactivated, Calm, Links
    <3>2. CASE FetchFails(h) \/ ClickRevoke(h) \/ RevokeHeard(h)
      BY <3>2 DEF FetchFails, ClickRevoke, RevokeHeard, vars, Calm
    <3> QED BY <1>3, <3>1, <3>2
  <2>2. /\ card'[g].doubt = card[g].doubt /\ card'[g].creating = card[g].creating
        /\ card'[g].disowned = card[g].disowned
        /\ card'[g].answer = card[g].answer \/ card'[g].answer.status # "revoked"
    <3>1. card[h] \in Cards /\ Gone.status # "revoked"
      BY DEF CardsFit, Gone
    <3>2. CASE card' = [card EXCEPT ![h].fetch = "none", ![h].answer = Gone]
      BY <3>1, <3>2 DEF CardsFit, Cards
    <3>3. CASE ClickRevoke(h)
      BY <3>1, <3>3 DEF CardsFit, Cards, ClickRevoke
    <3>4. CASE Revoke(h)
      BY <3>1, <3>4 DEF CardsFit, Cards, Revoke
    <3>5. CASE RevokeHeard(h)
      BY <3>1, <3>5 DEF CardsFit, Cards, RevokeHeard, Invalidated
    <3> QED BY <1>3, <3>2, <3>3, <3>4, <3>5 DEF FetchFails
  <2> QED BY <1>1, <2>1, <2>2, CardOnlyStep
<1> QED BY <1>2, <1>3, FetchSteps, CreateStep DEF OnTheCard

\* How the call of a request that goes on or ends looks afterwards.
LEMMA CallAfter ==
    ASSUME Inv, Pages, NEW w \in Workers, NEW ok \in BOOLEAN, GoesOn \/ Ends(w, ok)
    PROVE  /\ \A v \in Workers : v # w => call'[v] = call[v]
           /\ \A g \in Hosts : OwnCall(w, g)' <=> OwnCall(w, g)
<1>1. call[w] \in Calls /\ call \in [Workers -> Calls]
  BY DEF Pages
<1>2. CASE GoesOn
  BY <1>2 DEF GoesOn, OwnCall
<1>3. CASE Ends(w, ok)
  <2>1. /\ call'[w] = IF call[w].by = Nobody THEN NoCall ELSE [call[w] EXCEPT !.ok = ok]
        /\ \A v \in Workers : v # w => call'[v] = call[v]
    BY <1>1, <1>3 DEF Ends
  <2>2. CASE call[w].by = Nobody
    <3>1. call'[w].by = Nobody /\ \A g \in Hosts : g # Nobody
      BY <2>1, <2>2, TransfersAssumption DEF NoCall
    <3> QED BY <2>1, <2>2, <3>1 DEF OwnCall
  <2>3. CASE call[w].by # Nobody
    <3>1. call'[w].of = call[w].of /\ call'[w].by = call[w].by
      BY <1>1, <2>1, <2>3 DEF Calls
    <3> QED BY <2>1, <3>1 DEF OwnCall
  <2> QED BY <2>2, <2>3
<1> QED BY <1>2, <1>3

\* A request that ends, or makes no link, and leaves the links calm.
LEMMA QuietStep ==
    ASSUME Inv, Pages, LinksFit, NEW g \in Hosts, NEW w \in Workers, NEW r, Become(w, r), r.pc \notin Making,
           card' = card, NEW ok \in BOOLEAN, GoesOn \/ Ends(w, ok), Calm(g)
    PROVE  LinkFits(g)'
<1>1. req'[w] = r /\ \A v \in Workers : v # w => req'[v] = req[v]
  BY OneRequest
<1>2. ~ Makes(w, g)'
  BY <1>1 DEF Makes
<1>3. LinkFits(g)
  BY DEF LinksFit
<1> QED BY <1>1, <1>2, <1>3, CallAfter, PlainStep

\* The row is read: to make a link or to renew it.
LEMMA ReadRowStep ==
    ASSUME Inv, Pages, LinksFit, NEW g \in Hosts, NEW w \in Workers, EnsureRead(w), card' = card,
           NEW ok \in BOOLEAN, IF req'[w] = Idle THEN Ends(w, ok) ELSE GoesOn
    PROVE  LinkFits(g)'
<1>1. GoesOn \/ Ends(w, ok)
  OBVIOUS
<1>2. Calm(g) /\ LinkFits(g) /\ req[w] \in Requests /\ Idle.pc \notin Making
  BY DEF EnsureRead, Calm, LinksFit, Inv, TypeOK, Idle, Making
<1>3. CASE Finish(w)
  BY <1>1, <1>2, <1>3, QuietStep DEF Finish
<1>4. CASE ~ Finish(w)
  <2> DEFINE h == req[w].host
  <2>1. PICK r \in Requests :
          /\ Become(w, r) /\ r.host = h
          /\ r.pc = "insert" \/ (r.pc = "rotate" /\ link[h].status = "revoked" /\ r.rotation = link[h].rotation)
    <3>1. CASE Become(w, [req[w] EXCEPT !.pc = "insert"])
      <4>1. [req[w] EXCEPT !.pc = "insert"] \in Requests
        BY <1>2 DEF Requests, Making
      <4> QED BY <1>2, <3>1, <4>1 DEF Requests
    <3>2. CASE /\ link[h].status = "revoked"
               /\ Become(w, [req[w] EXCEPT !.pc = "rotate", !.rotation = link[h].rotation])
      <4> DEFINE r == [req[w] EXCEPT !.pc = "rotate", !.rotation = link[h].rotation]
      <4>1. h \in Hosts
        BY DEF EnsureRead, At, Inv, RequestFits
      <4>2. link[h].rotation \in 0 .. MaxRotation
        BY <4>1 DEF Inv, TypeOK, Links
      <4>3. r \in Requests /\ r.pc = "rotate" /\ r.host = h /\ r.rotation = link[h].rotation
        BY <1>2, <4>2 DEF Requests, Making
      <4> HIDE DEF r
      <4>4. Become(w, r)
        BY <3>2 DEF r
      <4> QED BY <3>2, <4>3, <4>4
    <3> QED BY <1>4, <3>1, <3>2 DEF EnsureRead
  <2>2. req'[w] = r /\ \A v \in Workers : v # w => req'[v] = req[v]
    BY <2>1, OneRequest
  <2>3. Makes(w, h) /\ link' = link
    BY DEF EnsureRead, Makes, At, Making
  <2>4. SameMakers(g)
    <3>1. \A v \in Workers : OwnCall(v, g)' <=> OwnCall(v, g)
      BY <1>1, CallAfter DEF OwnCall
    <3>2. ASSUME NEW v \in Workers, v # w, Makes(v, g)' PROVE Makes(v, g) /\ req'[v] = req[v]
      BY <2>2, <3>2 DEF Makes
    <3>3. ASSUME Makes(w, g)'
          PROVE  /\ Makes(w, g)
                 /\ At(w, "rotate")' => link'[g].status = "revoked" /\ link'[g].rotation = req'[w].rotation
      <4>1. g = h
        BY <2>1, <2>2, <3>3 DEF Makes
      <4>2. At(w, "rotate")' => link'[h].status = "revoked" /\ link'[h].rotation = req'[w].rotation
        BY <2>1, <2>2, <2>3 DEF At
      <4> QED BY <2>3, <4>1, <4>2
    <3> QED BY <3>1, <3>2, <3>3 DEF SameMakers
  <2> QED BY <1>2, <2>4, SteadyStep
<1> QED BY <1>3, <1>4

\* A new link: of rotation 0 before there was any, or above all that were revoked.
LEMMA WriteRowStep ==
    ASSUME Inv, Pages, CardsFit, LinksFit, NEW g \in Hosts, NEW w \in Workers, EnsureInsert(w) \/ EnsureRotate(w),
           card' = card, NEW ok \in BOOLEAN, Ends(w, ok)
    PROVE  LinkFits(g)'
<1>0. PICK h : h = req[w].host
  OBVIOUS
<1>1. /\ Makes(w, h) /\ h \in Hosts /\ Become(w, Idle) /\ Idle.pc \notin Making
      /\ link \in [Hosts -> Links] /\ req[w] \in Requests
  BY <1>0 DEF EnsureInsert, EnsureRotate, At, Makes, Making, Finish, Idle, Inv, TypeOK, RequestFits
<1>2. CASE Calm(g)
  BY <1>1, <1>2, QuietStep
<1>3. CASE ~ Calm(g)
  <2>1. g = h
    <3>1. link' = link \/ \E l : link' = [link EXCEPT ![h] = l]
      BY <1>0 DEF EnsureInsert, EnsureRotate
    <3> QED BY <1>1, <1>3, <3>1 DEF Calm
  <2> SUFFICES ASSUME ~ card[h].doubt PROVE LinkFits(h)'
    BY <1>1, <2>1 DEF LinkFits
  <2>2. LinkFits(h) /\ req'[w] = Idle /\ \A v \in Workers : v # w => req'[v] = req[v]
    BY <1>1, OneRequest DEF LinksFit
  <2>3. \A v \in Workers : OwnCall(v, h)' <=> OwnCall(v, h)
    BY <1>1, CallAfter DEF OwnCall
  <2>4. OwnCall(w, h) /\ \A v \in Workers : Makes(v, h) => v = w
    BY <1>1, <2>2 DEF LinkFits
  <2>5. \A v \in Workers : ~ Makes(v, h)'
    BY <1>1, <2>2, <2>4 DEF Makes
  <2>6. \A k \in 0 .. MaxRotation : Behind(h, k) => Behind(h, k)'
    <3>1. CASE EnsureInsert(w)
      <4>1. link[h].status = "none"
        BY <1>0, <1>3, <2>1, <3>1 DEF EnsureInsert, Calm
      <4> QED BY <4>1 DEF Behind
    <3>2. CASE EnsureRotate(w)
      <4>1. link[h].rotation = req[w].rotation
        BY <1>0, <1>1, <2>2, <3>2 DEF LinkFits, EnsureRotate
      <4>2. link'[h] = [status |-> "active", rotation |-> link[h].rotation + 1]
        BY <1>0, <1>1, <3>2, <4>1 DEF EnsureRotate
      <4>3. link[h].rotation \in 0 .. MaxRotation /\ MaxRotation \in Nat
        BY <1>1, TransfersAssumption DEF Links
      <4> QED BY <4>2, <4>3 DEF Behind
    <3> QED BY <3>1, <3>2
  <2>7. /\ card[h].disowned \subseteq 0 .. MaxRotation
        /\ card[h].answer.rotation \in 0 .. MaxRotation
    BY <1>1 DEF CardsFit, Cards, Views
  <2>8. \A k \in card'[h].disowned : Behind(h, k)'
    BY <2>2, <2>6, <2>7 DEF LinkFits
  <2>9. card'[h].answer.status = "revoked" => Behind(h, card[h].answer.rotation)'
    <3>1. PICK k \in 0 .. MaxRotation : k = card[h].answer.rotation
      BY <2>7
    <3>2. card[h].answer.status = "revoked" => Behind(h, k)'
      BY <2>2, <2>6, <3>1 DEF LinkFits
    <3> QED BY <3>1, <3>2 DEF Behind
  <2> QED BY <2>2, <2>3, <2>5, <2>8, <2>9 DEF LinkFits
<1> QED BY <1>2, <1>3

\* The page is told: then no link is being made, or it does not know.
LEMMA ToldLinks ==
    ASSUME Inv, Pages, CardsFit, LinksFit, NEW g \in Hosts, NEW w \in Workers, NEW ok \in BOOLEAN,
           Told(w, ok), call' = [call EXCEPT ![w] = NoCall], UNCHANGED vars
    PROVE  LinkFits(g)'
<1>1. /\ \A v \in Workers : v # w => call'[v] = call[v]
      /\ ~ OwnCall(w, g)' /\ UNCHANGED <<req, link>> /\ LinkFits(g) /\ Calm(g)
  BY NewCall DEF Pages, OwnCall, vars, LinksFit, Calm
<1>2. CASE ~ OwnCall(w, g)
  <2>1. card'[g] = card[g]
    BY <1>2 DEF Told, OwnCall, CardsFit, Pages, Calls
  <2>2. SameMakers(g)
    BY <1>1, <1>2 DEF SameMakers, OwnCall, Makes, At
  <2> QED BY <1>1, <2>1, <2>2, SteadyStep
<1>3. CASE OwnCall(w, g)
  <2> DEFINE early == ~ At(w, "idle")
  <2>1. card'[g] = Answered(card[g], ok, early)
    BY <1>3 DEF Told, OwnCall, CardsFit
  <2>2. card[g] \in Cards /\ early \in BOOLEAN
    BY DEF CardsFit
  <2>3. /\ card'[g].doubt = (card[g].doubt \/ early) /\ card'[g].disowned = card[g].disowned
        /\ card'[g].answer = card[g].answer \/ card'[g].answer.status # "revoked"
    <3> HIDE DEF early
    <3> QED BY <2>1, <2>2 DEF Answered, Invalidated, Cards, Gone
  <2>4. CASE card[g].doubt \/ early
    BY <2>3, <2>4, DoubtStep
  <2>5. CASE ~ card[g].doubt /\ ~ early
    <3>1. \A v \in Workers : v # w => ~ OwnCall(v, g)
      BY <1>1, <1>3, <2>5 DEF LinkFits
    <3>2. \A v \in Workers : ~ OwnCall(v, g)'
      BY <1>1, <3>1 DEF OwnCall
    <3>3. \A v \in Workers : ~ Makes(v, g)
      BY <1>1, <2>5, <3>1 DEF LinkFits, Makes, At, Making
    <3>4. \A v \in Workers : ~ Makes(v, g)'
      BY <1>1, <3>3 DEF Makes
    <3>5. \A k : Behind(g, k) => Behind(g, k)'
      BY <1>1 DEF Behind
    <3>6. \A k \in card'[g].disowned : Behind(g, k)'
      BY <1>1, <2>3, <2>5, <3>5 DEF LinkFits
    <3>7. card'[g].answer.status = "revoked" => Behind(g, card[g].answer.rotation)' /\ card'[g].answer = card[g].answer
      BY <1>1, <2>3, <2>5, <3>5 DEF LinkFits
    <3> QED BY <3>2, <3>4, <3>6, <3>7 DEF LinkFits, Behind
  <2> QED BY <2>4, <2>5
<1> QED BY <1>2, <1>3

\* Whoever claims has a link: a row of ticket_transfers is never deleted.
Linked == \A w \in Workers : req[w].pc \in Claiming => link[req[w].host].status # "none"

LEMMA LinkedKept == ASSUME Inv, Linked, [Next]_vars PROVE Linked'
<1>1. \A h \in Hosts : link'[h].status = "none" => link[h].status = "none"
  <2>1. CASE link' = link
    BY <2>1
  <2>2. ASSUME NEW w \in Workers, EnsureInsert(w) \/ EnsureRotate(w) \/ ClaimCommit(w)
        PROVE  \A h \in Hosts : link'[h].status = "none" => link[h].status = "none"
    <3>1. link' = link \/ (\E l : link' = [link EXCEPT ![req[w].host] = l] /\ l.status # "none")
      BY <2>2 DEF EnsureInsert, EnsureRotate, ClaimCommit, Inv, TypeOK, Links
    <3> QED BY <3>1 DEF Inv, TypeOK
  <2>3. ASSUME NEW g \in Hosts, RevokeLink(g) \/ Remove(g)
        PROVE  \A h \in Hosts : link'[h].status = "none" => link[h].status = "none"
    <3>1. link' = [link EXCEPT ![g] = Deactivated(link[g])]
      BY <2>3 DEF RevokeLink, Remove
    <3> QED BY <3>1 DEF Deactivated, Inv, TypeOK, Links
  <2> QED BY <2>1, <2>2, <2>3 DEF Next, vars, Arrive, Proceed, EnsureStart, ClaimParse, ScanTicket, EnsureRead,
              ClaimRead, ScanParent, ScanSeen, ScanEnter, Abort, SetStatus
<1>2. ASSUME NEW w \in Workers, req'[w].pc \in Claiming PROVE link'[req'[w].host].status # "none"
  <2>1. req'[w].host \in Hosts
    BY <1>2, StepKeeps DEF Inv, RequestFits, Claiming
  <2>2. link[req'[w].host].status # "none"
    <3>1. CASE req'[w] = req[w]
      BY <1>2, <3>1 DEF Linked
    <3>2. ASSUME NEW h \in Hosts, NEW u \in Users, ClaimParse(w, u, h) PROVE link[req'[w].host].status # "none"
      <4>1. PICK late \in BOOLEAN :
              Become(w, [Idle EXCEPT !.pc = "claim", !.user = u, !.host = h, !.late = late])
        <5>1. (h \in removed) \in BOOLEAN
          OBVIOUS
        <5> QED BY <3>2, <5>1 DEF ClaimParse
      <4>2. [Idle EXCEPT !.pc = "claim", !.user = u, !.host = h, !.late = late].host = h
        BY DEF Idle
      <4>3. req'[w].host = h
        BY <4>1, <4>2, OneRequest
      <4> QED BY <3>2, <4>3 DEF ClaimParse
    <3>3. CASE ClaimRead(w)
      <4>1. req'[w].host = req[w].host \/ req'[w] = Idle
        BY <3>3 DEF ClaimRead, Become, Finish, Inv, TypeOK, Requests
      <4> QED BY <1>2, <3>3, <4>1 DEF ClaimRead, At, Linked, Claiming, Idle
    <3>4. CASE req'[w] # req[w] /\ ~ ClaimRead(w) /\ ~ \E h \in Hosts, u \in Users : ClaimParse(w, u, h)
      <4>1. PICK v, r : v \in Workers /\ Become(v, r) /\ r.pc \notin Claiming
        <5>1. Idle.pc \notin Claiming
          BY DEF Idle, Claiming
        <5>2. ASSUME NEW v \in Workers, Finish(v) PROVE \E r : Become(v, r) /\ r.pc \notin Claiming
          BY <5>1, <5>2 DEF Finish
        <5>3. ASSUME NEW v \in Workers, NEW h \in Hosts, EnsureStart(v, h)
              PROVE  \E r : Become(v, r) /\ r.pc \notin Claiming
          <6>1. [Idle EXCEPT !.pc = "ensure", !.host = h].pc \notin Claiming
            BY DEF Idle, Claiming
          <6> QED BY <5>3, <6>1 DEF EnsureStart
        <5>4. ASSUME NEW v \in Workers, NEW p \in Passes, ScanTicket(v, p)
              PROVE  \E r : Become(v, r) /\ r.pc \notin Claiming
          <6>1. PICK pc \in Scanning, late \in BOOLEAN :
                  Become(v, [Idle EXCEPT !.pc = pc, !.host = Host(p), !.kind = p[2], !.late = late])
            <7>1. (entries[p] > 0 \/ Host(p) \in removed) \in BOOLEAN
              OBVIOUS
            <7>2. (IF p[2] = "plus_one" THEN "parent" ELSE "seen") \in Scanning
              BY DEF Scanning
            <7> QED BY <5>4, <7>1, <7>2 DEF ScanTicket
          <6>2. [Idle EXCEPT !.pc = pc, !.host = Host(p), !.kind = p[2], !.late = late].pc \notin Claiming
            BY DEF Idle, Claiming, Scanning
          <6> QED BY <6>1, <6>2
        <5>5. ASSUME NEW v \in Workers, EnsureRead(v) \/ ScanParent(v) \/ ScanSeen(v), ~ Finish(v)
              PROVE  \E r : Become(v, r) /\ r.pc \notin Claiming
          <6>1. req[v] \in Requests
            BY DEF Inv, TypeOK
          <6>2. \A pc \in Making \cup Scanning : \A k :
                  /\ [req[v] EXCEPT !.pc = pc].pc \notin Claiming
                  /\ [req[v] EXCEPT !.pc = pc, !.rotation = k].pc \notin Claiming
            BY <6>1 DEF Requests, Claiming, Making, Scanning
          <6>3. \E pc \in Making \cup Scanning : \E k :
                  \/ Become(v, [req[v] EXCEPT !.pc = pc])
                  \/ Become(v, [req[v] EXCEPT !.pc = pc, !.rotation = k])
            BY <5>5 DEF EnsureRead, ScanParent, ScanSeen, Making, Scanning
          <6> QED BY <6>2, <6>3
        <5>6. PICK v \in Workers : Arrive(v) \/ Proceed(v)
          <6>1. req' # req
            BY <3>4
          <6> QED BY <6>1 DEF Next, vars, RevokeLink, Remove, SetStatus
        <5>8. v = w
          BY <3>4, <5>6, OneRequest DEF Arrive, Proceed, EnsureStart, ClaimParse, ScanTicket, EnsureRead, EnsureInsert,
             EnsureRotate, ClaimRead, ClaimCommit, ScanParent, ScanSeen, ScanEnter, Abort, Finish
        <5> QED BY <3>4, <5>2, <5>3, <5>4, <5>5, <5>6, <5>8 DEF Arrive, Proceed, EnsureInsert, EnsureRotate,
                    ClaimCommit, ScanEnter, Abort
      <4>2. v = w
        BY <3>4, <4>1, OneRequest
      <4> QED BY <1>2, <4>1, <4>2, OneRequest
    <3> QED BY <3>1, <3>2, <3>3, <3>4
  <2> QED BY <1>1, <2>1, <2>2
<1> QED BY <1>2 DEF Linked

LEMMA ApiLinks ==
    ASSUME Inv, Pages, CardsFit, Linked, LinksFit, NEW g \in Hosts, NEW w \in Workers, InTheApi(w)
    PROVE  LinkFits(g)'
<1>1. CASE CreateGoesOn(w)
  <2>1. card' = card
    BY <1>1 DEF CreateGoesOn, Quiet
  <2>2. CASE EnsureRead(w)
    <3>1. PICK ok \in BOOLEAN : IF req'[w] = Idle THEN Ends(w, ok) ELSE GoesOn
      <4>1. (link[req[w].host].status = "active") \in BOOLEAN
        OBVIOUS
      <4> QED BY <1>1, <2>2, <4>1 DEF CreateGoesOn, EnsureRead, EnsureInsert, EnsureRotate, At
    <3> QED BY <2>1, <2>2, <3>1, ReadRowStep
  <2>3. CASE ~ EnsureRead(w)
    <3>1. PICK ok \in BOOLEAN : (EnsureInsert(w) \/ EnsureRotate(w)) /\ Ends(w, ok)
      <4>1. (link[req[w].host].status = "none") \in BOOLEAN
        OBVIOUS
      <4> QED BY <1>1, <2>3, <4>1 DEF CreateGoesOn
    <3> QED BY <2>1, <3>1, WriteRowStep
  <2> QED BY <2>2, <2>3
<1>2. CASE ClaimGoesOn(w)
  <2>1. card' = card
    BY <1>2 DEF ClaimGoesOn, Quiet
  <2>2. PICK ok \in BOOLEAN : GoesOn \/ Ends(w, ok)
    <3>1. (~ Taken(req[w].host)) \in BOOLEAN
      OBVIOUS
    <3> QED BY <1>2, <3>1 DEF ClaimGoesOn
  <2>3. PICK r : Become(w, r) /\ r.pc \notin Making
    <3>1. Idle.pc \notin Making
      BY DEF Idle, Making
    <3>2. [req[w] EXCEPT !.pc = "claiming"].pc \notin Making
      BY DEF Making, Inv, TypeOK, Requests
    <3> QED BY <1>2, <3>1, <3>2 DEF ClaimGoesOn, ClaimRead, ClaimCommit, Finish
  <2>4. Calm(g)
    <3>1. CASE link' = link
      BY <3>1 DEF Calm
    <3>2. CASE link' # link
      <4>1. link' = [link EXCEPT ![req[w].host].status = "claimed"] /\ req[w].pc = "claiming"
        BY <1>2, <3>2 DEF ClaimGoesOn, ClaimRead, ClaimCommit, At
      <4>2. link[g] \in Links /\ link \in [Hosts -> Links]
        BY DEF Inv, TypeOK
      <4>3. link[req[w].host].status # "none"
        BY <4>1 DEF Linked, Claiming
      <4> QED BY <4>1, <4>2, <4>3 DEF Calm, Links
    <3> QED BY <3>1, <3>2
  <2> QED BY <2>1, <2>2, <2>3, <2>4, QuietStep
<1>3. CASE ScanGoesOn(w)
  <2>1. card' = card /\ Calm(g)
    BY <1>3 DEF ScanGoesOn, Quiet, ScanParent, ScanSeen, ScanEnter, Calm
  <2>2. GoesOn \/ Ends(w, TRUE)
    BY <1>3 DEF ScanGoesOn
  <2>3. PICK r : Become(w, r) /\ r.pc \notin Making
    <3>1. Idle.pc \notin Making
      BY DEF Idle, Making
    <3>2. ASSUME NEW pc \in Scanning PROVE [req[w] EXCEPT !.pc = pc].pc \notin Making
      BY DEF Making, Scanning, Inv, TypeOK, Requests
    <3> QED BY <1>3, <3>1, <3>2 DEF ScanGoesOn, ScanParent, ScanSeen, ScanEnter, Finish, Scanning
  <2> QED BY <2>1, <2>2, <2>3, QuietStep
<1>4. CASE Dies(w)
  <2>1. card' = card /\ Calm(g) /\ Ends(w, FALSE) /\ Become(w, Idle) /\ Idle.pc \notin Making
    BY <1>4 DEF Dies, Quiet, Abort, Finish, Idle, Making, Calm
  <2> QED BY <2>1, QuietStep
<1>5. CASE Hear(w)
  <2>1. call[w].ok \in BOOLEAN
    BY DEF Pages, Calls
  <2> QED BY <1>5, <2>1, ToldLinks DEF Hear
<1>6. CASE Lose(w)
  BY <1>6, ToldLinks DEF Lose
<1> QED BY <1>1, <1>2, <1>3, <1>4, <1>5, <1>6 DEF InTheApi

\* Every step keeps the links in order.
LEMMA LinksKept ==
    ASSUME Inv, Pages, CardsFit, Linked, LinksFit, [ScreensNext]_<<vars, screens>>
    PROVE  LinksFit'
<1> SUFFICES ASSUME NEW g \in Hosts PROVE LinkFits(g)'
  BY DEF LinksFit
<1>1. LinkFits(g)
  BY DEF LinksFit
<1>2. ASSUME UNCHANGED <<call, req, card>>, Calm(g) PROVE LinkFits(g)'
  BY <1>1, <1>2, CardOnlyStep
<1>3. ASSUME NEW w \in Workers, NEW s \in {"phone", "visitor"}, NEW x \in Phones \cup Users, Ask(w, s, x),
             NEW r, Become(w, r), r.pc \notin Making, UNCHANGED <<card, link>>
      PROVE  LinkFits(g)'
  <2>1. req'[w] = r /\ \A v \in Workers : v # w => req'[v] = req[v]
    BY <1>3, OneRequest
  <2>2. call'[w].of = s /\ \A v \in Workers : v # w => call'[v] = call[v]
    BY <1>3 DEF Ask, Pages
  <2>3. ~ OwnCall(w, g)' /\ ~ Makes(w, g)' /\ Calm(g)
    BY <1>3, <2>1, <2>2 DEF OwnCall, Makes, Calm
  <2> QED BY <1>1, <1>3, <2>1, <2>2, <2>3, PlainStep
<1>4. ASSUME NEW d \in Phones, AtTheDoor(d) PROVE LinkFits(g)'
  <2>1. ASSUME UNCHANGED <<call, vars, card>> PROVE LinkFits(g)'
    BY <1>2, <2>1 DEF vars, Calm
  <2>2. ASSUME NEW w \in Workers, NEW p, ScanTicket(w, p), Ask(w, "phone", d), card' = card
        PROVE  LinkFits(g)'
    <3>1. PICK pc \in {"parent", "seen"}, late \in BOOLEAN :
            Become(w, [Idle EXCEPT !.pc = pc, !.host = Host(p), !.kind = p[2], !.late = late])
      <4>1. (entries[p] > 0 \/ Host(p) \in removed) \in BOOLEAN
        OBVIOUS
      <4>2. (IF p[2] = "plus_one" THEN "parent" ELSE "seen") \in {"parent", "seen"}
        OBVIOUS
      <4> QED BY <2>2, <4>1, <4>2 DEF ScanTicket
    <3>2. [Idle EXCEPT !.pc = pc, !.host = Host(p), !.kind = p[2], !.late = late].pc \notin Making
      BY DEF Idle, Making
    <3> QED BY <1>3, <2>2, <3>1, <3>2 DEF ScanTicket
  <2> QED BY <1>4, <2>1, <2>2 DEF AtTheDoor, Glimpse, ScanDenied, Scan, LookUp, Cool, Forget
<1>5. ASSUME NEW h \in Hosts, OnTheCard(h) PROVE LinkFits(g)'
  BY <1>5, CardLinks
<1>6. ASSUME NEW u \in Users, OnTheClaimPage(u) PROVE LinkFits(g)'
  <2>1. ASSUME NEW h \in Hosts, Open(h, u) PROVE LinkFits(g)'
    <3>1. /\ call' = [w \in Workers |-> IF w \in Asking("visitor", u) THEN NoCall ELSE call[w]]
          /\ UNCHANGED <<req, link, card>> /\ Calm(g)
      BY <2>1 DEF Open, vars, Calm
    <3>2. \A w \in Workers : OwnCall(w, g)' <=> OwnCall(w, g)
      BY <3>1, NewCall DEF OwnCall, Asking
    <3>3. SameMakers(g)
      BY <3>1, <3>2 DEF SameMakers, Makes, At
    <3> QED BY <1>1, <3>1, <3>3, SteadyStep
  <2>2. CASE Preview(u)
    BY <1>2, <2>2 DEF Preview, vars, Calm
  <2>3. ASSUME NEW w \in Workers, Claim(u, w) PROVE LinkFits(g)'
    <3>1. PICK late \in BOOLEAN : 
            Become(w, [Idle EXCEPT !.pc = "claim", !.user = u, !.host = visitor[u].from, !.late = late])
      <4>1. (visitor[u].from \in removed) \in BOOLEAN
        OBVIOUS
      <4> QED BY <2>3, <4>1 DEF Claim, ClaimParse
    <3>2. [Idle EXCEPT !.pc = "claim", !.user = u, !.host = visitor[u].from, !.late = late].pc \notin Making
      BY DEF Idle, Making
    <3> QED BY <1>3, <2>3, <3>1, <3>2 DEF Claim, ClaimParse
  <2> QED BY <1>6, <2>1, <2>2, <2>3 DEF OnTheClaimPage
<1>7. ASSUME NEW w \in Workers, InTheApi(w) PROVE LinkFits(g)'
  BY <1>7, ApiLinks
<1>8. CASE Elsewhere
  <2>1. UNCHANGED <<call, req, card>>
    BY <1>8 DEF Elsewhere, SetStatus, Remove
  <2>2. Calm(g)
    <3>1. CASE link' = link
      BY <3>1 DEF Calm
    <3>2. ASSUME NEW h \in Hosts, Remove(h) PROVE Calm(g)
      <4>1. link' = [link EXCEPT ![h] = Deactivated(link[h])]
        BY <3>2 DEF Remove
      <4>2. link'[g] = link[g] \/ link'[g] = Deactivated(link[g])
        BY <4>1 DEF Inv, TypeOK
      <4>3. link[g] \in Links
        BY DEF Inv, TypeOK
      <4> QED BY <4>2, <4>3 DEF Deactivated, Calm, Links
    <3> QED BY <1>8, <3>1, <3>2 DEF Elsewhere, SetStatus
  <2> QED BY <1>2, <2>1, <2>2
<1>9. CASE UNCHANGED <<vars, screens>>
  BY <1>2, <1>9 DEF vars, screens, Calm
<1> QED BY <1>4, <1>5, <1>6, <1>7, <1>8, <1>9 DEF ScreensNext

LEMMA LinksInit == ScreensInit => Linked /\ LinksFit
<1> SUFFICES ASSUME ScreensInit PROVE Linked /\ LinksFit
  OBVIOUS
<1>1. \A w \in Workers : req[w].pc = "idle" /\ call[w].of = "phone"
  BY DEF ScreensInit, Init, Idle, NoCall
<1>2. \A h \in Hosts : card[h].disowned = {} /\ card[h].answer.status = "gone"
  BY DEF ScreensInit, Gone
<1> QED BY <1>1, <1>2 DEF Linked, Claiming, LinksFit, LinkFits, OwnCall, Makes, Making

\* A link that the host has seen revoked never works again, as long as the page did
\* not give up waiting for a new one: the rotation only grows while one request at a
\* time renews it.
THEOREM DeadLinksStayDead == ScreensSpec => []RevokedStaysDead
<1> DEFINE Keeps == Inv /\ Pages /\ CardsFit /\ Linked /\ LinksFit
<1>1. ScreensInit => Keeps
  BY PagesInit, CardsInit, LinksInit
<1>2. Keeps /\ [ScreensNext]_<<vars, screens>> => Keeps'
  <2> SUFFICES ASSUME Keeps, [ScreensNext]_<<vars, screens>> PROVE Keeps'
    OBVIOUS
  <2>1. [Next]_vars
    BY StepsOfTransfers DEF Pages, vars, screens
  <2> QED BY <2>1, PagesKept, CardsKept, LinkedKept, LinksKept
<1>3. Keeps => RevokedStaysDead
  <2> SUFFICES ASSUME Keeps, NEW h \in Hosts, link[h].status = "active", ~ card[h].doubt
               PROVE  link[h].rotation \notin card[h].disowned
    BY DEF RevokedStaysDead
  <2>1. \A k \in card[h].disowned : k < link[h].rotation
    BY DEF LinksFit, LinkFits, Behind
  <2>2. link[h].rotation \in Nat
    BY TransfersAssumption DEF Inv, TypeOK, Links
  <2> QED BY <2>1, <2>2
<1> HIDE DEF Keeps
<1> QED BY <1>1, <1>2, <1>3, PTL DEF ScreensSpec

(***************************************************************************)
(* Who waits for what.                                                     *)
(***************************************************************************)
\* The variables whose types Inv, Pages and CardsFit leave out.
Counted ==
    /\ phone \in [Phones -> Scanners]
    /\ deeds \in 0 .. MaxDeeds
    /\ losses \in 0 .. MaxLosses

\* A busy phone or claim page waits for one request and an idle one for none; the
\* card may still have a request of its own after it was opened again.
Waits(busy, asked) == IF busy THEN \E w \in Workers : asked = {w} ELSE asked = {}

Waiting ==
    /\ \A d \in Phones : Waits(phone[d].doing = "asking", Asking("phone", d))
    /\ \A h \in Hosts : card[h].creating => Asking("card", h) # {}
    /\ \A u \in Users : Waits(visitor[u].claiming, Asking("visitor", u))

Screen == {"phone", "card", "visitor"}
Someone == Phones \cup Users

LEMMA NobodyIsNoOne == Nobody \notin Someone /\ Phones \cap Users = {}
BY ScreensAssumption, TransfersAssumption DEF Someone

\* What becomes of the requests a screen waits for when one begins, ends, or is
\* no longer waited for.
LEMMA AskedMore ==
    ASSUME call \in [Workers -> Calls], NEW w \in Workers, call[w] = NoCall,
           NEW s \in Screen, NEW x \in Someone, Ask(w, s, x), NEW t \in Screen, NEW y \in Someone
    PROVE  Asking(t, y)' = IF t = s /\ y = x THEN Asking(t, y) \cup {w} ELSE Asking(t, y)
<1>1. PICK c : c = [of |-> s, by |-> x, ok |-> FALSE]
  OBVIOUS
<1>2. c.of = s /\ c.by = x /\ NoCall.by = Nobody
  BY <1>1 DEF NoCall
<1>3. call' = [call EXCEPT ![w] = c]
  BY <1>1 DEF Ask
<1>4. \A v \in Workers : call'[v] = IF v = w THEN c ELSE call[v]
  BY <1>3
<1>5. y # Nobody
  BY NobodyIsNoOne
<1> QED BY <1>2, <1>4, <1>5 DEF Asking

LEMMA AskedSame ==
    ASSUME call \in [Workers -> Calls], NEW w \in Workers, NEW ok, Ends(w, ok) \/ GoesOn,
           NEW t \in Screen, NEW y \in Someone
    PROVE  Asking(t, y)' = Asking(t, y)
<1>1. \A v \in Workers : call[v] \in Calls
  OBVIOUS
<1>2. ASSUME NEW v \in Workers
      PROVE  (call'[v].of = t /\ call'[v].by = y) <=> (call[v].of = t /\ call[v].by = y)
  <2>1. CASE call'[v] = call[v]
    BY <2>1
  <2>2. CASE call'[v] # call[v]
    <3>1. call'[v] = IF call[v].by = Nobody THEN NoCall ELSE [call[v] EXCEPT !.ok = ok]
      BY <2>2 DEF Ends, GoesOn
    <3>2. y # Nobody
      BY NobodyIsNoOne
    <3> QED BY <1>1, <3>1, <3>2 DEF NoCall, Calls
  <2> QED BY <2>1, <2>2
<1> QED BY <1>2 DEF Asking

LEMMA AskedLess ==
    ASSUME call \in [Workers -> Calls], NEW w \in Workers, call' = [call EXCEPT ![w] = NoCall],
           NEW t \in Screen, NEW y \in Someone
    PROVE  Asking(t, y)' = Asking(t, y) \ {w}
<1>1. \A v \in Workers : call'[v] = IF v = w THEN NoCall ELSE call[v]
  OBVIOUS
<1>2. NoCall.by = Nobody /\ y # Nobody
  BY NobodyIsNoOne DEF NoCall
<1> QED BY <1>1, <1>2 DEF Asking

LEMMA AskedBefore ==
    ASSUME call \in [Workers -> Calls], NEW u \in Users,
           call' = [w \in Workers |-> IF w \in Asking("visitor", u) THEN NoCall ELSE call[w]],
           NEW t \in Screen, NEW y \in Someone
    PROVE  Asking(t, y)' = IF t = "visitor" /\ y = u THEN {} ELSE Asking(t, y)
<1>1. NoCall.by = Nobody /\ y # Nobody
  BY NobodyIsNoOne DEF NoCall
<1> QED BY <1>1 DEF Asking

\* What is asked for stays as it was, and so does the flag of every screen.
LEMMA SameWaits ==
    ASSUME Waiting, Counted,
           \A t \in Screen, y \in Someone : Asking(t, y)' = Asking(t, y),
           \A d \in Phones : (phone'[d].doing = "asking") = (phone[d].doing = "asking"),
           \A h \in Hosts : card'[h].creating => card[h].creating,
           \A u \in Users : visitor'[u].claiming = visitor[u].claiming
    PROVE  Waiting'
<1>1. ASSUME NEW d \in Phones PROVE Waits(phone'[d].doing = "asking", Asking("phone", d)')
  <2>1. Asking("phone", d)' = Asking("phone", d)
    BY DEF Screen, Someone
  <2> QED BY <2>1 DEF Waiting, Waits
<1>2. ASSUME NEW h \in Hosts, card'[h].creating PROVE Asking("card", h)' # {}
  <2>1. Asking("card", h)' = Asking("card", h)
    BY TransfersAssumption DEF Screen, Someone
  <2> QED BY <1>2, <2>1 DEF Waiting
<1>3. ASSUME NEW u \in Users PROVE Waits(visitor'[u].claiming, Asking("visitor", u)')
  <2>1. Asking("visitor", u)' = Asking("visitor", u)
    BY DEF Screen, Someone
  <2> QED BY <2>1 DEF Waiting, Waits
<1> QED BY <1>1, <1>2, <1>3 DEF Waiting

LEMMA AskingTyped == ASSUME call' = call PROVE \A t, y : Asking(t, y)' = Asking(t, y)
BY DEF Asking

\* The phone.
LEMMA DoorWaits ==
    ASSUME Inv, Pages, Counted, Waiting, NEW d \in Phones, AtTheDoor(d)
    PROVE  Counted' /\ Waiting'
<1>1. phone \in [Phones -> Scanners] /\ phone[d] \in Scanners
  BY DEF Counted
<1>2. UNCHANGED <<card, visitor, losses>>
  BY DEF AtTheDoor, Glimpse, ScanDenied, Scan, LookUp, Cool, Forget
<1>3. deeds' \in 0 .. MaxDeeds
  BY ScreensAssumption DEF AtTheDoor, Glimpse, ScanDenied, Scan, LookUp, Cool, Forget, Deed, Counted
<1>4. ASSUME NEW s \in Scanners, phone' = [phone EXCEPT ![d] = s], call' = call,
             (s.doing = "asking") = (phone[d].doing = "asking")
      PROVE  Counted' /\ Waiting'
  <2>1. \A e \in Phones : (phone'[e].doing = "asking") = (phone[e].doing = "asking")
    BY <1>1, <1>4
  <2>2. phone' \in [Phones -> Scanners]
    BY <1>1, <1>4
  <2>3. Waiting'
    BY <1>2, <1>4, <2>1, SameWaits, AskingTyped
  <2> QED BY <1>2, <1>3, <2>2, <2>3 DEF Counted
<1>5. ASSUME NEW w \in Workers, NEW s \in Scanners, phone' = [phone EXCEPT ![d] = s], s.doing = "asking",
             phone[d].doing = "ready", call[w] = NoCall, Ask(w, "phone", d)
      PROVE  Counted' /\ Waiting'
  <2>1. phone' \in [Phones -> Scanners] /\ \A e \in Phones : phone'[e] = IF e = d THEN s ELSE phone[e]
    BY <1>1, <1>5
  <2>2. call \in [Workers -> Calls] /\ "phone" \in Screen /\ d \in Someone
    BY DEF Pages, Screen, Someone
  <2>3. \A t \in Screen, y \in Someone :
          Asking(t, y)' = IF t = "phone" /\ y = d THEN Asking(t, y) \cup {w} ELSE Asking(t, y)
    BY <1>5, <2>2, AskedMore
  <2>4. ASSUME NEW e \in Phones PROVE Waits(phone'[e].doing = "asking", Asking("phone", e)')
    <3>1. Asking("phone", e)' = IF e = d THEN Asking("phone", e) \cup {w} ELSE Asking("phone", e)
      BY <2>3 DEF Screen, Someone
    <3>2. Waits(phone[e].doing = "asking", Asking("phone", e))
      BY DEF Waiting
    <3>3. CASE e = d
      BY <1>5, <2>1, <3>1, <3>2, <3>3 DEF Waits
    <3>4. CASE e # d
      BY <2>1, <3>1, <3>2, <3>4 DEF Waits
    <3> QED BY <3>3, <3>4
  <2>5. \A h \in Hosts : Asking("card", h)' = Asking("card", h)
    BY <2>3, TransfersAssumption DEF Screen, Someone
  <2>6. \A u \in Users : Asking("visitor", u)' = Asking("visitor", u)
    BY <2>3 DEF Screen, Someone
  <2>7. Waiting'
    BY <1>2, <2>4, <2>5, <2>6 DEF Waiting
  <2> QED BY <1>2, <1>3, <2>1, <2>7 DEF Counted
<1>6. ASSUME NEW p \in Passes \cup {NoPass}, NEW k \in {"ready", "asking", "cooling"}
      PROVE  /\ [doing |-> k, last |-> p] \in Scanners
             /\ [phone[d] EXCEPT !.last = p] \in Scanners
             /\ [phone[d] EXCEPT !.last = p].doing = phone[d].doing
             /\ [phone[d] EXCEPT !.doing = k] \in Scanners
             /\ [phone[d] EXCEPT !.doing = k].doing = k
  BY <1>1 DEF Scanners
<1>7. NoPass \in Passes \cup {NoPass}
  OBVIOUS
<1>8. ASSUME NEW p \in Passes, Glimpse(d, p) PROVE Counted' /\ Waiting'
  <2>1. phone' = [phone EXCEPT ![d] = [phone[d] EXCEPT !.last = p]] /\ call' = call
    BY <1>1, <1>8 DEF Glimpse
  <2> QED BY <1>4, <1>6, <2>1
<1>9. ASSUME NEW p \in Passes, ScanDenied(d, p) PROVE Counted' /\ Waiting'
  <2>1. phone' = [phone EXCEPT ![d] = [doing |-> "cooling", last |-> p]] /\ call' = call
        /\ phone[d].doing = "ready"
    BY <1>9 DEF ScanDenied, MayAsk
  <2> QED BY <1>4, <1>6, <2>1
<1>10. ASSUME NEW p \in Passes, NEW w \in Workers, Scan(d, w, p) PROVE Counted' /\ Waiting'
  <2>1. /\ phone' = [phone EXCEPT ![d] = [doing |-> "asking", last |-> p]]
        /\ phone[d].doing = "ready" /\ call[w] = NoCall /\ Ask(w, "phone", d)
    BY <1>10 DEF Scan, MayAsk, Unused
  <2> QED BY <1>5, <1>6, <2>1
<1>11. ASSUME NEW w \in Workers, NEW u \in Users, LookUp(d, w, u) PROVE Counted' /\ Waiting'
  <2>1. /\ phone' = [phone EXCEPT ![d] = [phone[d] EXCEPT !.doing = "asking"]]
        /\ phone[d].doing = "ready" /\ call[w] = NoCall /\ Ask(w, "phone", d)
    BY <1>1, <1>11 DEF LookUp, MayAsk, Unused
  <2> QED BY <1>5, <1>6, <1>7, <2>1
<1>12. CASE Cool(d)
  <2>1. phone' = [phone EXCEPT ![d] = [phone[d] EXCEPT !.doing = "ready"]] /\ call' = call
        /\ phone[d].doing = "cooling"
    BY <1>1, <1>12 DEF Cool
  <2> QED BY <1>4, <1>6, <1>7, <2>1
<1>13. CASE Forget(d)
  <2>1. phone' = [phone EXCEPT ![d] = [phone[d] EXCEPT !.last = NoPass]] /\ call' = call
    BY <1>1, <1>13 DEF Forget
  <2> QED BY <1>4, <1>6, <1>7, <2>1
<1> QED BY <1>8, <1>9, <1>10, <1>11, <1>12, <1>13 DEF AtTheDoor

\* The host's card.
LEMMA CardWaits ==
    ASSUME Inv, Pages, CardsFit, Counted, Waiting, NEW h \in Hosts, OnTheCard(h)
    PROVE  Counted' /\ Waiting'
<1>1. card \in [Hosts -> Cards] /\ card[h] \in Cards
  BY DEF CardsFit
<1>2. UNCHANGED <<phone, visitor>>
  BY DEF OnTheCard, Visit, FetchRead, FetchArrives, FetchFails, Create, ClickRevoke, Revoke, RevokeHeard
<1>3. deeds' \in 0 .. MaxDeeds /\ losses' \in 0 .. MaxLosses
  BY ScreensAssumption DEF OnTheCard, Visit, FetchRead, FetchArrives, FetchFails, Create, ClickRevoke, Revoke,
                           RevokeHeard, Deed, Counted
<1>4. Counted'
  BY <1>2, <1>3 DEF Counted
<1>5. CASE \E w \in Workers : Create(h, w)
  <2>1. PICK w \in Workers : Create(h, w)
    BY <1>5
  <2>2. call[w] = NoCall /\ Ask(w, "card", h) /\ call \in [Workers -> Calls]
    BY <2>1 DEF Create, Unused, Pages
  <2>3. "card" \in Screen /\ h \in Someone
    BY TransfersAssumption DEF Screen, Someone
  <2>4. \A t \in Screen, y \in Someone :
          Asking(t, y)' = IF t = "card" /\ y = h THEN Asking(t, y) \cup {w} ELSE Asking(t, y)
    BY <2>2, <2>3, AskedMore
  <2>5. \A d \in Phones : Asking("phone", d)' = Asking("phone", d)
    BY <2>4 DEF Screen, Someone
  <2>6. \A u \in Users : Asking("visitor", u)' = Asking("visitor", u)
    BY <2>4 DEF Screen, Someone
  <2>7. ASSUME NEW g \in Hosts, card'[g].creating PROVE Asking("card", g)' # {}
    <3>1. Asking("card", g)' = IF g = h THEN Asking("card", g) \cup {w} ELSE Asking("card", g)
      BY <2>4, TransfersAssumption DEF Screen, Someone
    <3>2. g # h => card'[g] = card[g]
      BY <1>1, <2>1 DEF Create
    <3> QED BY <2>7, <3>1, <3>2 DEF Waiting
  <2>8. Waiting'
    BY <1>2, <2>5, <2>6, <2>7 DEF Waiting
  <2> QED BY <1>4, <2>8
<1>6. CASE ~ \E w \in Workers : Create(h, w)
  <2>1. call' = call
    BY <1>6 DEF OnTheCard, Visit, FetchRead, FetchArrives, FetchFails, ClickRevoke, Revoke, RevokeHeard
  <2>2. ASSUME NEW g \in Hosts, card'[g].creating PROVE card[g].creating
    <3>1. CASE Visit(h)
      BY <1>1, <2>2, <3>1 DEF Visit, CardsFit, Cards
    <3>2. CASE FetchRead(h) \/ FetchArrives(h) \/ FetchFails(h) \/ ClickRevoke(h) \/ Revoke(h)
      BY <1>1, <2>2, <3>2 DEF FetchRead, FetchArrives, FetchFails, ClickRevoke, Revoke, CardsFit, Cards
    <3>3. CASE RevokeHeard(h)
      BY <1>1, <2>2, <3>3 DEF RevokeHeard, Invalidated, CardsFit, Cards
    <3> QED BY <1>6, <3>1, <3>2, <3>3 DEF OnTheCard
  <2>3. Waiting'
    BY <1>2, <2>1, <2>2, SameWaits, AskingTyped
  <2> QED BY <1>4, <2>3
<1> QED BY <1>5, <1>6

\* The claim page.
LEMMA PageWaits ==
    ASSUME Inv, Pages, Counted, Waiting, NEW u \in Users, OnTheClaimPage(u)
    PROVE  Counted' /\ Waiting'
<1>1. visitor \in [Users -> Visitors] /\ visitor[u] \in Visitors /\ call \in [Workers -> Calls]
  BY DEF Pages
<1>2. UNCHANGED <<phone, card>>
  BY DEF OnTheClaimPage, Open, Preview, Claim
<1>3. deeds' \in 0 .. MaxDeeds /\ losses' = losses
  <2>1. losses' = losses /\ (deeds' = deeds \/ Deed)
    BY DEF OnTheClaimPage, Open, Preview, Claim
  <2> QED BY <2>1, ScreensAssumption DEF Deed, Counted
<1>4. Counted'
  BY <1>2, <1>3 DEF Counted
<1>5. ASSUME NEW h \in Hosts, Open(h, u) PROVE Waiting'
  <2>1. PICK r : visitor' = [visitor EXCEPT ![u] = [Nowhere EXCEPT !.from = h, !.rotation = r]]
    BY <1>5 DEF Open
  <2>2. ~ [Nowhere EXCEPT !.from = h, !.rotation = r].claiming
    BY DEF Nowhere
  <2>3. ~ visitor'[u].claiming /\ \A v \in Users : v # u => visitor'[v] = visitor[v]
    BY <1>1, <2>1, <2>2
  <2>4. call' = [w \in Workers |-> IF w \in Asking("visitor", u) THEN NoCall ELSE call[w]]
    BY <1>5 DEF Open
  <2>5. \A t \in Screen, y \in Someone :
          Asking(t, y)' = IF t = "visitor" /\ y = u THEN {} ELSE Asking(t, y)
    BY <1>1, <2>4, AskedBefore
  <2>6. \A d \in Phones : Asking("phone", d)' = Asking("phone", d)
    BY <2>5 DEF Screen, Someone
  <2>7. \A h2 \in Hosts : Asking("card", h2)' = Asking("card", h2)
    BY <2>5, TransfersAssumption DEF Screen, Someone
  <2>8. ASSUME NEW v \in Users PROVE Waits(visitor'[v].claiming, Asking("visitor", v)')
    <3>1. Asking("visitor", v)' = IF v = u THEN {} ELSE Asking("visitor", v)
      BY <2>5 DEF Screen, Someone
    <3> QED BY <2>3, <3>1 DEF Waiting, Waits
  <2> QED BY <1>2, <2>6, <2>7, <2>8 DEF Waiting
<1>6. CASE Preview(u)
  <2>1. visitor' = [visitor EXCEPT ![u] = [visitor[u] EXCEPT !.offered = TRUE]] /\ call' = call
    BY <1>1, <1>6 DEF Preview
  <2>2. [visitor[u] EXCEPT !.offered = TRUE].claiming = visitor[u].claiming
    BY <1>1 DEF Visitors
  <2>3. \A v \in Users : visitor'[v].claiming = visitor[v].claiming
    BY <1>1, <2>1, <2>2
  <2>4. /\ \A d \in Phones : (phone'[d].doing = "asking") = (phone[d].doing = "asking")
        /\ \A h \in Hosts : card'[h].creating => card[h].creating
    BY <1>2
  <2>5. \A t \in Screen, y \in Someone : Asking(t, y)' = Asking(t, y)
    BY <2>1, AskingTyped
  <2> QED BY <1>4, <2>3, <2>4, <2>5, SameWaits
<1>7. ASSUME NEW w \in Workers, Claim(u, w) PROVE Waiting'
  <2>1. /\ visitor' = [visitor EXCEPT ![u] = [visitor[u] EXCEPT !.claiming = TRUE]]
        /\ call[w] = NoCall /\ Ask(w, "visitor", u) /\ ~ visitor[u].claiming
    BY <1>1, <1>7 DEF Claim, Unused, MayClaim
  <2>2. [visitor[u] EXCEPT !.claiming = TRUE].claiming
    BY <1>1 DEF Visitors
  <2>3. visitor'[u].claiming = TRUE /\ \A v \in Users : v # u => visitor'[v] = visitor[v]
    BY <1>1, <2>1, <2>2
  <2>4. "visitor" \in Screen /\ u \in Someone
    BY DEF Screen, Someone
  <2>5. \A t \in Screen, y \in Someone :
          Asking(t, y)' = IF t = "visitor" /\ y = u THEN Asking(t, y) \cup {w} ELSE Asking(t, y)
    BY <1>1, <2>1, <2>4, AskedMore
  <2>6. \A d \in Phones : Asking("phone", d)' = Asking("phone", d)
    BY <2>5 DEF Screen, Someone
  <2>7. \A h2 \in Hosts : Asking("card", h2)' = Asking("card", h2)
    BY <2>5, TransfersAssumption DEF Screen, Someone
  <2>8. ASSUME NEW v \in Users PROVE Waits(visitor'[v].claiming, Asking("visitor", v)')
    <3>1. Asking("visitor", v)' = IF v = u THEN Asking("visitor", v) \cup {w} ELSE Asking("visitor", v)
      BY <2>5 DEF Screen, Someone
    <3>2. Waits(visitor[v].claiming, Asking("visitor", v))
      BY DEF Waiting
    <3>3. CASE v = u
      BY <2>1, <2>3, <3>1, <3>2, <3>3 DEF Waits
    <3>4. CASE v # u
      BY <2>3, <3>1, <3>2, <3>4 DEF Waits
    <3> QED BY <3>3, <3>4
  <2> QED BY <1>2, <2>6, <2>7, <2>8 DEF Waiting
<1> QED BY <1>4, <1>5, <1>6, <1>7 DEF OnTheClaimPage

\* The screen is told, and waits no more; no other screen was waiting for the same
\* request.
LEMMA ToldWaits ==
    ASSUME Inv, Pages, CardsFit, Counted, Waiting, NEW w \in Workers, NEW ok \in BOOLEAN, Told(w, ok),
           call' = [call EXCEPT ![w] = NoCall]
    PROVE  Waiting' /\ phone' \in [Phones -> Scanners]
<1>0. PICK s : s = call[w].by
  OBVIOUS
<1>1. call \in [Workers -> Calls] /\ call[w] \in Calls
  BY DEF Pages
<1>2. \A t \in Screen, y \in Someone : Asking(t, y)' = Asking(t, y) \ {w}
  BY <1>1, AskedLess
<1>3. \A t \in Screen, y \in Someone : w \in Asking(t, y) <=> call[w].of = t /\ s = y
  BY <1>0 DEF Asking
<1>4. /\ \A d \in Phones : Asking("phone", d)' = Asking("phone", d) \ {w}
      /\ \A d \in Phones : w \in Asking("phone", d) <=> call[w].of = "phone" /\ s = d
  BY <1>2, <1>3 DEF Screen, Someone
<1>5. /\ \A h \in Hosts : Asking("card", h)' = Asking("card", h) \ {w}
      /\ \A h \in Hosts : w \in Asking("card", h) <=> call[w].of = "card" /\ s = h
  BY <1>2, <1>3, TransfersAssumption DEF Screen, Someone
<1>6. /\ \A u \in Users : Asking("visitor", u)' = Asking("visitor", u) \ {w}
      /\ \A u \in Users : w \in Asking("visitor", u) <=> call[w].of = "visitor" /\ s = u
  BY <1>2, <1>3 DEF Screen, Someone
<1>7. /\ phone' \in [Phones -> Scanners]
      /\ \A d \in Phones : Waits(phone'[d].doing = "asking", Asking("phone", d)')
  <2>1. CASE call[w].of = "phone"
    <3>1. phone' = [phone EXCEPT ![s] = Freed(phone[s], ok)]
      BY <1>0, <2>1 DEF Told
    <3>2. phone \in [Phones -> Scanners]
      BY DEF Counted
    <3>3. ASSUME s \in Phones PROVE Freed(phone[s], ok) \in Scanners /\ Freed(phone[s], ok).doing = "cooling"
      BY <3>2, <3>3 DEF Freed, Scanners
    <3>4. phone' \in [Phones -> Scanners]
      BY <3>1, <3>2, <3>3
    <3>5. ASSUME NEW d \in Phones PROVE Waits(phone'[d].doing = "asking", Asking("phone", d)')
      <4>1. Waits(phone[d].doing = "asking", Asking("phone", d))
        BY DEF Waiting
      <4>2. CASE d = s
        <5>1. phone'[d].doing = "cooling"
          BY <3>1, <3>2, <3>3, <4>2
        <5>2. Asking("phone", d) \ {w} = {}
          BY <1>4, <2>1, <4>1, <4>2 DEF Waits
        <5> QED BY <1>4, <5>1, <5>2 DEF Waits
      <4>3. CASE d # s
        <5>1. phone'[d] = phone[d]
          BY <3>1, <3>2, <4>3
        <5>2. Asking("phone", d) \ {w} = Asking("phone", d)
          BY <1>4, <4>3
        <5> QED BY <1>4, <4>1, <5>1, <5>2 DEF Waits
      <4> QED BY <4>2, <4>3
    <3> QED BY <3>4, <3>5
  <2>2. CASE call[w].of # "phone"
    <3>1. phone' = phone
      BY <1>1, <2>2 DEF Told, Calls
    <3>2. \A d \in Phones : Asking("phone", d)' = Asking("phone", d)
      BY <1>4, <2>2
    <3> QED BY <3>1, <3>2 DEF Counted, Waiting, Waits
  <2> QED BY <2>1, <2>2
<1>8. ASSUME NEW h \in Hosts, card'[h].creating PROVE Asking("card", h)' # {}
  <2>1. CASE call[w].of = "card" /\ s = h
    <3>1. PICK early \in BOOLEAN : card' = [card EXCEPT ![h] = Answered(card[h], ok, early)]
      <4>1. (~ At(w, "idle")) \in BOOLEAN
        OBVIOUS
      <4> QED BY <1>0, <2>1, <4>1 DEF Told
    <3>2. card[h] \in Cards /\ card \in [Hosts -> Cards]
      BY DEF CardsFit
    <3>3. ~ Answered(card[h], ok, early).creating
      BY <3>2 DEF Answered, Invalidated, Cards
    <3> QED BY <1>8, <3>1, <3>2, <3>3
  <2>2. CASE ~ (call[w].of = "card" /\ s = h)
    <3>1. Asking("card", h)' = Asking("card", h)
      BY <1>5, <2>2
    <3>2. card'[h] = card[h]
      BY <1>0, <1>1, <2>2 DEF Told, Calls, CardsFit
    <3> QED BY <1>8, <3>1, <3>2 DEF Waiting
  <2> QED BY <2>1, <2>2
<1>9. ASSUME NEW u \in Users PROVE Waits(visitor'[u].claiming, Asking("visitor", u)')
  <2>1. Waits(visitor[u].claiming, Asking("visitor", u))
    BY DEF Waiting
  <2>2. CASE call[w].of = "visitor" /\ s = u
    <3>1. visitor' = [visitor EXCEPT ![u].claiming = FALSE, ![u].won = ok]
      BY <1>0, <2>2 DEF Told
    <3>2. visitor[u] \in Visitors /\ visitor \in [Users -> Visitors]
      BY DEF Pages
    <3>3. visitor'[u] = [visitor[u] EXCEPT !.claiming = FALSE, !.won = ok]
      BY <3>1, <3>2
    <3>4. ~ visitor'[u].claiming
      BY <3>2, <3>3 DEF Visitors
    <3>5. Asking("visitor", u) \ {w} = {}
      BY <1>6, <2>1, <2>2 DEF Waits
    <3> QED BY <1>6, <3>4, <3>5 DEF Waits
  <2>3. CASE ~ (call[w].of = "visitor" /\ s = u)
    <3>1. Asking("visitor", u)' = Asking("visitor", u)
      BY <1>6, <2>3
    <3>2. visitor'[u] = visitor[u]
      BY <1>0, <1>1, <2>3 DEF Told, Calls, Pages
    <3> QED BY <2>1, <3>1, <3>2
  <2> QED BY <2>2, <2>3
<1> QED BY <1>7, <1>8, <1>9 DEF Waiting

LEMMA WaitsKept ==
    ASSUME Inv, Pages, CardsFit, Counted, Waiting, [ScreensNext]_<<vars, screens>>
    PROVE  Counted' /\ Waiting'
<1>1. call \in [Workers -> Calls]
  BY DEF Pages
<1>2. ASSUME NEW w \in Workers, InTheApi(w) PROVE Counted' /\ Waiting'
  <2>1. CASE Hear(w)
    <3>1. call[w].ok \in BOOLEAN /\ Told(w, call[w].ok) /\ call' = [call EXCEPT ![w] = NoCall]
          /\ UNCHANGED <<deeds, losses>>
      BY <1>1, <2>1 DEF Hear, Calls
    <3>2. Waiting' /\ phone' \in [Phones -> Scanners]
      BY <3>1, ToldWaits
    <3> QED BY <3>1, <3>2 DEF Counted
  <2>2. CASE Lose(w)
    <3>0. losses < MaxLosses /\ losses' = losses + 1
      BY <2>2 DEF Lose
    <3>1. Told(w, FALSE) /\ call' = [call EXCEPT ![w] = NoCall] /\ deeds' = deeds /\ losses' \in 0 .. MaxLosses
      <4>1. losses' \in 0 .. MaxLosses
        BY <3>0, ScreensAssumption DEF Counted
      <4> QED BY <2>2, <4>1 DEF Lose
    <3>2. Waiting' /\ phone' \in [Phones -> Scanners]
      BY <3>1, ToldWaits
    <3> QED BY <3>1, <3>2 DEF Counted
  <2>3. CASE CreateGoesOn(w) \/ ClaimGoesOn(w) \/ ScanGoesOn(w) \/ Dies(w)
    <3>1. Quiet /\ \E ok : Ends(w, ok) \/ GoesOn
      BY <2>3 DEF CreateGoesOn, ClaimGoesOn, ScanGoesOn, Dies
    <3>2. \A t \in Screen, y \in Someone : Asking(t, y)' = Asking(t, y)
      BY <1>1, <3>1, AskedSame
    <3> QED BY <3>1, <3>2, SameWaits DEF Quiet, Counted
  <2> QED BY <1>2, <2>1, <2>2, <2>3 DEF InTheApi
<1>3. CASE Elsewhere
  <2>1. UNCHANGED <<call, phone, card, visitor, losses>> /\ deeds' \in 0 .. MaxDeeds
    BY <1>3, ScreensAssumption DEF Elsewhere, Deed, Counted
  <2> QED BY <2>1, SameWaits, AskingTyped DEF Counted
<1>4. CASE UNCHANGED <<vars, screens>>
  <2>1. UNCHANGED <<call, phone, card, visitor, losses, deeds>>
    BY <1>4 DEF screens
  <2> QED BY <2>1, SameWaits, AskingTyped DEF Counted
<1> QED BY <1>2, <1>3, <1>4, DoorWaits, CardWaits, PageWaits DEF ScreensNext

LEMMA WaitsInit == ScreensInit => Counted /\ Waiting
<1> SUFFICES ASSUME ScreensInit PROVE Counted /\ Waiting
  OBVIOUS
<1>1. \A t \in Screen, y \in Someone : Asking(t, y) = {}
  BY NobodyIsNoOne DEF ScreensInit, Asking, NoCall
<1>2. Counted
  BY ScreensAssumption DEF ScreensInit, Counted, Scanners
<1>3. \A d \in Phones : phone[d].doing = "ready" /\ Asking("phone", d) = {}
  BY <1>1 DEF ScreensInit, Screen, Someone
<1>4. \A h \in Hosts : card[h].creating = FALSE
  BY DEF ScreensInit
<1>5. \A u \in Users : visitor[u].claiming = FALSE /\ Asking("visitor", u) = {}
  BY <1>1 DEF ScreensInit, Screen, Someone, Nowhere
<1>6. Waiting
  BY <1>3, <1>4, <1>5 DEF Waiting, Waits
<1> QED BY <1>2, <1>6

\* A busy screen waits for exactly one request, and an idle one for none: no failure
\* and no lost answer leaves the scanner dead or a button disabled.
THEOREM WaitersAreAnswered == ScreensSpec => []NobodyWaitsInVain
<1> DEFINE Keeps == Inv /\ Pages /\ CardsFit /\ Counted /\ Waiting
<1>1. ScreensInit => Keeps
  BY PagesInit, CardsInit, WaitsInit
<1>2. Keeps /\ [ScreensNext]_<<vars, screens>> => Keeps'
  <2> SUFFICES ASSUME Keeps, [ScreensNext]_<<vars, screens>> PROVE Keeps'
    OBVIOUS
  <2> QED BY PagesKept, CardsKept, WaitsKept
<1>3. Keeps => NobodyWaitsInVain
  <2> SUFFICES ASSUME Keeps PROVE NobodyWaitsInVain
    OBVIOUS
  <2>1. ScreensTypeOK
    BY DEF ScreensTypeOK, Inv, Pages, CardsFit, Counted
  <2>2. ASSUME NEW busy \in BOOLEAN, NEW S, Waits(busy, S)
        PROVE  Cardinality(S) = IF busy THEN 1 ELSE 0
    BY <2>2, FS_Singleton, FS_EmptySet DEF Waits
  <2>3. \A d \in Phones : (phone[d].doing = "asking") \in BOOLEAN
    OBVIOUS
  <2>4. \A u \in Users : visitor[u].claiming \in BOOLEAN
    BY DEF Pages, Visitors
  <2> QED BY <2>1, <2>2, <2>3, <2>4 DEF Waiting, NobodyWaitsInVain
<1> HIDE DEF Keeps
<1> QED BY <1>1, <1>2, <1>3, PTL DEF ScreensSpec

(***************************************************************************)
(* What checkinState adds up.  The sum is a recursive function of the sets *)
(* of passes; that it exists and what bounds it follow from a smallest set *)
(* for which they would fail.                                              *)
(***************************************************************************)
Picked(s) == CHOOSE x \in s : TRUE

\* g is the sum over each subset of T.
Adds(g, T) ==
    g = [s \in SUBSET T |-> IF s = {} THEN 0 ELSE entries[Picked(s)] + g[s \ {Picked(s)}]]

LEMMA CheckedInIs == CheckedIn = (CHOOSE g : Adds(g, Passes))[Passes]
BY DEF CheckedIn, MapThenSumSet, MapThenFoldSet, Adds, Picked

LEMMA Minimal ==
    ASSUME NEW R, NEW Q, IsWellFoundedOn(R, Q), NEW B, B \subseteq Q, B # {}
    PROVE  \E x \in B : \A y \in B : ~ (<<y, x>> \in R)
BY WFMin, Zenon

LEMMA Smallest ==
    ASSUME NEW S, IsFiniteSet(S), NEW B, B \subseteq SUBSET S, B # {}
    PROVE  \E T \in B : \A U \in B : ~ (U \subseteq T /\ U # T)
<1>1. FiniteSubsetsOf(S) = SUBSET S
  BY FS_FiniteSubsetsOfFinite
<1>2. IsWellFoundedOn(StrictSubsetOrdering(S), FiniteSubsetsOf(S))
  BY FS_StrictSubsetOrderingWellFounded
<1>3. IsWellFoundedOn(StrictSubsetOrdering(S), SUBSET S)
  BY <1>1, <1>2
<1>4. PICK R, Q : R = StrictSubsetOrdering(S) /\ Q = SUBSET S
  OBVIOUS
<1>5. IsWellFoundedOn(R, Q) /\ B \subseteq Q /\ B # {}
  BY <1>3, <1>4
<1>6. \E T \in B : \A U \in B : ~ (<<U, T>> \in R)
  BY ONLY <1>5, Minimal, Zenon
<1>7. ASSUME NEW T \in B, NEW U \in B, U \subseteq T, U # T PROVE <<U, T>> \in R
  BY <1>4, <1>7 DEF StrictSubsetOrdering
<1> QED BY ONLY <1>6, <1>7

LEMMA PickedIsIn == ASSUME NEW s, s # {} PROVE Picked(s) \in s
BY DEF Picked

LEMMA AddsIs ==
    ASSUME NEW g, NEW T, Adds(g, T), NEW s \in SUBSET T
    PROVE  g[s] = IF s = {} THEN 0 ELSE entries[Picked(s)] + g[s \ {Picked(s)}]
<1> DEFINE F(t) == IF t = {} THEN 0 ELSE entries[Picked(t)] + g[t \ {Picked(t)}]
<1>1. g = [t \in SUBSET T |-> F(t)]
  BY DEF Adds
<1> HIDE DEF F
<1>2. g[s] = F(s)
  BY <1>1
<1> QED BY <1>2 DEF F

LEMMA OneSum ==
    ASSUME NEW T, IsFiniteSet(T), NEW g, Adds(g, T), NEW U, NEW h, Adds(h, U)
    PROVE  \A s \in SUBSET T : s \subseteq U => g[s] = h[s]
<1> DEFINE B == {s \in SUBSET T : s \subseteq U /\ g[s] # h[s]}
<1> SUFFICES ASSUME B # {} PROVE FALSE
  OBVIOUS
<1>1. B \subseteq SUBSET T
  OBVIOUS
<1> HIDE DEF B
<1>2. PICK s \in B : \A r \in B : ~ (r \subseteq s /\ r # s)
  BY <1>1, Smallest
<1>3. s \in SUBSET T /\ s \in SUBSET U /\ g[s] # h[s]
  BY DEF B
<1>4. g[s] = IF s = {} THEN 0 ELSE entries[Picked(s)] + g[s \ {Picked(s)}]
  BY <1>3, AddsIs
<1>5. h[s] = IF s = {} THEN 0 ELSE entries[Picked(s)] + h[s \ {Picked(s)}]
  BY <1>3, AddsIs
<1>6. PICK r : r = s \ {Picked(s)}
  OBVIOUS
<1>7. s # {} /\ g[r] # h[r]
  BY <1>3, <1>4, <1>5, <1>6
<1>8. r \subseteq s /\ r # s
  BY <1>6, <1>7, PickedIsIn
<1>9. r \in B
  BY <1>3, <1>7, <1>8 DEF B
<1> QED BY <1>2, <1>8, <1>9

LEMMA SumExists == ASSUME NEW S, IsFiniteSet(S) PROVE \E g : Adds(g, S)
<1> DEFINE B == {T \in SUBSET S : ~ \E g : Adds(g, T)}
<1> SUFFICES ASSUME B # {} PROVE FALSE
  OBVIOUS
<1>1. B \subseteq SUBSET S
  OBVIOUS
<1> HIDE DEF B
<1>2. PICK T \in B : \A U \in B : ~ (U \subseteq T /\ U # T)
  BY <1>1, Smallest
<1>3. T \in SUBSET S /\ ~ \E g : Adds(g, T)
  BY DEF B
<1>4. ASSUME NEW U, U \subseteq T, U # T PROVE \E g : Adds(g, U)
  BY <1>2, <1>3, <1>4 DEF B
<1> DEFINE G(U) == CHOOSE g : Adds(g, U)
           H(s) == IF s = {} THEN 0
                   ELSE entries[Picked(s)] + G(s \ {Picked(s)})[s \ {Picked(s)}]
           h == [s \in SUBSET T |-> H(s)]
<1>5. ASSUME NEW U, U \subseteq T, U # T PROVE Adds(G(U), U)
  BY <1>4, <1>5
<1> HIDE DEF G
<1>6. ASSUME NEW u, u \subseteq T, u # T PROVE h[u] = G(u)[u]
  <2>1. h[u] = H(u)
    BY <1>6
  <2>2. G(u)[u] = IF u = {} THEN 0 ELSE entries[Picked(u)] + G(u)[u \ {Picked(u)}]
    BY <1>5, <1>6, AddsIs
  <2>3. CASE u = {}
    BY <2>1, <2>2, <2>3
  <2>4. CASE u # {}
    <3>1. PICK r : r = u \ {Picked(u)}
      OBVIOUS
    <3>2. r \subseteq u /\ r # u
      BY <2>4, <3>1, PickedIsIn
    <3>3. r \subseteq T /\ r # T
      BY <1>6, <3>2
    <3>4. Adds(G(r), r) /\ Adds(G(u), u)
      BY <1>5, <1>6, <3>3
    <3>5. IsFiniteSet(r)
      BY <1>3, <3>3, FS_Subset
    <3>6. \A s \in SUBSET r : s \subseteq u => G(r)[s] = G(u)[s]
      BY <3>4, <3>5, OneSum
    <3>7. G(r)[r] = G(u)[r]
      BY <3>2, <3>6
    <3> QED BY <2>1, <2>2, <2>4, <3>1, <3>7
  <2> QED BY <2>3, <2>4
<1>7. ASSUME NEW s \in SUBSET T
      PROVE  h[s] = IF s = {} THEN 0 ELSE entries[Picked(s)] + h[s \ {Picked(s)}]
  <2>1. h[s] = H(s)
    OBVIOUS
  <2>2. CASE s = {}
    BY <2>1, <2>2
  <2>3. CASE s # {}
    <3>1. PICK r : r = s \ {Picked(s)}
      OBVIOUS
    <3>2. r \subseteq T /\ r # T
      BY <2>3, <3>1, PickedIsIn
    <3>3. h[r] = G(r)[r]
      BY <1>6, <3>2
    <3> QED BY <2>1, <2>3, <3>1, <3>3
  <2> QED BY <2>2, <2>3
<1> DEFINE F(s) == IF s = {} THEN 0 ELSE entries[Picked(s)] + h[s \ {Picked(s)}]
<1>8. h = [s \in SUBSET T |-> F(s)]
  <2>1. \A s \in SUBSET T : h[s] = F(s)
    BY <1>7
  <2>2. h = [s \in SUBSET T |-> h[s]]
    OBVIOUS
  <2> HIDE DEF h, F
  <2>3. [s \in SUBSET T |-> h[s]] = [s \in SUBSET T |-> F(s)]
    BY <2>1
  <2> QED BY <2>2, <2>3
<1> HIDE DEF h
<1>9. Adds(h, T)
  BY <1>8 DEF Adds
<1> QED BY <1>3, <1>9

\* No pass counts for more than k: the sum lies between the passes that are in and
\* k times as many.
LEMMA SumBounds ==
    ASSUME NEW S, IsFiniteSet(S), S \subseteq Passes, NEW k \in Nat,
           \A p \in Passes : entries[p] \in 0 .. k, NEW g, Adds(g, S)
    PROVE  /\ g[S] \in Nat
           /\ Cardinality(Inside \cap S) <= g[S]
           /\ g[S] <= Cardinality(Inside \cap S) * k
<1> DEFINE Within(s) == LET n == Cardinality(Inside \cap s) IN g[s] \in Nat /\ n <= g[s] /\ g[s] <= n * k
           B == {s \in SUBSET S : ~ Within(s)}
<1> SUFFICES ASSUME B # {} PROVE FALSE
  OBVIOUS
<1>1. B \subseteq SUBSET S
  OBVIOUS
<1>2. PICK s \in B : \A r \in B : ~ (r \subseteq s /\ r # s)
  <2> HIDE DEF B
  <2> QED BY <1>1, Smallest
<1>3. s \in SUBSET S /\ ~ Within(s)
  OBVIOUS
<1>4. ASSUME NEW r, r \subseteq s, r # s PROVE Within(r)
  BY <1>2, <1>3, <1>4
<1> HIDE DEF B
<1>5. g[s] = IF s = {} THEN 0 ELSE entries[Picked(s)] + g[s \ {Picked(s)}]
  BY <1>3, AddsIs
<1>6. CASE s = {}
  <2>1. Cardinality(Inside \cap s) = 0 /\ g[s] = 0
    BY <1>5, <1>6, FS_EmptySet
  <2>2. 0 <= 0 * k
    OBVIOUS
  <2> QED BY <1>3, <2>1, <2>2
<1>7. CASE s # {}
  <2>1. PICK x, r : x = Picked(s) /\ r = s \ {x}
    OBVIOUS
  <2>2. x \in s /\ r \subseteq s /\ r # s /\ x \in Passes /\ x \notin r
    BY <1>3, <1>7, <2>1, PickedIsIn
  <2>3. PICK e \in 0 .. k : e = entries[x]
    BY <2>2
  <2>4. PICK c, n : c = Cardinality(Inside \cap r) /\ n = g[r]
    OBVIOUS
  <2>5. n \in Nat /\ c <= n /\ n <= c * k
    BY <1>4, <2>2, <2>4
  <2>6. g[s] = e + n
    BY <1>5, <1>7, <2>1, <2>3, <2>4
  <2>7. IsFiniteSet(Inside \cap r)
    BY <1>3, <2>2, FS_Subset
  <2>8. c \in Nat
    BY <2>4, <2>7, FS_CardinalityType
  <2>9. CASE e = 0
    <3>1. Inside \cap s = Inside \cap r
      <4>1. x \notin Inside
        <5>1. ~ (entries[x] > 0)
          BY <2>3, <2>9
        <5>2. \A y \in Inside : entries[y] > 0
          BY DEF Inside
        <5> QED BY <5>1, <5>2
      <4> QED BY <2>1, <2>2, <4>1
    <3>2. g[s] = n
      BY <2>5, <2>6, <2>9
    <3> QED BY <1>3, <2>4, <2>5, <3>1, <3>2
  <2>10. CASE e # 0
    <3>1. Inside \cap s = (Inside \cap r) \cup {x} /\ x \notin Inside \cap r
      BY <2>1, <2>2, <2>3, <2>10 DEF Inside
    <3>2. Cardinality(Inside \cap s) = c + 1
      BY <2>4, <2>7, <3>1, FS_AddElement
    <3>3. (c + 1) * k = c * k + k /\ c * k \in Nat
      BY <2>8
    <3>4. PICK ck \in Nat : ck = c * k
      BY <3>3
    <3>5. e + n \in Nat /\ c + 1 <= e + n /\ e + n <= ck + k
      BY <2>3, <2>5, <2>8, <2>10, <3>4
    <3> QED BY <1>3, <2>6, <3>2, <3>3, <3>4, <3>5
  <2> QED BY <2>9, <2>10
<1> QED BY <1>6, <1>7

LEMMA CheckedInBounds ==
    ASSUME IsFiniteSet(Hosts), NEW k \in Nat, \A p \in Passes : entries[p] \in 0 .. k
    PROVE  CheckedIn >= Cardinality(Inside) /\ CheckedIn <= Cardinality(Inside) * k
<1>1. IsFiniteSet(Passes)
  <2>1. IsFiniteSet({"primary"} \cup {"plus_one"})
    BY FS_Singleton, FS_Union
  <2>2. {"primary"} \cup {"plus_one"} = {"primary", "plus_one"}
    OBVIOUS
  <2> QED BY <2>1, <2>2, FS_Product DEF Passes
<1>2. PICK g : g = (CHOOSE f : Adds(f, Passes))
  OBVIOUS
<1>3. Adds(g, Passes)
  BY <1>1, <1>2, SumExists
<1>4. CheckedIn = g[Passes]
  BY <1>2, CheckedInIs
<1>5. Inside \cap Passes = Inside
  BY DEF Inside
<1>6. /\ g[Passes] \in Nat
      /\ Cardinality(Inside \cap Passes) <= g[Passes]
      /\ g[Passes] <= Cardinality(Inside \cap Passes) * k
  BY <1>1, <1>3, SumBounds
<1>7. Cardinality(Inside) \in Nat
  BY <1>1, <1>5, FS_Subset, FS_CardinalityType
<1>8. PICK n, m : n = Cardinality(Inside) /\ m = n * k
  OBVIOUS
<1>9. m \in Nat
  BY <1>7, <1>8
<1> QED BY <1>4, <1>5, <1>6, <1>7, <1>8, <1>9

(***************************************************************************)
(* How often a pass gets in.                                               *)
(***************************************************************************)
\* Scans under way; those of no phone any more; those about to let p in.
Scans == {w \in Workers : req[w].pc \in Scanning}
Orphans == {w \in Scans : call[w].by = Nobody}
Entering(p) == {w \in Workers : At(w, "enter") /\ Pass(w) = p}

\* Every scan is a phone's, unless its answer was lost.
Owned == \A w \in Scans : w \in Orphans \/ (call[w].of = "phone" /\ call[w].by \in Phones)
Few == Cardinality(Orphans) <= losses

\* The scans that would let a pass in were there before the first of them did.
Admitted == \A p \in Passes : entries[p] + Cardinality(Entering(p)) <= Cardinality(Phones) + losses

LEMMA FinitePart == ASSUME NEW S, S \subseteq Workers PROVE IsFiniteSet(S) /\ Cardinality(S) \in Nat
BY FS_Subset, FS_CardinalityType, ScreensAssumption

LEMMA FiniteScans ==
    /\ IsFiniteSet(Scans) /\ IsFiniteSet(Orphans) /\ \A p : IsFiniteSet(Entering(p))
    /\ IsFiniteSet(Scans)' /\ IsFiniteSet(Orphans)' /\ \A p : IsFiniteSet(Entering(p))'
    /\ Cardinality(Phones) \in Nat
<1>1. Scans \subseteq Workers /\ Orphans \subseteq Workers /\ \A p : Entering(p) \subseteq Workers
  BY DEF Scans, Orphans, Entering
<1>2. Scans' \subseteq Workers /\ Orphans' \subseteq Workers /\ \A p : Entering(p)' \subseteq Workers
  BY DEF Scans, Orphans, Entering
<1> QED BY <1>1, <1>2, FinitePart, FS_CardinalityType, ScreensAssumption

\* Requests that are one to a phone, but for some that are nobody's.
LEMMA OneEach ==
    ASSUME NEW S, NEW O, O \subseteq S, S \subseteq Workers, NEW l \in Nat, Cardinality(O) <= l, NEW by,
           \A w \in S \ O : by[w] \in Phones, \A v, w \in S \ O : by[v] = by[w] => v = w
    PROVE  Cardinality(S) <= Cardinality(Phones) + l
<1>1. PICK M : M = S \ O
  OBVIOUS
<1>2. PICK f : f = [w \in M |-> by[w]]
  OBVIOUS
<1>3. f \in [M -> Phones] /\ \A v, w \in M : f[v] = f[w] => v = w
  BY <1>1, <1>2
<1>4. f \in Injection(M, Phones)
  BY <1>3 DEF Injection, IsInjective
<1>5. Cardinality(M) <= Cardinality(Phones)
  BY <1>4, FS_Injection, ScreensAssumption
<1>6. Cardinality(M) = Cardinality(S) - Cardinality(S \cap O)
  BY <1>1, FinitePart, FS_Difference
<1>7. S \cap O = O
  OBVIOUS
<1>8. Cardinality(O) \in Nat /\ Cardinality(S) \in Nat /\ Cardinality(Phones) \in Nat
  BY FinitePart, FiniteScans
<1>9. PICK m, s, o, n : m = Cardinality(M) /\ s = Cardinality(S) /\ o = Cardinality(O) /\ n = Cardinality(Phones)
  OBVIOUS
<1>10. m = s - o /\ m <= n /\ o <= l /\ s \in Nat /\ o \in Nat /\ n \in Nat
  BY <1>5, <1>6, <1>7, <1>8, <1>9
<1> QED BY <1>9, <1>10

\* After a step too, a phone waits for one scan at a time.
LEMMA ScansBound ==
    ASSUME losses' \in Nat, Waiting', Owned', Few'
    PROVE  Cardinality(Scans)' <= Cardinality(Phones) + losses'
<1>1. PICK by : by = [w \in Workers |-> call'[w].by]
  OBVIOUS
<1>2. ASSUME NEW w \in Scans' \ Orphans' PROVE w \in Workers /\ by[w] \in Phones /\ w \in Asking("phone", by[w])'
  BY <1>1 DEF Owned, Scans, Asking
<1>3. ASSUME NEW v \in Scans' \ Orphans', NEW w \in Scans' \ Orphans', by[v] = by[w] PROVE v = w
  BY <1>2, <1>3 DEF Waiting, Waits
<1>4. Orphans' \subseteq Scans' /\ Scans' \subseteq Workers
  BY DEF Orphans, Scans
<1> QED BY <1>2, <1>3, <1>4, OneEach DEF Few

\* What a request becomes: it is about to admit only after it has looked at the
\* earlier entries, and scans only if it was sent to or did so before.
LEMMA Becomes ==
    ASSUME Inv, NEW w \in Workers, Arrive(w) \/ Proceed(w)
    PROVE  \E r : /\ Become(w, r)
                  /\ r.pc = "enter" => ScanSeen(w) /\ r.host = req[w].host /\ r.kind = req[w].kind
                  /\ r.pc \in Scanning => req[w].pc \in Scanning \/ \E p \in Passes : ScanTicket(w, p)
<1>1. req[w] \in Requests /\ Idle.pc = "idle"
  BY DEF Inv, TypeOK, Idle
<1>2. ASSUME Finish(w) PROVE Become(w, Idle) /\ Idle.pc \notin Scanning /\ Idle.pc # "enter"
  BY <1>1, <1>2 DEF Finish, Scanning
<1>3. ASSUME NEW h \in Hosts, EnsureStart(w, h) PROVE \E r : Become(w, r) /\ r.pc \notin Scanning
  <2>1. [Idle EXCEPT !.pc = "ensure", !.host = h].pc \notin Scanning
    BY DEF Idle, Scanning
  <2> QED BY <1>3, <2>1 DEF EnsureStart
<1>4. ASSUME NEW h \in Hosts, NEW u \in Users, ClaimParse(w, u, h) PROVE \E r : Become(w, r) /\ r.pc \notin Scanning
  <2>1. PICK late : Become(w, [Idle EXCEPT !.pc = "claim", !.user = u, !.host = h, !.late = late])
    BY <1>4 DEF ClaimParse
  <2>2. [Idle EXCEPT !.pc = "claim", !.user = u, !.host = h, !.late = late].pc \notin Scanning
    BY DEF Idle, Scanning
  <2> QED BY <2>1, <2>2
<1>5. ASSUME NEW p \in Passes, ScanTicket(w, p) PROVE \E r : Become(w, r) /\ r.pc # "enter"
  <2>1. PICK pc \in {"parent", "seen"}, late \in BOOLEAN :
          Become(w, [Idle EXCEPT !.pc = pc, !.host = Host(p), !.kind = p[2], !.late = late])
    <3>1. (entries[p] > 0 \/ Host(p) \in removed) \in BOOLEAN
      OBVIOUS
    <3>2. (IF p[2] = "plus_one" THEN "parent" ELSE "seen") \in {"parent", "seen"}
      OBVIOUS
    <3> QED BY <1>5, <3>1, <3>2 DEF ScanTicket
  <2>2. [Idle EXCEPT !.pc = pc, !.host = Host(p), !.kind = p[2], !.late = late].pc # "enter"
    BY DEF Idle
  <2> QED BY <2>1, <2>2
<1>6. ASSUME ~ Finish(w), EnsureRead(w) \/ ClaimRead(w) PROVE \E r : Become(w, r) /\ r.pc \notin Scanning
  <2>1. \A pc \in {"insert", "rotate", "claiming"} : \A k :
          /\ [req[w] EXCEPT !.pc = pc].pc \notin Scanning
          /\ [req[w] EXCEPT !.pc = pc, !.rotation = k].pc \notin Scanning
    BY <1>1 DEF Requests, Scanning
  <2>2. \E pc \in {"insert", "rotate", "claiming"} : \E k :
          \/ Become(w, [req[w] EXCEPT !.pc = pc])
          \/ Become(w, [req[w] EXCEPT !.pc = pc, !.rotation = k])
    BY <1>6 DEF EnsureRead, ClaimRead
  <2> QED BY <2>1, <2>2
<1>7. ASSUME ~ Finish(w), ScanParent(w) PROVE req[w].pc \in Scanning /\ \E r : Become(w, r) /\ r.pc # "enter"
  <2>1. [req[w] EXCEPT !.pc = "seen"].pc # "enter"
    BY <1>1 DEF Requests
  <2> QED BY <1>7, <2>1 DEF ScanParent, At, Scanning
<1>8. ASSUME ~ Finish(w), ScanSeen(w)
      PROVE  req[w].pc \in Scanning /\ \E r : Become(w, r) /\ r.host = req[w].host /\ r.kind = req[w].kind
  <2>1. /\ [req[w] EXCEPT !.pc = "enter"].host = req[w].host
        /\ [req[w] EXCEPT !.pc = "enter"].kind = req[w].kind
    BY <1>1 DEF Requests
  <2> QED BY <1>8, <2>1 DEF ScanSeen, At, Scanning
<1>9. "enter" \in Scanning
  BY DEF Scanning
<1>10. CASE Arrive(w)
  BY <1>3, <1>4, <1>5, <1>9, <1>10 DEF Arrive
<1>11. CASE Finish(w)
  BY <1>2, <1>11
<1>12. CASE Proceed(w) /\ ~ Finish(w)
  BY <1>6, <1>7, <1>8, <1>9, <1>12 DEF Proceed, EnsureInsert, EnsureRotate, ClaimCommit, ScanEnter, Abort
<1> QED BY <1>10, <1>11, <1>12

\* A step of one request.
LEMMA AdmittedStep ==
    ASSUME Inv, Admitted, NEW w \in Workers, Arrive(w) \/ Proceed(w), losses \in Nat, losses' \in Nat,
           losses' >= losses, Cardinality(Scans)' <= Cardinality(Phones) + losses'
    PROVE  Admitted'
<1> SUFFICES ASSUME NEW p \in Passes
             PROVE  entries'[p] + Cardinality(Entering(p))' <= Cardinality(Phones) + losses'
  BY DEF Admitted
<1>1. PICK r : /\ Become(w, r)
               /\ r.pc = "enter" => ScanSeen(w) /\ r.host = req[w].host /\ r.kind = req[w].kind
  BY Becomes
<1>2. req'[w] = r /\ \A v \in Workers : v # w => req'[v] = req[v]
  BY <1>1, OneRequest
<1>3. IsFiniteSet(Scans)' /\ IsFiniteSet(Entering(p)) /\ IsFiniteSet(Entering(p))'
  BY FiniteScans
<1>4. PICK e \in Nat : e = entries[p]
  BY DEF Inv, TypeOK
<1>5. PICK f, n, k, l, s, a, b :
        /\ f = entries'[p] /\ n = Cardinality(Phones) /\ k = Cardinality(Entering(p))
        /\ l = Cardinality(Entering(p))' /\ s = Cardinality(Scans)' /\ a = losses /\ b = losses'
  OBVIOUS
<1>6. /\ n \in Nat /\ k \in Nat /\ l \in Nat /\ s \in Nat /\ e \in Nat /\ a \in Nat /\ b \in Nat
      /\ a <= b /\ e + k <= n + a /\ s <= n + b
  <2>1. n \in Nat
    BY <1>5, FiniteScans
  <2>2. k \in Nat /\ l \in Nat /\ s \in Nat
    BY <1>3, <1>5, FS_CardinalityType
  <2> QED BY <1>4, <1>5, <2>1, <2>2 DEF Admitted
<1>7. ASSUME f = e, Entering(p)' \subseteq Entering(p) PROVE f + l <= n + b
  <2>1. l <= k
    BY <1>3, <1>5, <1>7, FS_Subset
  <2> QED BY <1>6, <1>7, <2>1
<1>8. ASSUME ScanEnter(w), p = Pass(w) PROVE f + l <= n + b
  <2>1. f = e + 1
    BY <1>4, <1>5, <1>8 DEF ScanEnter, Inv, TypeOK
  <2>2. w \in Entering(p) /\ r = Idle
    BY <1>2, <1>8 DEF ScanEnter, Entering, Finish, Become, Inv, TypeOK
  <2>3. r.pc # "enter"
    BY <2>2 DEF Idle
  <2>4. Entering(p)' = Entering(p) \ {w}
    BY <1>2, <2>3 DEF Entering, At, Pass
  <2>5. l = k - 1
    BY <1>3, <1>5, <2>2, <2>4, FS_RemoveElement
  <2> QED BY <1>4, <1>6, <2>1, <2>5
<1>9. ASSUME ScanSeen(w), p = Pass(w), entries[p] = 0 PROVE f + l <= n + b
  <2>1. f = 0
    BY <1>5, <1>9 DEF ScanSeen
  <2>2. Entering(p)' \subseteq Scans'
    BY DEF Entering, Scans, At, Scanning
  <2>3. l <= s
    BY <1>3, <1>5, <2>2, FS_Subset
  <2> QED BY <1>6, <2>1, <2>3
<1>10. CASE ~ ScanEnter(w)
  <2>1. f = e
    BY <1>4, <1>5, <1>10 DEF Arrive, Proceed, EnsureStart, ClaimParse, ScanTicket, EnsureRead, EnsureInsert, EnsureRotate,
       ClaimRead, ClaimCommit, ScanParent, ScanSeen, Abort
  <2>2. CASE r.pc = "enter" /\ p = Pass(w)
    <3>1. ScanSeen(w)
      BY <1>1, <2>2
    <3>2. r # Idle
      BY <2>2 DEF Idle
    <3>3. ~ (entries[p] > 0)
      <4>1. ~ Finish(w)
        BY <1>2, <3>2 DEF Finish, Become, Inv, TypeOK
      <4> QED BY <2>2, <3>1, <4>1 DEF ScanSeen
    <3>4. e = 0
      BY <1>4, <3>3
    <3> QED BY <1>4, <1>5, <1>9, <2>2, <3>1, <3>4
  <2>3. CASE ~ (r.pc = "enter" /\ p = Pass(w))
    <3>1. Entering(p)' \subseteq Entering(p)
      <4>1. ASSUME NEW v \in Entering(p)' PROVE v \in Entering(p)
        <5>1. v \in Workers /\ req'[v].pc = "enter" /\ <<req'[v].host, req'[v].kind>> = p
          BY DEF Entering, At, Pass
        <5>2. v # w
          BY <1>1, <1>2, <2>3, <5>1 DEF Pass
        <5> QED BY <1>2, <5>1, <5>2 DEF Entering, At, Pass
      <4> QED BY <4>1
    <3> QED BY <1>5, <1>7, <2>1, <3>1
  <2> QED BY <2>2, <2>3
<1>11. CASE ScanEnter(w) /\ p # Pass(w)
  <2>1. f = e
    BY <1>4, <1>5, <1>11 DEF ScanEnter, Inv, TypeOK
  <2>2. r = Idle
    BY <1>2, <1>11 DEF ScanEnter, Finish, Become, Inv, TypeOK
  <2>3. r.pc # "enter"
    BY <2>2 DEF Idle
  <2>4. Entering(p)' \subseteq Entering(p)
    BY <1>2, <2>3 DEF Entering, At, Pass
  <2> QED BY <1>5, <1>7, <2>1, <2>4
<1> QED BY <1>5, <1>8, <1>10, <1>11

LEMMA AdmittedKept ==
    ASSUME Inv, Admitted, [Next]_vars, losses \in Nat, losses' \in Nat,
           losses' >= losses, Cardinality(Scans)' <= Cardinality(Phones) + losses'
    PROVE  Admitted'
<1>1. CASE \E w \in Workers : Arrive(w) \/ Proceed(w)
  BY <1>1, AdmittedStep
<1>2. CASE ~ \E w \in Workers : Arrive(w) \/ Proceed(w)
  <2>1. entries' = entries /\ req' = req
    BY <1>2 DEF Next, vars, RevokeLink, Remove, SetStatus
  <2> SUFFICES ASSUME NEW p \in Passes
               PROVE  entries'[p] + Cardinality(Entering(p))' <= Cardinality(Phones) + losses'
    BY DEF Admitted
  <2>2. Entering(p)' = Entering(p)
    BY <2>1 DEF Entering, At, Pass
  <2>3. Cardinality(Entering(p)) \in Nat /\ Cardinality(Phones) \in Nat
    BY FiniteScans, FS_CardinalityType
  <2>4. PICK n, k, e : n = Cardinality(Phones) /\ k = Cardinality(Entering(p)) /\ e = entries[p]
    OBVIOUS
  <2>5. n \in Nat /\ k \in Nat /\ e \in Nat /\ e + k <= n + losses
    BY <2>3, <2>4 DEF Inv, TypeOK, Admitted
  <2>6. e + k <= n + losses'
    <3>1. PICK a, b : a = losses /\ b = losses'
      OBVIOUS
    <3>2. e + k <= n + a /\ a <= b /\ a \in Nat /\ b \in Nat
      BY <2>5, <3>1
    <3>3. e + k <= n + b
      BY <2>5, <3>2
    <3> QED BY <3>1, <3>3
  <2>7. entries'[p] = e /\ Cardinality(Entering(p))' = k
    BY <2>1, <2>2, <2>4
  <2> QED BY <2>4, <2>6, <2>7
<1> QED BY <1>1, <1>2

\* No scan begins without a phone, and none is orphaned but by a lost answer.
LEMMA OwnedStep ==
    ASSUME Owned, Few, losses' >= losses, losses \in Nat, losses' \in Nat,
           \A v \in Scans' : \/ v \in Scans /\ call'[v] = call[v]
                             \/ call'[v].of = "phone" /\ call'[v].by \in Phones
    PROVE  Owned' /\ Few'
<1>1. Owned'
  BY DEF Owned, Orphans
<1>2. Orphans' \subseteq Orphans
  BY NobodyIsNoOne DEF Orphans, Someone
<1>3. Cardinality(Orphans)' <= Cardinality(Orphans)
  BY <1>2, FiniteScans, FS_Subset
<1>4. Cardinality(Orphans)' \in Nat /\ Cardinality(Orphans) \in Nat
  BY FiniteScans, FS_CardinalityType
<1> QED BY <1>1, <1>3, <1>4 DEF Few

LEMMA OwnedKept ==
    ASSUME Inv, Pages, Counted, Owned, Few, losses' \in Nat, [ScreensNext]_<<vars, screens>>
    PROVE  Owned' /\ Few' /\ losses' >= losses
<1>1. losses \in Nat /\ call \in [Workers -> Calls]
  BY ScreensAssumption DEF Counted, Pages
<1>2. ASSUME losses' >= losses, UNCHANGED <<req, call>> PROVE Owned' /\ Few' /\ losses' >= losses
  <2>1. \A v \in Scans' : v \in Scans /\ call'[v] = call[v]
    BY <1>2 DEF Scans
  <2> QED BY <1>1, <1>2, <2>1, OwnedStep
\* a screen sends a request
<1>3. ASSUME NEW w \in Workers, NEW r, Become(w, r), NEW s \in Screen, NEW x \in Someone, Ask(w, s, x),
             losses' = losses, r.pc \in Scanning => s = "phone" /\ x \in Phones
      PROVE  Owned' /\ Few' /\ losses' >= losses
  <2>1. req'[w] = r /\ \A v \in Workers : v # w => req'[v] = req[v]
    BY <1>3, OneRequest
  <2>2. PICK c : c = [of |-> s, by |-> x, ok |-> FALSE]
    OBVIOUS
  <2>3. call' = [call EXCEPT ![w] = c] /\ c.of = s /\ c.by = x
    BY <1>3, <2>2 DEF Ask
  <2>4. call'[w] = c /\ \A v \in Workers : v # w => call'[v] = call[v]
    BY <1>1, <2>3
  <2>5. \A v \in Scans' : \/ v \in Scans /\ call'[v] = call[v]
                          \/ call'[v].of = "phone" /\ call'[v].by \in Phones
    BY <1>3, <2>1, <2>3, <2>4 DEF Scans
  <2>6. losses' >= losses
    BY <1>1, <1>3
  <2> QED BY <1>1, <2>5, <2>6, OwnedStep
\* the API goes on with one
<1>4. ASSUME NEW w \in Workers, Proceed(w), ~ At(w, "idle"), losses' = losses,
             GoesOn \/ (req'[w] = Idle /\ \E ok : Ends(w, ok))
      PROVE  Owned' /\ Few' /\ losses' >= losses
  <2>1. PICK r : Become(w, r) /\ (r.pc \in Scanning => req[w].pc \in Scanning \/ \E p \in Passes : ScanTicket(w, p))
    BY <1>4, Becomes
  <2>2. req'[w] = r /\ \A v \in Workers : v # w => req'[v] = req[v]
    BY <2>1, OneRequest
  <2>3. \A p \in Passes : ~ ScanTicket(w, p)
    BY <1>4 DEF ScanTicket
  <2>4. call'[w] = call[w] \/ r.pc \notin Scanning
    BY <1>4, <2>2 DEF GoesOn, Idle, Scanning
  <2>5. \A v \in Workers : v # w => call'[v] = call[v]
    BY <1>1, <1>4 DEF GoesOn, Ends
  <2>6. \A v \in Scans' : v \in Scans /\ call'[v] = call[v]
    BY <2>1, <2>2, <2>3, <2>4, <2>5 DEF Scans
  <2>7. losses' >= losses
    BY <1>1, <1>4
  <2> QED BY <1>1, <2>6, <2>7, OwnedStep
<1>5. ASSUME NEW d \in Phones, AtTheDoor(d) PROVE Owned' /\ Few' /\ losses' >= losses
  <2>1. losses' = losses /\ losses' >= losses
    BY <1>1, <1>5 DEF AtTheDoor, Glimpse, ScanDenied, Scan, LookUp, Cool, Forget
  <2>2. CASE UNCHANGED <<req, call>>
    BY <1>2, <2>1, <2>2
  <2>3. ASSUME NEW w \in Workers, NEW p \in Passes, ScanTicket(w, p), Ask(w, "phone", d)
        PROVE  Owned' /\ Few' /\ losses' >= losses
    <3>1. d \in Someone /\ "phone" \in Screen
      BY DEF Someone, Screen
    <3>2. PICK r : Become(w, r)
      BY <2>3 DEF ScanTicket
    <3> QED BY <1>3, <2>1, <2>3, <3>1, <3>2
  <2> QED BY <1>5, <2>2, <2>3 DEF AtTheDoor, Glimpse, ScanDenied, Scan, LookUp, Cool, Forget, vars, Found, PassesOf
<1>6. ASSUME NEW h \in Hosts, OnTheCard(h) PROVE Owned' /\ Few' /\ losses' >= losses
  <2>1. losses' >= losses
    BY <1>1, <1>6 DEF OnTheCard, Visit, FetchRead, FetchArrives, FetchFails, Create, ClickRevoke, Revoke, RevokeHeard
  <2>2. CASE UNCHANGED <<req, call>>
    BY <1>2, <2>1, <2>2
  <2>3. ASSUME NEW w \in Workers, Create(h, w) PROVE Owned' /\ Few' /\ losses' >= losses
    <3>1. EnsureStart(w, h) /\ Ask(w, "card", h) /\ losses' = losses
      BY <2>3 DEF Create
    <3>2. h \in Someone /\ "card" \in Screen
      BY TransfersAssumption DEF Someone, Screen
    <3>3. PICK r : Become(w, r) /\ r.pc \notin Scanning
      <4>1. [Idle EXCEPT !.pc = "ensure", !.host = h].pc \notin Scanning
        BY DEF Idle, Scanning
      <4> QED BY <3>1, <4>1 DEF EnsureStart
    <3> QED BY <1>3, <3>1, <3>2, <3>3
  <2> QED BY <1>6, <2>2, <2>3 DEF OnTheCard, Visit, FetchRead, FetchArrives, FetchFails, ClickRevoke, Revoke, RevokeHeard,
      RevokeLink, vars
<1>7. ASSUME NEW u \in Users, OnTheClaimPage(u) PROVE Owned' /\ Few' /\ losses' >= losses
  <2>0. losses' = losses
    BY <1>7 DEF OnTheClaimPage, Open, Preview, Claim
  <2>1. losses' = losses /\ losses' >= losses
    BY <1>1, <2>0
  <2>2. CASE Preview(u)
    BY <1>2, <2>1, <2>2 DEF Preview, vars
  <2>3. ASSUME NEW h \in Hosts, Open(h, u) PROVE Owned' /\ Few' /\ losses' >= losses
    <3>1. /\ call' = [w \in Workers |-> IF w \in Asking("visitor", u) THEN NoCall ELSE call[w]]
          /\ req' = req
      BY <2>3 DEF Open, vars
    <3>2. \A w \in Scans : w \notin Asking("visitor", u)
      BY NobodyIsNoOne DEF Owned, Orphans, Asking, Someone
    <3>3. \A v \in Scans' : v \in Scans /\ call'[v] = call[v]
      BY <3>1, <3>2 DEF Scans
    <3> QED BY <1>1, <2>1, <3>3, OwnedStep
  <2>4. ASSUME NEW w \in Workers, Claim(u, w) PROVE Owned' /\ Few' /\ losses' >= losses
    <3>1. ClaimParse(w, u, visitor[u].from) /\ Ask(w, "visitor", u)
      BY <2>4 DEF Claim
    <3>2. u \in Someone /\ "visitor" \in Screen
      BY DEF Someone, Screen
    <3>3. PICK r : Become(w, r) /\ r.pc \notin Scanning
      <4>1. PICK h, late : Become(w, [Idle EXCEPT !.pc = "claim", !.user = u, !.host = h, !.late = late])
        BY <3>1 DEF ClaimParse
      <4>2. [Idle EXCEPT !.pc = "claim", !.user = u, !.host = h, !.late = late].pc \notin Scanning
        BY DEF Idle, Scanning
      <4> QED BY <4>1, <4>2
    <3> QED BY <1>3, <2>1, <3>1, <3>2, <3>3
  <2> QED BY <1>7, <2>2, <2>3, <2>4 DEF OnTheClaimPage
<1>8. ASSUME NEW w \in Workers, InTheApi(w) PROVE Owned' /\ Few' /\ losses' >= losses
  <2>1. CASE Hear(w)
    <3>1. At(w, "idle") /\ call' = [call EXCEPT ![w] = NoCall] /\ req' = req /\ losses' = losses
      BY <2>1 DEF Hear, vars
    <3>2. \A v \in Scans' : v \in Scans /\ call'[v] = call[v]
      BY <1>1, <3>1 DEF Scans, At, Scanning
    <3>3. losses' >= losses
      BY <1>1, <3>1
    <3> QED BY <1>1, <3>2, <3>3, OwnedStep
  <2>2. CASE Lose(w)
    <3>1. call' = [call EXCEPT ![w] = NoCall] /\ req' = req /\ losses' = losses + 1
      BY <2>2 DEF Lose, vars
    <3>2. NoCall.by = Nobody /\ call'[w] = NoCall /\ \A v \in Workers : v # w => call'[v] = call[v]
      BY <1>1, <3>1 DEF NoCall
    <3>3. Scans' = Scans
      BY <3>1 DEF Scans
    <3>4. Orphans' \subseteq Orphans \cup {w}
      BY <3>2, <3>3 DEF Orphans, Scans
    <3>5. Owned'
      BY <3>2, <3>3 DEF Owned, Orphans, Scans
    <3>6. IsFiniteSet(Orphans) /\ IsFiniteSet(Orphans)'
      BY FiniteScans
    <3>7. IsFiniteSet(Orphans \cup {w}) /\ Cardinality(Orphans \cup {w}) <= Cardinality(Orphans) + 1
      <4>1. Cardinality(Orphans) \in Nat
        BY <3>6, FS_CardinalityType
      <4> QED BY <3>6, <4>1, FS_AddElement
    <3>8. Cardinality(Orphans)' <= Cardinality(Orphans \cup {w})
      BY <3>4, <3>7, FS_Subset
    <3>9. Cardinality(Orphans) \in Nat /\ Cardinality(Orphans)' \in Nat /\ Cardinality(Orphans \cup {w}) \in Nat
      BY <3>6, <3>7, FS_CardinalityType
    <3>10. Few'
      BY <1>1, <3>1, <3>7, <3>8, <3>9 DEF Few
    <3>11. losses' >= losses
      BY <1>1, <3>1
    <3> QED BY <3>5, <3>10, <3>11
  <2>3. CASE CreateGoesOn(w) \/ ClaimGoesOn(w) \/ ScanGoesOn(w) \/ Dies(w)
    <3>1. losses' = losses
      BY <2>3 DEF CreateGoesOn, ClaimGoesOn, ScanGoesOn, Dies, Quiet
    <3>2. Proceed(w) /\ ~ At(w, "idle")
      BY <2>3 DEF CreateGoesOn, ClaimGoesOn, ScanGoesOn, Dies, Proceed, EnsureRead, EnsureInsert, EnsureRotate,
         ClaimRead, ClaimCommit, ScanParent, ScanSeen, ScanEnter, Abort, At
    <3>3. Finish(w) => req'[w] = Idle
      BY OneRequest DEF Finish
    <3>4. GoesOn \/ (req'[w] = Idle /\ \E ok : Ends(w, ok))
      BY <2>3, <3>3 DEF CreateGoesOn, ClaimGoesOn, ScanGoesOn, Dies, EnsureInsert, EnsureRotate, ClaimCommit, Abort
    <3> QED BY <1>4, <3>1, <3>2, <3>4
  <2> QED BY <1>8, <2>1, <2>2, <2>3 DEF InTheApi
<1>9. CASE Elsewhere
  <2>1. losses' >= losses /\ UNCHANGED <<req, call>>
    BY <1>1, <1>9 DEF Elsewhere, SetStatus, Remove
  <2> QED BY <1>2, <2>1
<1>10. CASE UNCHANGED <<vars, screens>>
  <2>1. losses' >= losses /\ UNCHANGED <<req, call>>
    BY <1>1, <1>10 DEF vars, screens
  <2> QED BY <1>2, <2>1
<1> QED BY <1>5, <1>6, <1>7, <1>8, <1>9, <1>10 DEF ScreensNext

LEMMA AdmittedInit == ScreensInit => Owned /\ Few /\ Admitted
<1> SUFFICES ASSUME ScreensInit PROVE Owned /\ Few /\ Admitted
  OBVIOUS
<1>1. \A w \in Workers : req[w].pc = "idle"
  BY DEF ScreensInit, Init, Idle
<1>2. Scans = {} /\ Orphans = {} /\ \A p : Entering(p) = {}
  BY <1>1 DEF Scans, Orphans, Entering, Scanning, At
<1>3. losses = 0 /\ \A p \in Passes : entries[p] = 0
  BY DEF ScreensInit, Init
<1>4. Cardinality(Phones) \in Nat /\ Cardinality({}) = 0
  BY FiniteScans, FS_EmptySet
<1> QED BY <1>2, <1>3, <1>4 DEF Owned, Few, Admitted

\* A pass gets in once, and again only by scans that raced at another phone or that
\* a phone had given up; what the door's page calls checked in is no less than
\* the passes that are in, and more by those races alone.
THEOREM PassesEnterOnce == ScreensSpec => []OneEntryPerPhone
<1> DEFINE Keeps == Inv /\ Pages /\ CardsFit /\ Counted /\ Waiting /\ Owned /\ Few /\ Admitted
<1>1. ScreensInit => Keeps
  BY PagesInit, CardsInit, WaitsInit, AdmittedInit
<1>2. Keeps /\ [ScreensNext]_<<vars, screens>> => Keeps'
  <2> SUFFICES ASSUME Keeps, [ScreensNext]_<<vars, screens>> PROVE Keeps'
    OBVIOUS
  <2>1. Inv' /\ Pages' /\ CardsFit' /\ Counted' /\ Waiting'
    BY PagesKept, CardsKept, WaitsKept
  <2>2. losses \in Nat /\ losses' \in Nat
    BY <2>1, ScreensAssumption DEF Counted
  <2>3. Owned' /\ Few' /\ losses' >= losses
    BY <2>2, OwnedKept
  <2>4. Cardinality(Scans)' <= Cardinality(Phones) + losses'
    BY <2>1, <2>2, <2>3, ScansBound
  <2>5. [Next]_vars
    BY StepsOfTransfers DEF Pages, vars, screens
  <2>6. Admitted'
    BY <2>2, <2>3, <2>4, <2>5, AdmittedKept
  <2> QED BY <2>1, <2>3, <2>6
<1>3. Keeps => OneEntryPerPhone
  <2> SUFFICES ASSUME Keeps PROVE OneEntryPerPhone
    OBVIOUS
  <2>1. PICK k \in Nat : k = Cardinality(Phones) + losses
    BY FiniteScans, ScreensAssumption DEF Counted
  <2>2. ASSUME NEW p \in Passes PROVE entries[p] \in 0 .. k
    <3>1. PICK c \in Nat : c = Cardinality(Entering(p))
      BY FiniteScans, FS_CardinalityType
    <3>2. PICK e \in Nat : e = entries[p]
      BY DEF Inv, TypeOK
    <3>3. e + c <= k
      BY <2>1, <3>1, <3>2 DEF Admitted
    <3> QED BY <3>2, <3>3
  <2>3. CheckedIn >= Cardinality(Inside) /\ CheckedIn <= Cardinality(Inside) * k
    BY <2>2, CheckedInBounds, ScreensAssumption
  <2>4. \A p \in Passes : entries[p] <= k
    BY <2>2
  <2> QED BY <2>1, <2>3, <2>4 DEF OneEntryPerPhone
<1> HIDE DEF Keeps
<1> QED BY <1>1, <1>2, <1>3, PTL DEF ScreensSpec
=============================================================================
