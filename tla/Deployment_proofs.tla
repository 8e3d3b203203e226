-------------------------- MODULE Deployment_proofs --------------------------
(***************************************************************************)
(* A deployment for any deployments, symbols, prices, estimates and        *)
(* limits, and any number of launches: who wrote the ledger, what its fill *)
(* rows add up to, what a FILLED row means, what the account covers, why a *)
(* launch halts and that the ledger is only added to.                      *)
(*                                                                         *)
(* In the first part, about who wrote the ledger, rows and sessions are    *)
(* records of which only one field matters, so they are typed as functions *)
(* that have that field; the second part types them in full.               *)
(***************************************************************************)
EXTENDS Deployment, DataLemmas, SequenceTheorems, TLAPS

IsFcn(f) == f = [x \in DOMAIN f |-> f[x]]
IsSeq(q) == \E S : q \in Seq(S)

Owning == {"recover", "compare", "update", "burst", "calling"}

WrittenBy(r, who) == IsFcn(r) /\ "writer" \in DOMAIN r /\ r.writer = who
OpenedBy(s, who) ==
  /\ IsFcn(s) /\ "who" \in DOMAIN s /\ "phase" \in DOMAIN s
  /\ s.who = who /\ who \in Deployments /\ s.phase \in Owning

(* The owner of the ledger: nobody before the first launch, and then the   *)
(* one whose process is running.  What is older has no writer.             *)
OwnedBy(r, who) == WrittenBy(r, who) \/ WrittenBy(r, NoIdentity)
RowsInv ==
  /\ IsSeq(rows)
  /\ \A o \in Orders : OwnedBy(rows[o], identity)
CurveInv ==
  /\ IsSeq(curve)
  /\ \A i \in DOMAIN curve : curve[i] = "unknown" \/ curve[i] = identity.mode
  /\ identity = NoIdentity => \A i \in DOMAIN curve : curve[i] = "unknown"
SessionInv == session.phase \in Owning => OpenedBy(session, identity)
PromotedInv == session.phase = "promoted" => check_ledger_is_paper

OwnerInv == RowsInv /\ CurveInv /\ SessionInv /\ PromotedInv

---------------------------------------------------------------------------
(* Appending keeps what is there and adds one.                             *)
LEMMA AppendOne ==
  ASSUME NEW q, IsSeq(q), NEW r
  PROVE  /\ IsSeq(Append(q, r)) /\ Len(Append(q, r)) = Len(q) + 1 /\ Len(q) \in Nat
         /\ DOMAIN q = 1..Len(q) /\ DOMAIN Append(q, r) = 1..(Len(q) + 1)
         /\ Append(q, r)[Len(q) + 1] = r
         /\ \A i \in 1..Len(q) : Append(q, r)[i] = q[i]
<1>1. PICK S : q \in Seq(S)
  BY DEF IsSeq
<1>2. q \in Seq(S \cup {r})
  BY <1>1
<1>3. Append(q, r) \in Seq(S \cup {r})
  BY <1>2
<1> QED
  BY <1>2, <1>3 DEF IsSeq

(* A function on 1..n is a sequence of length n.                           *)
LEMMA FcnIsSeq ==
  ASSUME NEW n \in Nat, NEW q, IsFcn(q), DOMAIN q = 1..n
  PROVE  IsSeq(q) /\ Len(q) = n
<1>1. q \in [1..n -> {q[i] : i \in 1..n}]
  BY DEF IsFcn
<1>2. q \in Seq({q[i] : i \in 1..n})
  BY <1>1
<1> QED
  BY <1>1, <1>2 DEF IsSeq

(* A sequence is a function on 1..Len.                                     *)
LEMMA SeqIsFcn ==
  ASSUME NEW q, IsSeq(q)
  PROVE  IsFcn(q) /\ Len(q) \in Nat /\ DOMAIN q = 1..Len(q)
BY DEF IsSeq, IsFcn

(* Rows that are rewritten in place, each keeping its writer, still are    *)
(* the rows of the same owner.                                             *)
LEMMA RowsRewritten ==
  ASSUME RowsInv, IsFcn(rows'), DOMAIN rows' = Orders, identity' = identity,
         \A o \in Orders : WrittenBy(rows'[o], rows[o].writer)
  PROVE  RowsInv'
<1>1. Len(rows) \in Nat /\ DOMAIN rows = 1..Len(rows)
  BY SeqIsFcn DEF RowsInv
<1>2. IsSeq(rows') /\ Len(rows') = Len(rows)
  BY <1>1, FcnIsSeq DEF Orders
<1>3. \A o \in Orders : rows[o].writer \in {NoIdentity, identity}
  BY DEF RowsInv, OwnedBy, WrittenBy
<1>4. \A o \in Orders' : OwnedBy(rows'[o], identity')
  BY <1>2, <1>3 DEF Orders, OwnedBy
<1> QED
  BY <1>2, <1>4 DEF RowsInv

(* Closing rows changes their state and their note only.                   *)
LEMMA CloseKeepsWriter ==
  ASSUME NEW r, NEW who, WrittenBy(r, who), NEW a, NEW b
  PROVE  /\ WrittenBy([r EXCEPT !.state = a, !.note = b], who)
         /\ WrittenBy([r EXCEPT !.state = a], who)
         /\ WrittenBy([r EXCEPT !.state = a, !.numbered = b], who)
BY Zenon DEF WrittenBy, IsFcn

(* close_rows, and what Recover does to the rows.                          *)
LEMMA RowsClosed ==
  ASSUME RowsInv, identity' = identity, NEW closing, NEW a, NEW b, close_rows(closing, a, b)
  PROVE  RowsInv'
<1>1. IsFcn(rows') /\ DOMAIN rows' = Orders
  BY DEF close_rows, IsFcn
<1>2. ASSUME NEW o \in Orders PROVE WrittenBy(rows'[o], rows[o].writer)
  <2>1. WrittenBy(rows[o], rows[o].writer)
    BY DEF RowsInv, OwnedBy, WrittenBy
  <2>2. WrittenBy([rows[o] EXCEPT !.state = a, !.note = b], rows[o].writer)
    BY <2>1, CloseKeepsWriter
  <2>3. rows'[o] = IF o \in closing
                   THEN [rows[o] EXCEPT !.state = a, !.note = b] ELSE rows[o]
    BY DEF close_rows
  <2> QED
    BY <2>1, <2>2, <2>3
<1> QED
  BY <1>1, <1>2, RowsRewritten

(* The process's own steps change other fields than its identity.          *)
LEMMA SessionKeepsOwner ==
  ASSUME NEW s, NEW who, OpenedBy(s, who), NEW a \in Owning, NEW b, NEW c, NEW d, NEW e
  PROVE  /\ OpenedBy([s EXCEPT !.phase = a], who)
         /\ OpenedBy([s EXCEPT !.sent = b], who)
         /\ OpenedBy([s EXCEPT !.phase = a, !.sent = b], who)
         /\ OpenedBy([s EXCEPT !.phase = a, !.tracked = b, !.submitted = c], who)
         /\ OpenedBy([s EXCEPT !.phase = a, !.tracked = b, !.held = c, !.cash = d], who)
         /\ OpenedBy([s EXCEPT !.phase = a, !.orphans = b, !.held = c, !.tracked = d], who)
         /\ OpenedBy([s EXCEPT !.phase = a, !.held = b, !.cash = c, !.orphans = d, !.quiet = e], who)
<1>1. \A r : OpenedBy(r, who) => \A x \in Owning : OpenedBy([r EXCEPT !.phase = x], who)
  BY Zenon DEF OpenedBy, IsFcn
<1>2. \A r : OpenedBy(r, who) => \A x : OpenedBy([r EXCEPT !.sent = x], who)
  BY Zenon DEF OpenedBy, IsFcn
<1>3. \A r : OpenedBy(r, who) => \A x : OpenedBy([r EXCEPT !.tracked = x], who)
  BY Zenon DEF OpenedBy, IsFcn
<1>4. \A r : OpenedBy(r, who) => \A x : OpenedBy([r EXCEPT !.submitted = x], who)
  BY Zenon DEF OpenedBy, IsFcn
<1>5. \A r : OpenedBy(r, who) => \A x : OpenedBy([r EXCEPT !.held = x], who)
  BY Zenon DEF OpenedBy, IsFcn
<1>6. \A r : OpenedBy(r, who) => \A x : OpenedBy([r EXCEPT !.cash = x], who)
  BY Zenon DEF OpenedBy, IsFcn
<1>7. \A r : OpenedBy(r, who) => \A x : OpenedBy([r EXCEPT !.orphans = x], who)
  BY Zenon DEF OpenedBy, IsFcn
<1>8. \A r : OpenedBy(r, who) => \A x : OpenedBy([r EXCEPT !.quiet = x], who)
  BY Zenon DEF OpenedBy, IsFcn
<1> QED
  BY <1>1, <1>2, <1>3, <1>4, <1>5, <1>6, <1>7, <1>8, Zenon

(* A process that goes on is its owner's, and one that ended owns nothing. *)
LEMMA SessionMoves ==
  ASSUME OpenedBy(session', identity') \/ session'.phase \in {"none", "settle"}
  PROVE  SessionInv' /\ PromotedInv'
<1>1. CASE OpenedBy(session', identity')
  <2>1. session'.phase \in Owning
    BY <1>1 DEF OpenedBy
  <2> QED
    BY <1>1, <2>1 DEF SessionInv, PromotedInv, Owning
<1>2. CASE session'.phase \in {"none", "settle"}
  BY <1>2 DEF SessionInv, PromotedInv, Owning
<1> QED
  BY <1>1, <1>2

(* A curve that nobody touches keeps its owner.                            *)
LEMMA CurveFrame ==
  ASSUME CurveInv, UNCHANGED <<identity, curve>>
  PROVE  CurveInv'
BY DEF CurveInv

(* Rows that nobody touches keep their owner.                              *)
LEMMA RowsFrame ==
  ASSUME RowsInv, UNCHANGED <<identity, rows>>
  PROVE  RowsInv'
BY DEF RowsInv, Orders

(* A running process is the owner's.                                       *)
LEMMA Running ==
  ASSUME SessionInv, session.phase \in Owning
  PROVE  OpenedBy(session, identity) /\ session.who = identity /\ identity \in Deployments
BY DEF SessionInv, OpenedBy

(* Opening: the identity is written once and never changes.                *)
LEMMA LaunchStep ==
  ASSUME OwnerInv, NEW who \in Deployments, NEW aim, Launch(who, aim)
  PROVE  OwnerInv'
<1>1. identity' = who /\ identity \in {NoIdentity, who}
  BY DEF Launch, stamp_identity
<1>2. rows' = rows /\ curve' = curve
  BY DEF Launch
<1>3. RowsInv'
  <2>1. CASE identity = who
    BY <1>1, <1>2, <2>1, RowsFrame DEF OwnerInv
  <2>2. CASE identity = NoIdentity
    BY <1>2, <2>2 DEF OwnerInv, RowsInv, OwnedBy, Orders
  <2> QED
    BY <1>1, <2>1, <2>2
<1>4. CurveInv'
  <2>1. CASE identity = who
    BY <1>1, <1>2, <2>1, CurveFrame DEF OwnerInv
  <2>2. CASE identity = NoIdentity
    <3>1. \A i \in DOMAIN curve' : curve'[i] = "unknown"
      BY <1>2, <2>2 DEF OwnerInv, CurveInv
    <3> QED
      BY <1>2, <3>1 DEF OwnerInv, CurveInv
  <2> QED
    BY <1>1, <2>1, <2>2
<1>5. OpenedBy(session', identity')
  <2>1. session' = NewSession(who, aim)
    BY DEF Launch
  <2>2. /\ IsFcn(NewSession(who, aim))
        /\ "who" \in DOMAIN NewSession(who, aim) /\ "phase" \in DOMAIN NewSession(who, aim)
    BY DEF NewSession, IsFcn
  <2>3. NewSession(who, aim).who = who /\ NewSession(who, aim).phase = "recover"
    BY DEF NewSession
  <2> QED
    BY <1>1, <2>1, <2>2, <2>3 DEF OpenedBy, Owning
<1> QED
  BY <1>3, <1>4, <1>5, SessionMoves DEF OwnerInv

(* Recovery closes rows and goes on as the same owner.                     *)
LEMMA RecoverStep == ASSUME OwnerInv, Recover PROVE OwnerInv'
<1>1. identity' = identity /\ curve' = curve
  BY DEF Recover
<1>2. OpenedBy(session, identity)
  BY Running DEF OwnerInv, Recover, Owning
<1> DEFINE open == get_open_orders
           orphans == {o \in open : ~rows[o].numbered}
<1>3. PICK report \in ReportsOf(open \ orphans) :
        /\ rows' = [o \in Orders |->
                      IF o \in orphans
                      THEN [rows[o] EXCEPT !.state = "REJECTED", !.note = "orphan"]
                      ELSE IF o \in polled_done(report)
                           THEN [rows[o] EXCEPT !.state = "FILLED"] ELSE rows[o]]
        /\ session' = [session EXCEPT !.phase = "compare", !.orphans = orphans # {},
                          !.held = polled_change(recovered_marks(open \ orphans), report),
                          !.tracked = (open \ orphans) \ polled_done(report)]
  BY Zenon DEF Recover
<1> HIDE DEF open, orphans
<1>4. IsFcn(rows') /\ DOMAIN rows' = Orders
  BY <1>3, Zenon DEF IsFcn
<1>5. ASSUME NEW o \in Orders PROVE WrittenBy(rows'[o], rows[o].writer)
  <2>1. WrittenBy(rows[o], rows[o].writer)
    BY DEF OwnerInv, RowsInv, OwnedBy, WrittenBy
  <2>2. /\ WrittenBy([rows[o] EXCEPT !.state = "REJECTED", !.note = "orphan"], rows[o].writer)
        /\ WrittenBy([rows[o] EXCEPT !.state = "FILLED"], rows[o].writer)
    BY <2>1, CloseKeepsWriter, Zenon
  <2>3. rows'[o] = IF o \in orphans
                   THEN [rows[o] EXCEPT !.state = "REJECTED", !.note = "orphan"]
                   ELSE IF o \in polled_done(report)
                        THEN [rows[o] EXCEPT !.state = "FILLED"] ELSE rows[o]
    BY <1>3, Zenon
  <2> QED
    BY <2>1, <2>2, <2>3, Zenon
<1>6. RowsInv'
  BY <1>1, <1>4, <1>5, RowsRewritten DEF OwnerInv
<1>7. OpenedBy(session', identity')
  BY <1>1, <1>2, <1>3, SessionKeepsOwner, Zenon DEF Owning
<1> QED
  BY <1>1, <1>6, <1>7, CurveFrame, SessionMoves DEF OwnerInv

(* Reconciliation, the update and the burst: same rows or closed rows.     *)
LEMMA CompareStep == ASSUME OwnerInv, Compare PROVE OwnerInv'
<1>1. UNCHANGED <<identity, rows, curve>>
  BY DEF Compare, ledgerVars
<1>2. OpenedBy(session, identity)
  BY Running DEF OwnerInv, Compare, Owning
<1>3. OpenedBy(session', identity') \/ session' = NoSession
  <2>1. PICK is_open \in BOOLEAN :
          session' =
            IF /\ session.aim = "rebalance"
               /\ Overstated \/ session.orphans \/ kill \/ ~is_open
            THEN NoSession
            ELSE [session EXCEPT
                   !.phase = "update", !.held = held, !.cash = cash, !.orphans = FALSE,
                   !.quiet = \A o \in Orders : ~Working(o) /\ (o \in session.tracked => ~Unseen(o))]
    BY Zenon DEF Compare
  <2> DEFINE quiet == \A o \in Orders : ~Working(o) /\ (o \in session.tracked => ~Unseen(o))
  <2>2. "update" \in Owning
    BY DEF Owning
  <2>3. OpenedBy([session EXCEPT !.phase = "update", !.held = held, !.cash = cash,
                                 !.orphans = FALSE, !.quiet = quiet], identity)
    <3> HIDE DEF quiet
    <3> QED
      BY <1>2, <2>2, SessionKeepsOwner, Zenon
  <2> QED
    BY <1>1, <2>1, <2>3, Zenon
<1>4. NoSession.phase = "none"
  BY DEF NoSession
<1> QED
  BY <1>1, <1>3, <1>4, RowsFrame, CurveFrame, SessionMoves DEF OwnerInv

(* The update closes rows; an equity row is of the owner's mode.           *)
LEMMA UpdateStep == ASSUME OwnerInv, Update PROVE OwnerInv'
<1>1. identity' = identity
  BY DEF Update
<1>2. OpenedBy(session, identity) /\ session.who = identity /\ identity \in Deployments
  BY Running DEF OwnerInv, Update, Owning
<1>3. PICK report \in ReportsOf(session.tracked) :
        /\ Poll(report)
        /\ \/ /\ session.aim = "rebalance"
              /\ session' = [session EXCEPT
                   !.phase = "burst", !.tracked = @ \ polled_done(report),
                   !.held = [s \in Symbols |-> @[s] + polled_change(marks, report)[s]],
                   !.cash = @ - polled_cost(marks, report)]
              /\ UNCHANGED curve
           \/ /\ session.aim = "end_of_day"
              /\ session' = NoSession
              /\ curve' = Append(curve, session.who.mode)
  BY Zenon DEF Update, Ended
<1>4. RowsInv'
  BY <1>1, <1>3, RowsClosed DEF Poll, OwnerInv
<1>5. CASE session' = NoSession /\ curve' = Append(curve, session.who.mode)
  <2>1. /\ IsSeq(curve') /\ DOMAIN curve' = 1..(Len(curve) + 1) /\ Len(curve) \in Nat
        /\ DOMAIN curve = 1..Len(curve)
        /\ curve'[Len(curve) + 1] = identity.mode
        /\ \A i \in 1..Len(curve) : curve'[i] = curve[i]
    BY <1>2, <1>5, AppendOne DEF OwnerInv, CurveInv
  <2>2. \A i \in DOMAIN curve' : curve'[i] = "unknown" \/ curve'[i] = identity'.mode
    <3>1. SUFFICES ASSUME NEW i \in DOMAIN curve'
                   PROVE  curve'[i] = "unknown" \/ curve'[i] = identity.mode
      BY <1>1
    <3>2. CASE i = Len(curve) + 1
      BY <2>1, <3>2
    <3>3. CASE i # Len(curve) + 1
      <4>1. i \in 1..Len(curve)
        BY <2>1, <3>3
      <4> QED
        BY <2>1, <4>1 DEF OwnerInv, CurveInv
    <3> QED
      BY <3>2, <3>3
  <2>3. identity' # NoIdentity
    BY <1>1, <1>2, DeploymentAssumption
  <2>4. CurveInv'
    BY <2>1, <2>2, <2>3 DEF CurveInv
  <2>5. session'.phase = "none"
    BY <1>5 DEF NoSession
  <2> QED
    BY <1>4, <2>4, <2>5, SessionMoves DEF OwnerInv
<1>6. CASE UNCHANGED curve /\
           session' = [session EXCEPT
                   !.phase = "burst", !.tracked = @ \ polled_done(report),
                   !.held = [s \in Symbols |-> @[s] + polled_change(marks, report)[s]],
                   !.cash = @ - polled_cost(marks, report)]
  <2>1. "burst" \in Owning
    BY DEF Owning
  <2>2. OpenedBy(session', identity)
    BY <1>2, <1>6, <2>1, SessionKeepsOwner, Zenon
  <2> QED
    BY <1>1, <1>4, <1>6, <2>2, CurveFrame, SessionMoves DEF OwnerInv
<1> QED
  BY <1>3, <1>5, <1>6, Zenon

(* A new row carries the identity of the process that adds it.             *)
LEMMA RowAdded ==
  ASSUME RowsInv, identity' = identity, identity \in Deployments, session.who = identity,
         NEW s, NEW q, NEW st, NEW n, AddRow(s, q, st, n)
  PROVE  RowsInv'
<1> DEFINE r == NewRow(s, q, st, n)
<1>1. WrittenBy(r, identity)
  <2>1. IsFcn(r) /\ "writer" \in DOMAIN r /\ r.writer = session.who
    BY DEF NewRow, IsFcn
  <2> QED
    BY <2>1 DEF WrittenBy
<1>2. rows' = Append(rows, r)
  BY DEF AddRow
<1> HIDE DEF r
<1>3. /\ IsSeq(rows') /\ Len(rows') = Len(rows) + 1 /\ Len(rows) \in Nat
      /\ rows'[Len(rows) + 1] = r
      /\ \A o \in 1..Len(rows) : rows'[o] = rows[o]
  BY <1>2, AppendOne DEF RowsInv
<1>4. ASSUME NEW o \in Orders' PROVE OwnedBy(rows'[o], identity')
  <2>1. CASE o = Len(rows) + 1
    BY <1>1, <1>3, <2>1 DEF OwnedBy
  <2>2. CASE o # Len(rows) + 1
    <3>1. o \in Orders
      BY <1>3, <2>2 DEF Orders
    <3> QED
      BY <1>3, <3>1 DEF RowsInv, Orders
  <2> QED
    BY <2>1, <2>2
<1> QED
  BY <1>3, <1>4 DEF RowsInv

(* Every row a burst adds is the owner's, refused ones included.           *)
LEMMA SubmitStep ==
  ASSUME OwnerInv, NEW symbol, NEW asked, Submit(symbol, asked)
  PROVE  OwnerInv'
<1>1. identity' = identity /\ curve' = curve
  BY DEF Submit
<1>2. OpenedBy(session, identity) /\ session.who = identity /\ identity \in Deployments
  BY Running DEF OwnerInv, Submit, Owning
<1> DEFINE quantity == clamp_quantity(symbol, asked)
<1>3. \/ /\ AddRow(symbol, quantity, "REJECTED", "kill switch")
         /\ session' = NoSession
      \/ /\ AddRow(symbol, quantity, "REJECTED", "limit")
         /\ session' = [session EXCEPT !.sent = @ \cup {Len(rows) + 1}]
      \/ /\ AddRow(symbol, quantity, "INTENT", "")
         /\ session' = [session EXCEPT !.phase = "calling", !.sent = @ \cup {Len(rows) + 1}]
  BY Zenon DEF Submit, Ended
<1> HIDE DEF quantity
<1>4. RowsInv'
  BY <1>1, <1>2, <1>3, RowAdded, Zenon DEF OwnerInv
<1>5. NoSession.phase = "none" /\ "calling" \in Owning
  BY DEF NoSession, Owning
<1>6. OpenedBy(session', identity') \/ session'.phase \in {"none", "settle"}
  <2>1. CASE session' = NoSession
    BY <1>5, <2>1
  <2>2. CASE session' = [session EXCEPT !.sent = @ \cup {Len(rows) + 1}]
    BY <1>1, <1>2, <1>5, <2>2, SessionKeepsOwner, Zenon
  <2>3. CASE session' = [session EXCEPT !.phase = "calling", !.sent = @ \cup {Len(rows) + 1}]
    BY <1>1, <1>2, <1>5, <2>3, SessionKeepsOwner, Zenon
  <2> QED
    BY <1>3, <2>1, <2>2, <2>3, Zenon
<1> QED
  BY <1>1, <1>4, <1>6, CurveFrame, SessionMoves DEF OwnerInv

(* The venue's answer changes the state of the last row.                   *)
LEMMA AnswerStep == ASSUME OwnerInv, Accepted \/ Raised PROVE OwnerInv'
<1>1. identity' = identity /\ curve' = curve
  BY DEF Accepted, Raised
<1>2. OpenedBy(session, identity)
  BY Running DEF OwnerInv, Accepted, Raised, Owning
<1>3. IsFcn(rows) /\ DOMAIN rows = Orders
  BY SeqIsFcn DEF OwnerInv, RowsInv, Orders
<1>4. ASSUME NEW o \in Orders PROVE WrittenBy(rows[o], rows[o].writer)
  BY DEF OwnerInv, RowsInv, OwnedBy, WrittenBy
<1> DEFINE c == Called
<1>5. \/ rows' = [rows EXCEPT ![c].state = "SUBMITTED", ![c].numbered = TRUE]
      \/ rows' = [rows EXCEPT ![c].state = "REJECTED", ![c].note = "venue"]
  BY Zenon DEF Accepted, Raised
<1>6. \/ session' = [session EXCEPT !.phase = "burst", !.tracked = @ \cup {c},
                                     !.submitted = @ + 1]
      \/ session' = [session EXCEPT !.phase = "burst"]
  BY Zenon DEF Accepted, Raised
<1> HIDE DEF c
<1>7. IsFcn(rows') /\ DOMAIN rows' = Orders
  BY <1>3, <1>5, Zenon DEF IsFcn
<1>8. ASSUME NEW o \in Orders PROVE WrittenBy(rows'[o], rows[o].writer)
  <2>1. CASE o = c
    <3>1. \/ rows'[o] = [rows[o] EXCEPT !.state = "SUBMITTED", !.numbered = TRUE]
          \/ rows'[o] = [rows[o] EXCEPT !.state = "REJECTED", !.note = "venue"]
      BY <1>3, <1>5, <2>1, Zenon DEF IsFcn
    <3>2. WrittenBy(rows[o], rows[o].writer)
      BY <1>4
    <3>3. /\ WrittenBy([rows[o] EXCEPT !.state = "SUBMITTED", !.numbered = TRUE], rows[o].writer)
          /\ WrittenBy([rows[o] EXCEPT !.state = "REJECTED", !.note = "venue"], rows[o].writer)
      BY <3>2, CloseKeepsWriter, Zenon
    <3> QED
      BY <3>1, <3>3, Zenon
  <2>2. CASE o # c
    <3>1. rows'[o] = rows[o]
      BY <1>3, <1>5, <2>2, Zenon DEF IsFcn
    <3> QED
      BY <1>4, <3>1
  <2> QED
    BY <2>1, <2>2
<1>9. RowsInv'
  BY <1>1, <1>7, <1>8, RowsRewritten DEF OwnerInv
<1>10. "burst" \in Owning
  BY DEF Owning
<1>11. OpenedBy(session', identity')
  <2>1. CASE session' = [session EXCEPT !.phase = "burst"]
    BY <1>1, <1>2, <1>10, <2>1, SessionKeepsOwner, Zenon
  <2>2. CASE session' = [session EXCEPT !.phase = "burst", !.tracked = @ \cup {c},
                                        !.submitted = @ + 1]
    BY <1>1, <1>2, <1>10, <2>2, SessionKeepsOwner, Zenon
  <2> QED
    BY <1>6, <2>1, <2>2
<1> QED
  BY <1>1, <1>9, <1>11, CurveFrame, SessionMoves DEF OwnerInv

(* Settlement closes rows, a crash touches none.                           *)
LEMMA EndingStep ==
  ASSUME OwnerInv, EndBurst \/ SettleRound \/ SettleEnd \/ Crash
  PROVE  OwnerInv'
<1>1. identity' = identity /\ curve' = curve
  BY DEF EndBurst, SettleRound, SettleEnd, Crash, ledgerVars
<1>2. RowsInv'
  <2>1. CASE EndBurst \/ Crash
    <3>1. rows' = rows
      BY <2>1 DEF EndBurst, Crash, ledgerVars
    <3> QED
      BY <1>1, <3>1, RowsFrame DEF OwnerInv
  <2>2. CASE SettleRound
    <3>1. PICK report \in ReportsOf(session.tracked) : Poll(report)
      BY <2>2, Zenon DEF SettleRound
    <3> QED
      BY <1>1, <3>1, RowsClosed DEF Poll, OwnerInv
  <2>3. CASE SettleEnd
    <3>1. close_rows(session.tracked, "STALE", "") \/ rows' = rows
      BY <2>3, Zenon DEF SettleEnd
    <3> QED
      BY <1>1, <3>1, RowsClosed, RowsFrame DEF OwnerInv
  <2> QED
    BY <2>1, <2>2, <2>3
<1>3. session'.phase \in {"none", "settle"}
  <2>1. NoSession.phase = "none"
    BY DEF NoSession
  <2>2. \A t : Settling(t).phase = "settle"
    BY DEF Settling
  <2>3. session' = NoSession \/ \E t : session' = Settling(t)
    BY Zenon DEF EndBurst, SettleRound, SettleEnd, Crash, Ended
  <2> QED
    BY <2>1, <2>2, <2>3, Zenon
<1> QED
  BY <1>1, <1>2, <1>3, CurveFrame, SessionMoves DEF OwnerInv

(* A promotion has checked the ledger it promotes.                         *)
LEMMA PromoteStep == ASSUME OwnerInv, Promote PROVE OwnerInv'
<1>1. UNCHANGED <<identity, rows, curve>> /\ session' = [phase |-> "promoted"]
  BY DEF Promote, ledgerVars
<1>2. check_ledger_is_paper'
  BY <1>1 DEF Promote, check_ledger, check_ledger_is_paper
<1>3. SessionInv' /\ PromotedInv'
  BY <1>1, <1>2 DEF SessionInv, PromotedInv, Owning
<1> QED
  BY <1>1, <1>3, RowsFrame, CurveFrame DEF OwnerInv

(* What happens outside the process.                                       *)
LEMMA OutsideStep ==
  ASSUME OwnerInv, UNCHANGED <<identity, rows, curve, session>>
  PROVE  OwnerInv'
BY DEF OwnerInv, RowsInv, CurveInv, SessionInv, PromotedInv, check_ledger_is_paper, Orders

(* Every step keeps the owner.                                             *)
LEMMA OwnerStep == OwnerInv /\ [Next]_vars => OwnerInv'
<1> SUFFICES ASSUME OwnerInv, [Next]_vars PROVE OwnerInv'
  OBVIOUS
<1>1. ASSUME NEW who \in Deployments, NEW aim \in {"rebalance", "end_of_day"},
             Launch(who, aim)
      PROVE  OwnerInv'
  BY <1>1, LaunchStep
<1>2. CASE Recover
  BY <1>2, RecoverStep
<1>3. CASE Compare
  BY <1>3, CompareStep
<1>4. CASE Update
  BY <1>4, UpdateStep
<1>5. ASSUME NEW s \in Symbols, NEW q \in Asked, Submit(s, q) PROVE OwnerInv'
  BY <1>5, SubmitStep
<1>6. CASE Accepted \/ Raised
  BY <1>6, AnswerStep
<1>7. CASE EndBurst \/ SettleRound \/ SettleEnd \/ Crash
  BY <1>7, EndingStep
<1>8. CASE Promote
  BY <1>8, PromoteStep
<1>9. ASSUME NEW o \in Orders, Fill(o) \/ Drop(o) PROVE OwnerInv'
  BY <1>9, OutsideStep DEF Fill, Drop, ledgerVars
<1>10. CASE NewDay
  BY <1>10, OutsideStep DEF NewDay, ledgerVars
<1>11. ASSUME NEW s \in Symbols, TradeByHand(s) PROVE OwnerInv'
  BY <1>11, OutsideStep DEF TradeByHand, ledgerVars
<1>12. CASE ThrowSwitch
  BY <1>12, OutsideStep DEF ThrowSwitch, ledgerVars
<1>13. CASE UNCHANGED vars
  BY <1>13, OutsideStep DEF vars, ledgerVars
<1> QED
  BY <1>1, <1>2, <1>3, <1>4, <1>5, <1>6, <1>7, <1>8, <1>9, <1>10, <1>11, <1>12, <1>13
     DEF Next

(* A ledger nobody has stamped has rows without a writer and equity rows   *)
(* of unknown mode, or none.                                               *)
LEMMA OwnerInit == Init => OwnerInv
<1> SUFFICES ASSUME Init PROVE OwnerInv
  OBVIOUS
<1>1. PICK old \in OldLedgers : rows = old.rows /\ curve = old.curve
  BY DEF Init
<1>2. rows \in Seq(OldRows) /\ curve \in Seq({"unknown"})
  BY <1>1, OldLedgersAssumption
<1>3. RowsInv
  <2>1. ASSUME NEW o \in Orders PROVE WrittenBy(rows[o], NoIdentity)
    <3>1. rows[o] \in OldRows
      BY <1>2 DEF Orders
    <3> QED
      BY <3>1 DEF OldRows, WrittenBy, IsFcn
  <2> QED
    BY <1>2, <2>1 DEF RowsInv, IsSeq, OwnedBy
<1>4. CurveInv
  <2>1. \A i \in DOMAIN curve : curve[i] = "unknown"
    BY <1>2
  <2> QED
    BY <1>2, <2>1 DEF CurveInv, IsSeq
<1>5. session.phase = "none"
  BY DEF Init, NoSession
<1> QED
  BY <1>3, <1>4, <1>5 DEF OwnerInv, SessionInv, PromotedInv, Owning

(* The owner invariant holds throughout.                                   *)
LEMMA OwnerInvariant == Spec => []OwnerInv
  BY OwnerInit, OwnerStep, PTL DEF Spec

(* For any deployments, in any order of launches, crashes and answers, and *)
(* any ledger older than identities, every row that is not older than them *)
(* was written by one deployment (stamp_identity).                         *)
THEOREM OneOwner == Spec => []OneDeploymentPerLedger
<1>1. OwnerInv => OneDeploymentPerLedger
  BY DEF OwnerInv, RowsInv, CurveInv, OwnedBy, WrittenBy, OneDeploymentPerLedger
<1> QED
  BY <1>1, OwnerInvariant, PTL

(* For any deployments and any criteria, a promoted ledger has no row that *)
(* a real-money launch of this engine wrote, and no equity row of unknown  *)
(* mode (_check_ledger_is_paper with stamp_identity).                      *)
THEOREM PaperOnly == Spec => []PromotedIsPaper
<1>1. OwnerInv => PromotedIsPaper
  BY DEF OwnerInv, RowsInv, PromotedInv, OwnedBy, WrittenBy, PromotedIsPaper,
         check_ledger_is_paper
<1> QED
  BY <1>1, OwnerInvariant, PTL

---------------------------------------------------------------------------
(* The phases of a process that has the venue's balance.                   *)
Trading == {"update", "burst", "calling"}
Aims == {"rebalance", "end_of_day"}

OrderRows == [symbol : Symbols, quantity : Int, state : States, numbered : BOOLEAN,
              note : Notes, writer : Deployments \cup {NoIdentity}]
VenueRows == [filled : Nat, working : BOOLEAN, today : BOOLEAN]
ReportRows == [filled : Nat, fees : Nat, is_done : BOOLEAN]
Processes == [phase : Owning, who : Deployments, aim : Aims, orphans : BOOLEAN,
              held : [Symbols -> Int], cash : Int, tracked : SUBSET Nat,
              sent : SUBSET Nat, submitted : Nat, quiet : BOOLEAN]

(* Every order has its row, its fill rows and the venue's record.          *)
LedgerType ==
  /\ rows \in Seq(OrderRows) /\ fills \in Seq(Seq(FillRows)) /\ venue \in Seq(VenueRows)
  /\ Len(fills) = Len(rows) /\ Len(venue) = Len(rows)
AccountType == held \in [Symbols -> Int] /\ cash \in Int

(* A process up to the end of its burst; it has sent nothing before it.    *)
RunningType(p) ==
  /\ p \in Processes
  /\ p.phase \in {"recover", "compare", "update"} => p.sent = {}
ProcessType ==
  \/ session = NoSession
  \/ session = [phase |-> "promoted"]
  \/ \E t \in SUBSET Orders : session = Settling(t)
  \/ /\ RunningType(session)
     /\ session.tracked \subseteq Orders /\ session.sent \subseteq Orders

(* One order: its row r, its fill rows f and the venue's record v.         *)
Sound(r, f, v) ==
  /\ r.quantity # 0
  /\ 0 <= summed(f, "quantity") /\ summed(f, "quantity") <= v.filled
  /\ v.filled <= Magnitude(r.quantity)
  /\ v.working => v.filled < Magnitude(r.quantity)
  /\ r.state = "FILLED" => ~v.working /\ summed(f, "quantity") = v.filled
  /\ f # <<>> => summed(f, "fees") = Last(f).total

(* A row has a number exactly when the venue acknowledged the order, and   *)
(* fills only then.                                                        *)
RowShape(r, f) ==
  /\ r.numbered <=> r.state \in {"SUBMITTED", "FILLED", "STALE"}
  /\ ~r.numbered => f = <<>>

(* Every order on record is sound: never booked beyond what the venue      *)
(* filled, never filled beyond what was asked, final once FILLED, and its  *)
(* costs add up to the estimate booked last.                               *)
SoundInv == \A o \in Orders : Sound(rows[o], fills[o], venue[o])

(* The order on its way to the venue: the last row, nothing of it anywhere *)
(* yet, within what the process believes to hold or to have.               *)
CallInv ==
  session.phase = "calling" =>
    /\ Called \in Orders
    /\ rows[Called].state = "INTENT" /\ rows[Called].note = "" /\ fills[Called] = <<>>
    /\ venue[Called].filled = 0 /\ ~Working(Called)
    /\ Called \in session.sent
    /\ rows[Called].quantity < 0 =>
         0 - rows[Called].quantity <= session.held[rows[Called].symbol]
    /\ rows[Called].quantity > 0 => Price * rows[Called].quantity <= session.cash

---------------------------------------------------------------------------
(* An order without fill rows has booked nothing and was charged nothing.  *)
LEMMA SummedEmpty == ASSUME NEW c PROVE summed(<<>>, c) = 0
<1>1. DOMAIN [i \in DOMAIN <<>> |-> <<>>[i][c]] = {}
  OBVIOUS
<1> QED
  BY <1>1, SumEmpty DEF summed, SumFunction

(* A column's sum, one row at a time.                                      *)
LEMMA ColumnAppend ==
  ASSUME NEW g, NEW h, NEW n \in Nat, DOMAIN g = 1..n, DOMAIN h = 1..(n + 1),
         \A i \in 1..n : g[i] \in Int /\ h[i] = g[i], h[n + 1] \in Int
  PROVE  SumFunction(g) \in Int /\ SumFunction(h) = SumFunction(g) + h[n + 1]
<1>1. IsFiniteSet(1..n) /\ IsFiniteSet(1..(n + 1))
  BY FS_Interval
<1>2. SumFunctionOnSet(h, 1..(n + 1)) = h[n + 1] + SumFunctionOnSet(h, (1..(n + 1)) \ {n + 1})
  <2>1. \A i \in 1..(n + 1) : h[i] \in Int
    OBVIOUS
  <2>2. n + 1 \in 1..(n + 1)
    OBVIOUS
  <2> QED
    BY <1>1, <2>1, <2>2, SumRemove
<1>3. (1..(n + 1)) \ {n + 1} = 1..n
  OBVIOUS
<1>4. SumFunctionOnSet(g, 1..n) = SumFunctionOnSet(h, 1..n)
  BY <1>1, SumCong
<1>5. SumFunctionOnSet(g, 1..n) \in Int
  BY <1>1, SumInt
<1>6. SumFunction(g) = SumFunctionOnSet(g, 1..n) /\ SumFunction(h) = SumFunctionOnSet(h, 1..(n + 1))
  BY DEF SumFunction
<1>7. SumFunctionOnSet(h, 1..(n + 1)) = h[n + 1] + SumFunctionOnSet(g, 1..n)
  BY <1>2, <1>3, <1>4
<1> HIDE DEF SumFunction
<1> QED
  BY <1>5, <1>6, <1>7

(* A new fill row adds its quantity and its costs to the order's sums      *)
(* (record_fill).                                                          *)
LEMMA SummedAppend ==
  ASSUME NEW f \in Seq(FillRows), NEW r \in FillRows
  PROVE  /\ summed(f, "quantity") \in Int /\ summed(f, "fees") \in Int
         /\ summed(Append(f, r), "quantity") = summed(f, "quantity") + r.quantity
         /\ summed(Append(f, r), "fees") = summed(f, "fees") + r.fees
         /\ Append(f, r) \in Seq(FillRows) /\ Append(f, r) # <<>>
         /\ Last(Append(f, r)) = r
<1> DEFINE n == Len(f)
           e == Append(f, r)
<1>1. /\ n \in Nat /\ DOMAIN f = 1..n /\ DOMAIN e = 1..(n + 1)
      /\ e \in Seq(FillRows) /\ e # <<>> /\ Len(e) = n + 1 /\ e[n + 1] = r
      /\ \A i \in 1..n : e[i] = f[i] /\ f[i] \in FillRows
  BY AppendProperties, LenProperties, ElementOfSeq
<1>2. Last(e) = r
  BY <1>1 DEF Last
<1> HIDE DEF n, e
<1> DEFINE q(x) == [i \in DOMAIN x |-> x[i]["quantity"]]
           c(x) == [i \in DOMAIN x |-> x[i]["fees"]]
<1>3. r.quantity \in Int /\ r.fees \in Int /\ \A i \in 1..n : f[i].quantity \in Int /\ f[i].fees \in Int
  BY <1>1 DEF FillRows
<1>4. SumFunction(q(f)) \in Int /\ SumFunction(q(e)) = SumFunction(q(f)) + q(e)[n + 1]
  <2>1. /\ DOMAIN q(f) = 1..n /\ DOMAIN q(e) = 1..(n + 1) /\ q(e)[n + 1] \in Int
        /\ \A i \in 1..n : q(f)[i] \in Int /\ q(e)[i] = q(f)[i]
    BY <1>1, <1>3
  <2> HIDE DEF q
  <2> QED
    BY <1>1, <2>1, ColumnAppend
<1>5. SumFunction(c(f)) \in Int /\ SumFunction(c(e)) = SumFunction(c(f)) + c(e)[n + 1]
  <2>1. /\ DOMAIN c(f) = 1..n /\ DOMAIN c(e) = 1..(n + 1) /\ c(e)[n + 1] \in Int
        /\ \A i \in 1..n : c(f)[i] \in Int /\ c(e)[i] = c(f)[i]
    BY <1>1, <1>3
  <2> HIDE DEF c
  <2> QED
    BY <1>1, <2>1, ColumnAppend
<1>6. q(e)[n + 1] = r.quantity /\ c(e)[n + 1] = r.fees
  BY <1>1
<1>7. /\ summed(f, "quantity") = SumFunction(q(f)) /\ summed(e, "quantity") = SumFunction(q(e))
      /\ summed(f, "fees") = SumFunction(c(f)) /\ summed(e, "fees") = SumFunction(c(e))
  BY DEF summed
<1> HIDE DEF q, c
<1>8. /\ summed(f, "quantity") \in Int /\ summed(f, "fees") \in Int
      /\ summed(e, "quantity") = summed(f, "quantity") + r.quantity
      /\ summed(e, "fees") = summed(f, "fees") + r.fees
  BY <1>4, <1>5, <1>6, <1>7
<1> QED
  BY <1>1, <1>2, <1>8 DEF e

(* The sums over an order's fill rows are integers.                        *)
LEMMA SummedInt ==
  ASSUME NEW f \in Seq(FillRows)
  PROVE  summed(f, "quantity") \in Int /\ summed(f, "fees") \in Int
<1>1. [quantity |-> 0, fees |-> 0, total |-> 0] \in FillRows
  BY DEF FillRows
<1> QED
  BY <1>1, SummedAppend

(* What an enquiry may say of an order.                                    *)
LEMMA ReportFacts ==
  ASSUME LedgerType, NEW o \in Orders, NEW r \in Reports(o)
  PROVE  /\ r \in ReportRows /\ r.filled <= venue[o].filled
         /\ r.is_done => r.filled = venue[o].filled /\ ~venue[o].working
<1>1. venue[o] \in VenueRows
  BY ElementOfSeq DEF LedgerType, Orders
<1>2. CASE r = NoRow
  BY <1>1, <1>2 DEF NoRow, ReportRows, VenueRows
<1>3. CASE r # NoRow
  <2>1. PICK f \in Estimates \cup {0} :
          r = [filled |-> venue[o].filled, fees |-> f, is_done |-> ~venue[o].working]
    BY <1>3 DEF Reports
  <2>2. f \in Nat
    BY DeploymentAssumption
  <2>3. venue[o].filled \in Nat /\ venue[o].working \in BOOLEAN
    BY <1>1 DEF VenueRows
  <2>4. r.filled = venue[o].filled /\ r.is_done = ~venue[o].working
    BY <2>1, Zenon
  <2>5. r \in ReportRows
    <3>1. (~venue[o].working) \in BOOLEAN
      OBVIOUS
    <3> QED
      BY <2>1, <2>2, <2>3, <3>1 DEF ReportRows
  <2>6. r.filled <= venue[o].filled
    BY <2>3, <2>4
  <2> QED
    BY <2>4, <2>5, <2>6, Zenon
<1> QED
  BY <1>2, <1>3

(* A round of enquiries as the ledger sees it: what is new against the     *)
(* fill rows, the rows added, and what the portfolio gets.                 *)
news(report) == { o \in DOMAIN report : report[o].filled > booked(o) }
row_of(o, report) ==
  [quantity |-> report.filled - booked(o), fees |-> report.fees - charged(o),
   total |-> report.fees]
fills_after(report) ==
  [o \in Orders |-> IF o \in news(report)
                    THEN Append(fills[o], row_of(o, report[o])) ELSE fills[o]]
change_of(report) ==
  [s \in Symbols |->
     SumFunction([o \in { p \in news(report) : rows[p].symbol = s } |->
                    Position(o, report[o].filled - booked(o))])]
cost_of(report) ==
  SumFunction([o \in news(report) |->
                 Position(o, report[o].filled - booked(o)) * Price + row_of(o, report[o]).fees])

(* Watermarks that are what the fill rows of the orders T add up to.       *)
Agrees(m, T) == \A o \in T : m[o].quantity = booked(o) /\ m[o].fees = charged(o)

(* The memory of a process agrees with the ledger on what it tracks.       *)
MemoryInv ==
  session.phase \in {"compare", "update", "burst", "calling", "settle"} =>
    Agrees(marks, session.tracked)

(* Watermarks that agree with the ledger book what the ledger lacks.       *)
LEMMA FromMemory ==
  ASSUME NEW m, NEW report, Agrees(m, DOMAIN report)
  PROVE  /\ booking(m, report) = news(report) /\ polled_fills(m, report) = fills_after(report)
         /\ polled_change(m, report) = change_of(report) /\ polled_cost(m, report) = cost_of(report)
<1>1. booking(m, report) = news(report)
  BY DEF booking, news, Agrees
<1>2. \A o \in news(report) : m[o].quantity = booked(o) /\ m[o].fees = charged(o)
  BY DEF news, Agrees
<1>3. \A o \in news(report) : fill_row(m[o], report[o]) = row_of(o, report[o])
  BY <1>2 DEF fill_row, row_of
<1>4. polled_fills(m, report) = fills_after(report)
  BY <1>1, <1>3 DEF polled_fills, fills_after
<1>5. ASSUME NEW s
      PROVE  [o \in { p \in news(report) : rows[p].symbol = s } |->
                Position(o, report[o].filled - m[o].quantity)]
             = [o \in { p \in news(report) : rows[p].symbol = s } |->
                Position(o, report[o].filled - booked(o))]
  BY <1>2
<1>6. polled_change(m, report) = change_of(report)
  BY <1>1, <1>5, Zenon DEF polled_change, change_of
<1>7. [o \in news(report) |-> Position(o, report[o].filled - m[o].quantity) * Price
                                + fill_row(m[o], report[o]).fees]
      = [o \in news(report) |-> Position(o, report[o].filled - booked(o)) * Price
                                + row_of(o, report[o]).fees]
  BY <1>2, <1>3
<1>8. polled_cost(m, report) = cost_of(report)
  BY <1>1, <1>7, Zenon DEF polled_cost, cost_of
<1> QED
  BY <1>1, <1>4, <1>6, <1>8

(* Recovery, the update and a round of settlement as the ledger sees them. *)
RecoverBooks ==
  LET open    == get_open_orders
      orphans == { o \in open : ~rows[o].numbered }
  IN \E report \in ReportsOf(open \ orphans) :
       /\ rows' = [o \in Orders |->
                     IF o \in orphans THEN [rows[o] EXCEPT !.state = "REJECTED", !.note = "orphan"]
                     ELSE IF o \in polled_done(report) THEN [rows[o] EXCEPT !.state = "FILLED"]
                     ELSE rows[o]]
       /\ fills' = fills_after(report)
       /\ session' = [session EXCEPT !.phase = "compare", !.orphans = orphans # {},
                        !.held = change_of(report), !.tracked = (open \ orphans) \ polled_done(report)]
PollBooks(report) ==
  /\ fills' = fills_after(report)
  /\ close_rows(polled_done(report), "FILLED", "")
UpdateBooks ==
  /\ session.phase = "update"
  /\ \E report \in ReportsOf(session.tracked) :
       /\ PollBooks(report)
       /\ \/ session' = [session EXCEPT
                 !.phase = "burst", !.tracked = @ \ polled_done(report),
                 !.held = [s \in Symbols |-> @[s] + change_of(report)[s]],
                 !.cash = @ - cost_of(report)]
          \/ session' = NoSession
  /\ UNCHANGED <<identity, accountVars, kill, by_hand, raced>>
SettleBooks ==
  /\ session.phase = "settle"
  /\ \E report \in ReportsOf(session.tracked) :
       PollBooks(report) /\ session' = Settling(session.tracked \ polled_done(report))
  /\ UNCHANGED <<identity, curve, accountVars, kill, by_hand, raced>>

(* The seeds of a recovery agree with the ledger by themselves.            *)
LEMMA RecoverIs == ASSUME Recover PROVE RecoverBooks
<1> DEFINE T == get_open_orders \ {o \in get_open_orders : ~rows[o].numbered}
<1>1. \A report \in ReportsOf(T) : DOMAIN report = T
  BY DEF ReportsOf
<1>2. Agrees(recovered_marks(T), T)
  BY DEF Agrees, recovered_marks
<1>3. ASSUME NEW report \in ReportsOf(T)
      PROVE  /\ polled_fills(recovered_marks(T), report) = fills_after(report)
             /\ polled_change(recovered_marks(T), report) = change_of(report)
  <2>1. DOMAIN report = T
    BY <1>1
  <2> HIDE DEF T
  <2> QED
    BY <1>2, <2>1, FromMemory
<1> QED
  BY <1>3, Zenon DEF Recover, RecoverBooks

(* A round from memory that agrees with the ledger.                        *)
LEMMA PollIs ==
  ASSUME Agrees(marks, session.tracked), NEW report \in ReportsOf(session.tracked)
  PROVE  /\ Poll(report) => PollBooks(report)
         /\ polled_change(marks, report) = change_of(report)
         /\ polled_cost(marks, report) = cost_of(report)
<1>1. DOMAIN report = session.tracked
  BY DEF ReportsOf
<1> QED
  BY <1>1, FromMemory DEF Poll, PollBooks

(* An update from memory that agrees with the ledger.                      *)
LEMMA UpdateIs == ASSUME MemoryInv, Update PROVE UpdateBooks
<1>1. Agrees(marks, session.tracked)
  BY DEF MemoryInv, Update
<1> QED
  BY <1>1, PollIs, Zenon DEF Update, UpdateBooks, Ended

(* And a round of settlement.                                              *)
LEMMA SettleIs == ASSUME MemoryInv, SettleRound PROVE SettleBooks
<1>1. Agrees(marks, session.tracked)
  BY DEF MemoryInv, SettleRound
<1> QED
  BY <1>1, PollIs, Zenon DEF SettleRound, SettleBooks

(* g is the fill rows f after a report was booked.                         *)
AfterReport(g, f, report) ==
  g = IF report.filled > summed(f, "quantity")
      THEN Append(f, [quantity |-> report.filled - summed(f, "quantity"),
                      fees |-> report.fees - summed(f, "fees"), total |-> report.fees])
      ELSE f

(* The rows g are as good as f was, and the report is on record.           *)
Booked(r, f, v, report, g) ==
  /\ g \in Seq(FillRows) /\ Sound(r, g, v)
  /\ summed(g, "quantity") = IF report.filled > summed(f, "quantity")
                             THEN report.filled ELSE summed(f, "quantity")
  /\ summed(g, "fees") = IF report.filled > summed(f, "quantity")
                         THEN report.fees ELSE summed(f, "fees")

(* Booking a report of an order.                                           *)
LEMMA SoundBooked ==
  ASSUME NEW r \in OrderRows, NEW f \in Seq(FillRows), NEW v \in VenueRows, Sound(r, f, v),
         NEW report \in ReportRows, report.filled <= v.filled, NEW g, AfterReport(g, f, report)
  PROVE  Booked(r, f, v, report, g)
<1> USE DEF AfterReport, Booked
<1> DEFINE B == summed(f, "quantity")
           C == summed(f, "fees")
           e == [quantity |-> report.filled - B, fees |-> report.fees - C, total |-> report.fees]
<1>1. B \in Int /\ C \in Int
  BY SummedInt
<1>2. report.filled \in Nat /\ report.fees \in Nat /\ v.filled \in Nat /\ r.quantity \in Int
  BY DEF ReportRows, VenueRows, OrderRows
<1>3. CASE ~(report.filled > B)
  BY <1>3
<1>4. CASE report.filled > B
  <2> HIDE DEF B, C
  <2>1. e \in FillRows
    BY <1>1, <1>2 DEF FillRows
  <2>2. e.quantity = report.filled - B /\ e.fees = report.fees - C /\ e.total = report.fees
    BY DEF e
  <2>3. g = Append(f, e)
    BY <1>4 DEF B, C
  <2> HIDE DEF e
  <2>4. /\ summed(g, "quantity") = B + e.quantity /\ summed(g, "fees") = C + e.fees
        /\ g \in Seq(FillRows) /\ g # <<>> /\ Last(g) = e
    BY <2>1, <2>3, SummedAppend DEF B, C
  <2>5. /\ summed(g, "quantity") = report.filled /\ summed(g, "fees") = Last(g).total
        /\ summed(g, "fees") = report.fees
    BY <1>1, <1>2, <2>2, <2>4
  <2>6. r.state = "FILLED" => FALSE
    <3>1. r.state = "FILLED" => B = v.filled
      BY DEF Sound, B
    <3> QED
      BY <1>1, <1>2, <1>4, <3>1
  <2>7. 0 <= report.filled
    BY <1>2
  <2>8. Sound(r, g, v)
    BY <2>5, <2>6, <2>7 DEF Sound
  <2> QED
    BY <1>4, <2>4, <2>5, <2>8 DEF B
<1> QED
  BY <1>3, <1>4

(* Closing a row.                                                          *)
LEMMA SoundClosed ==
  ASSUME NEW r \in OrderRows, NEW f, NEW v, Sound(r, f, v), NEW st \in States, NEW n \in Notes,
         st = "FILLED" => ~v.working /\ summed(f, "quantity") = v.filled
  PROVE  /\ [r EXCEPT !.state = st, !.note = n] \in OrderRows
         /\ Sound([r EXCEPT !.state = st, !.note = n], f, v)
         /\ [r EXCEPT !.state = st] \in OrderRows /\ Sound([r EXCEPT !.state = st], f, v)
<1> DEFINE a == [r EXCEPT !.state = st, !.note = n]
           b == [r EXCEPT !.state = st]
<1>1. a \in OrderRows /\ b \in OrderRows
  BY DEF OrderRows
<1>2. a.quantity = r.quantity /\ a.state = st /\ b.quantity = r.quantity /\ b.state = st
  BY DEF OrderRows
<1> HIDE DEF a, b
<1>3. Sound(a, f, v) /\ Sound(b, f, v)
  BY <1>2 DEF Sound
<1> QED
  BY <1>1, <1>3 DEF a, b

(* What the venue does to an order.                                        *)
LEMMA SoundAtVenue ==
  ASSUME NEW r \in OrderRows, NEW f \in Seq(FillRows), NEW v \in VenueRows, Sound(r, f, v)
  PROVE  /\ [v EXCEPT !.working = FALSE] \in VenueRows
         /\ Sound(r, f, [v EXCEPT !.working = FALSE])
         /\ [v EXCEPT !.today = FALSE, !.working = FALSE] \in VenueRows
         /\ Sound(r, f, [v EXCEPT !.today = FALSE, !.working = FALSE])
         /\ v.working =>
              LET last == Magnitude(r.quantity) - v.filled = 1
                  w == [v EXCEPT !.filled = @ + 1, !.working = ~last]
              IN w \in VenueRows /\ Sound(r, f, w)
<1> DEFINE M == Magnitude(r.quantity)
           a == [v EXCEPT !.working = FALSE]
           b == [v EXCEPT !.today = FALSE, !.working = FALSE]
           last == M - v.filled = 1
           more == ~last
           w == [v EXCEPT !.filled = @ + 1, !.working = more]
<1>1. v.filled \in Nat /\ r.quantity \in Int /\ M \in Int
  BY DEF VenueRows, OrderRows, Magnitude
<1>2. summed(f, "quantity") \in Int
  BY SummedInt
<1>3. more \in BOOLEAN
  OBVIOUS
<1>4. a \in VenueRows /\ b \in VenueRows /\ w \in VenueRows
  <2> HIDE DEF more
  <2>1. a \in VenueRows /\ b \in VenueRows
    BY DEF VenueRows
  <2>2. \A n \in Nat, x \in BOOLEAN : [v EXCEPT !.filled = n, !.working = x] \in VenueRows
    BY DEF VenueRows
  <2>3. v.filled + 1 \in Nat
    BY <1>1
  <2>4. w \in VenueRows
    BY <1>3, <2>2, <2>3, Zenon
  <2> QED
    BY <2>1, <2>4
<1>5. /\ a.filled = v.filled /\ ~a.working /\ b.filled = v.filled /\ ~b.working
      /\ w.filled = v.filled + 1 /\ w.working = more
  BY DEF VenueRows
<1> HIDE DEF a, b, w, M
<1>6. Sound(r, f, a) /\ Sound(r, f, b)
  BY <1>5 DEF Sound
<1>7. ASSUME v.working PROVE Sound(r, f, w)
  <2>1. v.filled < M /\ r.state # "FILLED"
    BY <1>7 DEF Sound, M
  <2>2. w.filled <= M /\ (w.working => w.filled < M)
    <3>1. more <=> M - v.filled # 1
      OBVIOUS
    <3>2. w.working <=> M - v.filled # 1
      BY <1>5, <3>1, Zenon
    <3> QED
      BY <1>1, <1>5, <2>1, <3>2
  <2>3. summed(f, "quantity") <= w.filled
    BY <1>1, <1>2, <1>5 DEF Sound
  <2> QED
    BY <2>1, <2>2, <2>3 DEF Sound, M
<1> QED
  BY <1>4, <1>6, <1>7 DEF a, b, w, M

(* A step that adds no order and leaves what each one asks for.            *)
SameOrders ==
  /\ Orders' = Orders
  /\ \A o \in Orders : rows'[o].symbol = rows[o].symbol /\ rows'[o].quantity = rows[o].quantity

(* The parts of an order on record.                                        *)
LEMMA OrderAt ==
  ASSUME LedgerType
  PROVE  /\ Len(rows) \in Nat /\ Orders = 1..Len(rows)
         /\ DOMAIN rows = Orders /\ DOMAIN fills = Orders /\ DOMAIN venue = Orders
         /\ rows \in [Orders -> OrderRows] /\ fills \in [Orders -> Seq(FillRows)]
         /\ venue \in [Orders -> VenueRows]
         /\ \A o \in Orders : /\ rows[o] \in OrderRows /\ fills[o] \in Seq(FillRows)
                              /\ venue[o] \in VenueRows /\ o \in Nat
BY LenProperties DEF LedgerType, Orders

(* A function on 1..n into S is a sequence over S.                         *)
LEMMA FcnToSeq ==
  ASSUME NEW n \in Nat, NEW S, NEW q \in [1..n -> S]
  PROVE  q \in Seq(S) /\ Len(q) = n
OBVIOUS

(* Rows, fill rows and the venue's records rewritten in place.             *)
LEMMA InPlace ==
  ASSUME LedgerType, NEW r \in [Orders -> OrderRows], NEW f \in [Orders -> Seq(FillRows)],
         NEW v \in [Orders -> VenueRows], rows' = r, fills' = f, venue' = v,
         \A o \in Orders : Sound(r[o], f[o], v[o])
  PROVE  LedgerType' /\ SoundInv' /\ Orders' = Orders
<1>1. Len(rows) \in Nat /\ Orders = 1..Len(rows)
  BY OrderAt
<1>2. /\ rows' \in Seq(OrderRows) /\ Len(rows') = Len(rows)
      /\ fills' \in Seq(Seq(FillRows)) /\ Len(fills') = Len(rows)
      /\ venue' \in Seq(VenueRows) /\ Len(venue') = Len(rows)
  BY <1>1, FcnToSeq
<1>3. Orders' = Orders
  BY <1>2 DEF Orders
<1> QED
  BY <1>2, <1>3 DEF LedgerType, SoundInv

(* A round of enquiries.                                                   *)
LEMMA PollFacts ==
  ASSUME LedgerType, SoundInv, NEW T \in SUBSET Orders, NEW report \in ReportsOf(T)
  PROVE  /\ DOMAIN report = T /\ polled_done(report) \subseteq T /\ news(report) \subseteq T
         /\ fills_after(report) \in [Orders -> Seq(FillRows)]
         /\ \A o \in T :
              /\ report[o] \in ReportRows /\ report[o].filled <= venue[o].filled
              /\ o \in news(report) <=> report[o].filled > booked(o)
         /\ \A o \in Orders :
              /\ Sound(rows[o], fills_after(report)[o], venue[o])
              /\ summed(fills_after(report)[o], "quantity") =
                   IF o \in news(report) THEN report[o].filled ELSE booked(o)
              /\ summed(fills_after(report)[o], "fees") =
                   IF o \in news(report) THEN report[o].fees ELSE charged(o)
              /\ o \in polled_done(report) =>
                   ~venue[o].working /\ summed(fills_after(report)[o], "quantity") = venue[o].filled
<1>1. DOMAIN report = T /\ \A o \in T : report[o] \in Reports(o)
  BY DEF ReportsOf
<1>2. polled_done(report) \subseteq T /\ news(report) \subseteq T
  BY <1>1 DEF polled_done, news
<1>3. ASSUME NEW o \in T
      PROVE  /\ report[o] \in ReportRows /\ report[o].filled <= venue[o].filled
             /\ report[o].is_done => report[o].filled = venue[o].filled /\ ~venue[o].working
  BY <1>1, ReportFacts
<1>4. ASSUME NEW o \in T PROVE o \in news(report) <=> report[o].filled > booked(o)
  BY <1>1 DEF news
<1>5. ASSUME NEW o \in Orders
      PROVE  /\ fills_after(report)[o] \in Seq(FillRows)
             /\ Sound(rows[o], fills_after(report)[o], venue[o])
             /\ summed(fills_after(report)[o], "quantity") =
                  IF o \in news(report) THEN report[o].filled ELSE booked(o)
             /\ summed(fills_after(report)[o], "fees") =
                  IF o \in news(report) THEN report[o].fees ELSE charged(o)
             /\ o \in polled_done(report) =>
                  ~venue[o].working /\ summed(fills_after(report)[o], "quantity") = venue[o].filled
  <2> DEFINE g == fills_after(report)[o]
  <2>1. /\ rows[o] \in OrderRows /\ fills[o] \in Seq(FillRows) /\ venue[o] \in VenueRows
        /\ Sound(rows[o], fills[o], venue[o])
    BY OrderAt DEF SoundInv
  <2>2. CASE o \notin T
    <3>1. g = fills[o]
      BY <1>2, <2>2 DEF fills_after
    <3>2. o \notin news(report) /\ o \notin polled_done(report)
      BY <1>2, <2>2
    <3> QED
      BY <2>1, <3>1, <3>2 DEF booked, charged
  <2>3. CASE o \in T
    <3>1. g = IF report[o].filled > summed(fills[o], "quantity")
              THEN Append(fills[o], [quantity |-> report[o].filled - summed(fills[o], "quantity"),
                                     fees |-> report[o].fees - summed(fills[o], "fees"),
                                     total |-> report[o].fees])
              ELSE fills[o]
      <4>1. g = IF o \in news(report) THEN Append(fills[o], row_of(o, report[o])) ELSE fills[o]
        BY DEF fills_after
      <4> QED
        BY <1>4, <2>3, <4>1, Zenon DEF row_of, booked, charged
    <3> HIDE DEF g
    <3>2. /\ g \in Seq(FillRows) /\ Sound(rows[o], g, venue[o])
          /\ summed(g, "quantity") = IF report[o].filled > summed(fills[o], "quantity")
                                     THEN report[o].filled ELSE summed(fills[o], "quantity")
          /\ summed(g, "fees") = IF report[o].filled > summed(fills[o], "quantity")
                                 THEN report[o].fees ELSE summed(fills[o], "fees")
      <4> DEFINE rep == report[o]
                 r == rows[o]
                 f == fills[o]
                 v == venue[o]
      <4>1. rep \in ReportRows /\ rep.filled <= v.filled
        BY <1>3, <2>3
      <4>2. /\ r \in OrderRows /\ f \in Seq(FillRows) /\ v \in VenueRows /\ Sound(r, f, v)
        BY <2>1
      <4>3. AfterReport(g, f, rep)
        BY <3>1 DEF AfterReport
      <4> HIDE DEF rep, r, f, v
      <4>4. Booked(r, f, v, rep, g)
        BY <4>1, <4>2, <4>3, SoundBooked, Zenon
      <4> QED
        BY <4>4, Zenon DEF Booked, rep, r, f, v
    <3>3. /\ summed(g, "quantity") = IF o \in news(report) THEN report[o].filled ELSE booked(o)
          /\ summed(g, "fees") = IF o \in news(report) THEN report[o].fees ELSE charged(o)
      BY <1>4, <2>3, <3>2 DEF booked, charged
    <3>4. ASSUME o \in polled_done(report)
          PROVE  ~venue[o].working /\ summed(g, "quantity") = venue[o].filled
      <4>1. report[o].is_done
        BY <3>4 DEF polled_done
      <4>2. report[o].filled = venue[o].filled /\ ~venue[o].working
        BY <1>3, <2>3, <4>1
      <4>3. summed(fills[o], "quantity") \in Int /\ venue[o].filled \in Nat
            /\ summed(fills[o], "quantity") <= venue[o].filled
        BY <2>1, SummedInt DEF Sound, VenueRows
      <4> QED
        BY <3>2, <4>2, <4>3
    <3> QED
      BY <3>2, <3>3, <3>4 DEF g
  <2> QED
    BY <2>2, <2>3
<1>6. fills_after(report) \in [Orders -> Seq(FillRows)]
  <2>1. fills_after(report) = [o \in Orders |-> fills_after(report)[o]]
    BY DEF fills_after
  <2> QED
    BY <1>5, <2>1
<1> QED
  BY <1>1, <1>2, <1>3, <1>4, <1>5, <1>6

(* Closing what is done.                                                   *)
LEMMA CloseFacts ==
  ASSUME LedgerType, NEW f, \A o \in Orders : Sound(rows[o], f[o], venue[o]),
         NEW closing, NEW st \in States, NEW n \in Notes,
         st = "FILLED" => \A o \in closing \cap Orders :
                            ~venue[o].working /\ summed(f[o], "quantity") = venue[o].filled,
         close_rows(closing, st, n)
  PROVE  /\ rows' \in [Orders -> OrderRows]
         /\ \A o \in Orders : /\ Sound(rows'[o], f[o], venue[o])
                              /\ rows'[o].symbol = rows[o].symbol
                              /\ rows'[o].quantity = rows[o].quantity
<1>1. rows' = [o \in Orders |-> IF o \in closing
                                THEN [rows[o] EXCEPT !.state = st, !.note = n] ELSE rows[o]]
  BY DEF close_rows
<1>2. ASSUME NEW o \in Orders
      PROVE  /\ rows'[o] \in OrderRows /\ Sound(rows'[o], f[o], venue[o])
             /\ rows'[o].symbol = rows[o].symbol /\ rows'[o].quantity = rows[o].quantity
  <2>1. rows[o] \in OrderRows
    BY OrderAt
  <2>2. CASE o \notin closing
    BY <1>1, <2>1, <2>2
  <2>3. CASE o \in closing
    <3> DEFINE a == [rows[o] EXCEPT !.state = st, !.note = n]
    <3>1. rows'[o] = a
      BY <1>1, <2>3
    <3>2. a.symbol = rows[o].symbol /\ a.quantity = rows[o].quantity
      BY <2>1 DEF OrderRows
    <3>3. a \in OrderRows /\ Sound(a, f[o], venue[o])
      BY <2>1, <2>3, SoundClosed
    <3> QED
      BY <3>1, <3>2, <3>3
  <2> QED
    BY <2>2, <2>3
<1>3. rows' \in [Orders -> OrderRows]
  BY <1>1, <1>2
<1> QED
  BY <1>2, <1>3

(* A round of polling keeps every order sound and takes none away          *)
(* (_poll_once).                                                           *)
LEMMA PollStep ==
  ASSUME LedgerType, SoundInv, NEW T \in SUBSET Orders, NEW report \in ReportsOf(T),
         PollBooks(report), venue' = venue
  PROVE  LedgerType' /\ SoundInv' /\ SameOrders
<1> DEFINE f == fills_after(report)
<1>1. /\ f \in [Orders -> Seq(FillRows)]
      /\ \A o \in Orders :
           /\ Sound(rows[o], f[o], venue[o])
           /\ o \in polled_done(report) =>
                ~venue[o].working /\ summed(f[o], "quantity") = venue[o].filled
  BY PollFacts
<1>2. fills' = f /\ close_rows(polled_done(report), "FILLED", "")
  BY DEF PollBooks
<1> HIDE DEF f
<1>3. /\ rows' \in [Orders -> OrderRows]
      /\ \A o \in Orders : /\ Sound(rows'[o], f[o], venue[o])
                           /\ rows'[o].symbol = rows[o].symbol
                           /\ rows'[o].quantity = rows[o].quantity
  <2>1. "FILLED" \in States /\ "" \in Notes
    BY DEF States, Notes
  <2> QED
    BY <1>1, <1>2, <2>1, CloseFacts
<1>4. venue \in [Orders -> VenueRows]
  BY OrderAt
<1>5. LedgerType' /\ SoundInv' /\ Orders' = Orders
  BY <1>1, <1>2, <1>3, <1>4, InPlace
<1> QED
  BY <1>3, <1>5 DEF SameOrders

(* Recovery closes the intents without a number and books the others.      *)
LEMMA RecoverFacts ==
  ASSUME LedgerType, SoundInv, Recover
  PROVE  \E T \in SUBSET Orders : \E report \in ReportsOf(T) :
           /\ fills' = fills_after(report) /\ venue' = venue
           /\ LedgerType' /\ SoundInv' /\ SameOrders
           /\ \E b \in BOOLEAN :
                session' = [session EXCEPT !.phase = "compare", !.orphans = b,
                              !.held = change_of(report), !.tracked = T \ polled_done(report)]
<1> DEFINE open == get_open_orders
           orphans == {o \in open : ~rows[o].numbered}
           T == open \ orphans
<1>1. PICK report \in ReportsOf(T) :
        /\ rows' = [o \in Orders |->
                      IF o \in orphans
                      THEN [rows[o] EXCEPT !.state = "REJECTED", !.note = "orphan"]
                      ELSE IF o \in polled_done(report)
                           THEN [rows[o] EXCEPT !.state = "FILLED"] ELSE rows[o]]
        /\ fills' = fills_after(report)
        /\ session' = [session EXCEPT !.phase = "compare", !.orphans = orphans # {},
                          !.held = change_of(report), !.tracked = T \ polled_done(report)]
  BY RecoverIs, Zenon DEF RecoverBooks
<1>2. T \in SUBSET Orders
  BY DEF get_open_orders
<1>3. venue' = venue
  BY DEF Recover, accountVars
<1>4. (orphans # {}) \in BOOLEAN
  OBVIOUS
<1> HIDE DEF open, orphans, T
<1> DEFINE f == fills_after(report)
<1>5. /\ f \in [Orders -> Seq(FillRows)]
      /\ \A o \in Orders :
           /\ Sound(rows[o], f[o], venue[o])
           /\ o \in polled_done(report) =>
                ~venue[o].working /\ summed(f[o], "quantity") = venue[o].filled
  BY <1>2, PollFacts
<1> HIDE DEF f
<1>6. ASSUME NEW o \in Orders
      PROVE  /\ rows'[o] \in OrderRows /\ Sound(rows'[o], f[o], venue[o])
             /\ rows'[o].symbol = rows[o].symbol /\ rows'[o].quantity = rows[o].quantity
  <2> DEFINE a == [rows[o] EXCEPT !.state = "REJECTED", !.note = "orphan"]
             b == [rows[o] EXCEPT !.state = "FILLED"]
  <2>1. rows[o] \in OrderRows
    BY OrderAt
  <2>2. rows'[o] = IF o \in orphans THEN a ELSE IF o \in polled_done(report) THEN b ELSE rows[o]
    BY <1>1, Zenon
  <2>3. /\ a.symbol = rows[o].symbol /\ a.quantity = rows[o].quantity
        /\ b.symbol = rows[o].symbol /\ b.quantity = rows[o].quantity
    BY <2>1 DEF OrderRows
  <2>4. a \in OrderRows /\ Sound(a, f[o], venue[o])
    <3>1. "REJECTED" \in States /\ "orphan" \in Notes /\ "REJECTED" # "FILLED"
      BY DEF States, Notes
    <3> QED
      BY <1>5, <2>1, <3>1, SoundClosed
  <2>5. o \in polled_done(report) => b \in OrderRows /\ Sound(b, f[o], venue[o])
    <3>1. "FILLED" \in States /\ "" \in Notes
      BY DEF States, Notes
    <3> QED
      BY <1>5, <2>1, <3>1, SoundClosed
  <2> HIDE DEF a, b
  <2> QED
    BY <1>5, <2>1, <2>2, <2>3, <2>4, <2>5
<1>7. rows' \in [Orders -> OrderRows]
  <2>1. rows' = [o \in Orders |-> rows'[o]]
    BY <1>1, Zenon
  <2> QED
    BY <1>6, <2>1
<1>8. venue \in [Orders -> VenueRows] /\ fills' = f
  BY <1>1, OrderAt DEF f
<1>9. LedgerType' /\ SoundInv' /\ Orders' = Orders
  BY <1>3, <1>5, <1>6, <1>7, <1>8, InPlace
<1>10. SameOrders
  BY <1>6, <1>9 DEF SameOrders
<1> QED
  BY <1>1, <1>2, <1>3, <1>4, <1>9, <1>10

(* A fill, the end of an order and the end of a day.                       *)
LEMMA VenueStep ==
  ASSUME LedgerType, SoundInv, UNCHANGED <<rows, fills>>,
         NewDay \/ \E o \in Orders : Fill(o) \/ Drop(o)
  PROVE  LedgerType' /\ SoundInv' /\ SameOrders
<1>1. /\ rows \in [Orders -> OrderRows] /\ fills \in [Orders -> Seq(FillRows)]
      /\ venue \in [Orders -> VenueRows]
      /\ \A o \in Orders : /\ rows[o] \in OrderRows /\ fills[o] \in Seq(FillRows)
                           /\ venue[o] \in VenueRows /\ Sound(rows[o], fills[o], venue[o])
  BY OrderAt DEF SoundInv
<1>2. \A o \in Orders :
         /\ [venue[o] EXCEPT !.working = FALSE] \in VenueRows
         /\ Sound(rows[o], fills[o], [venue[o] EXCEPT !.working = FALSE])
         /\ [venue[o] EXCEPT !.today = FALSE, !.working = FALSE] \in VenueRows
         /\ Sound(rows[o], fills[o], [venue[o] EXCEPT !.today = FALSE, !.working = FALSE])
  BY <1>1, SoundAtVenue
<1>3. /\ venue' \in [Orders -> VenueRows]
      /\ \A o \in Orders : Sound(rows[o], fills[o], venue'[o])
  <2>1. CASE NewDay
    <3>1. venue' = [o \in Orders |-> [venue[o] EXCEPT !.today = FALSE, !.working = FALSE]]
      BY <2>1 DEF NewDay
    <3> QED
      BY <1>2, <3>1
  <2>2. ASSUME NEW o \in Orders, Drop(o)
        PROVE  /\ venue' \in [Orders -> VenueRows]
               /\ \A p \in Orders : Sound(rows[p], fills[p], venue'[p])
    <3> DEFINE a == [venue[o] EXCEPT !.working = FALSE]
    <3>1. venue' = [venue EXCEPT ![o] = a]
      BY <2>2 DEF Drop
    <3>2. a \in VenueRows /\ Sound(rows[o], fills[o], a)
      BY <1>2
    <3> HIDE DEF a
    <3>3. venue'[o] = a /\ \A p \in Orders : p # o => venue'[p] = venue[p]
      BY <1>1, <3>1
    <3>4. venue' \in [Orders -> VenueRows]
      BY <1>1, <3>1, <3>2
    <3> QED
      BY <1>1, <3>2, <3>3, <3>4
  <2>3. ASSUME NEW o \in Orders, Fill(o)
        PROVE  /\ venue' \in [Orders -> VenueRows]
               /\ \A p \in Orders : Sound(rows[p], fills[p], venue'[p])
    <3> DEFINE last == Magnitude(rows[o].quantity) - venue[o].filled = 1
               a == [venue[o] EXCEPT !.filled = @ + 1, !.working = ~last]
    <3>1. venue' = [venue EXCEPT ![o] = a]
      BY <1>1, <2>3 DEF Fill, Rest
    <3>2. a \in VenueRows /\ Sound(rows[o], fills[o], a)
      BY <1>1, <2>3, SoundAtVenue DEF Fill, Working
    <3> HIDE DEF a
    <3>3. venue'[o] = a /\ \A p \in Orders : p # o => venue'[p] = venue[p]
      BY <1>1, <3>1
    <3>4. venue' \in [Orders -> VenueRows]
      BY <1>1, <3>1, <3>2
    <3> QED
      BY <1>1, <3>2, <3>3, <3>4
  <2> QED
    BY <2>1, <2>2, <2>3
<1>4. LedgerType' /\ SoundInv' /\ Orders' = Orders
  BY <1>1, <1>3, InPlace
<1> QED
  BY <1>4 DEF SameOrders

(* Integer division rounds down, and a price times more is more.           *)
LEMMA Affordable ==
  ASSUME NEW c \in Int, NEW p \in Nat \ {0}, NEW n \in Int, n <= c \div p
  PROVE  c \div p \in Int /\ p * n <= c
<1> DEFINE a == c \div p
<1>1. a \in Int /\ p * a <= c
  OBVIOUS
<1> HIDE DEF a
<1>2. p * n <= p * a
  <2>1. a - n \in Nat /\ p * (a - n) \in Nat
    BY <1>1 DEF a
  <2>2. p * a = p * n + p * (a - n)
    BY <1>1
  <2> QED
    BY <1>1, <2>1, <2>2
<1> QED
  BY <1>1, <1>2 DEF a

(* _clamp_quantity never exceeds what the portfolio has.                   *)
LEMMA ClampFacts ==
  ASSUME session.held \in [Symbols -> Int], session.cash \in Int,
         NEW symbol \in Symbols, NEW asked \in Int
  PROVE  /\ clamp_quantity(symbol, asked) \in Int
         /\ clamp_quantity(symbol, asked) < 0 =>
              0 - clamp_quantity(symbol, asked) <= session.held[symbol]
         /\ clamp_quantity(symbol, asked) > 0 =>
              Price * clamp_quantity(symbol, asked) <= session.cash
<1> DEFINE q == clamp_quantity(symbol, asked)
           h == session.held[symbol]
           a == session.cash \div Price
<1>1. Price \in Nat \ {0} /\ h \in Int
  BY DeploymentAssumption
<1>2. a \in Int
  BY <1>1, Affordable
<1>3. CASE asked < 0
  <2>1. q = IF h <= 0 THEN 0 ELSE IF 0 - asked > h THEN 0 - h ELSE asked
    BY <1>3 DEF clamp_quantity
  <2> HIDE DEF q, h
  <2>2. q \in Int /\ q <= 0 /\ (q < 0 => 0 - q <= h)
    BY <1>1, <1>3, <2>1
  <2> QED
    BY <2>2 DEF q, h
<1>4. CASE ~(asked < 0)
  <2>1. q = IF a <= 0 THEN 0 ELSE IF a < asked THEN a ELSE asked
    BY <1>4 DEF clamp_quantity
  <2> HIDE DEF q
  <2>2. q \in Int /\ q >= 0 /\ (q > 0 => q <= a)
    <3> HIDE DEF a
    <3> QED
      BY <1>2, <1>4, <2>1
  <2>3. q > 0 => Price * q <= session.cash
    BY <1>1, <2>2, Affordable
  <2>4. ~(q < 0)
    BY <2>2
  <2> QED
    BY <2>2, <2>3, <2>4 DEF q
<1> QED
  BY <1>3, <1>4

(* A row for a new order.                                                  *)
LEMMA AddRowStep ==
  ASSUME LedgerType, SoundInv, session.who \in Deployments,
         NEW symbol \in Symbols, NEW q \in Int \ {0}, NEW st \in {"REJECTED", "INTENT"},
         NEW n \in Notes, AddRow(symbol, q, st, n)
  PROVE  /\ LedgerType' /\ SoundInv'
         /\ Called' = Len(rows) + 1 /\ Called' \in Orders' /\ Orders' \ {Called'} = Orders
         /\ rows'[Called'].symbol = symbol /\ rows'[Called'].quantity = q
         /\ rows'[Called'].state = st /\ rows'[Called'].note = n /\ fills'[Called'] = <<>>
         /\ venue'[Called'].filled = 0 /\ venue'[Called'].working = FALSE
         /\ \A o \in Orders : rows'[o] = rows[o] /\ fills'[o] = fills[o] /\ venue'[o] = venue[o]
<1> DEFINE r == NewRow(symbol, q, st, n)
           v == [filled |-> 0, working |-> FALSE, today |-> FALSE]
           m == Len(rows) + 1
<1>1. r \in OrderRows /\ r.symbol = symbol /\ r.quantity = q /\ r.state = st /\ r.note = n
  BY DEF NewRow, OrderRows, States
<1>2. v \in VenueRows /\ v.filled = 0 /\ v.working = FALSE
  BY DEF VenueRows
<1>3. rows' = Append(rows, r) /\ fills' = Append(fills, <<>>) /\ venue' = Append(venue, v)
  BY DEF AddRow
<1>4. <<>> \in Seq(FillRows)
  OBVIOUS
<1> HIDE DEF r, v
<1>5. /\ Len(rows) \in Nat /\ Len(fills) = Len(rows) /\ Len(venue) = Len(rows)
      /\ rows \in Seq(OrderRows) /\ fills \in Seq(Seq(FillRows)) /\ venue \in Seq(VenueRows)
  BY LenProperties DEF LedgerType
<1>6. /\ rows' \in Seq(OrderRows) /\ Len(rows') = m /\ rows'[m] = r
      /\ \A i \in 1..Len(rows) : rows'[i] = rows[i]
  BY <1>1, <1>3, <1>5, AppendProperties
<1>7. /\ fills' \in Seq(Seq(FillRows)) /\ Len(fills') = m /\ fills'[m] = <<>>
      /\ \A i \in 1..Len(rows) : fills'[i] = fills[i]
  BY <1>3, <1>4, <1>5, AppendProperties
<1>8. /\ venue' \in Seq(VenueRows) /\ Len(venue') = m /\ venue'[m] = v
      /\ \A i \in 1..Len(rows) : venue'[i] = venue[i]
  BY <1>2, <1>3, <1>5, AppendProperties
<1>9. Called' = m /\ m \in Orders' /\ Orders' \ {m} = Orders
  BY <1>5, <1>6 DEF Called, Orders
<1>10. Sound(r, <<>>, v)
  <2>1. summed(<<>>, "quantity") = 0
    BY SummedEmpty
  <2>2. 0 <= Magnitude(q) /\ st # "FILLED"
    BY DEF Magnitude
  <2> QED
    BY <1>1, <1>2, <2>1, <2>2 DEF Sound
<1>11. ASSUME NEW o \in Orders' PROVE Sound(rows'[o], fills'[o], venue'[o])
  <2>1. CASE o = m
    BY <1>6, <1>7, <1>8, <1>10, <2>1
  <2>2. CASE o # m
    <3>1. o \in Orders
      BY <1>9, <2>2
    <3> QED
      BY <1>6, <1>7, <1>8, <3>1 DEF SoundInv, Orders
  <2> QED
    BY <2>1, <2>2
<1>12. LedgerType' /\ SoundInv'
  BY <1>6, <1>7, <1>8, <1>11 DEF LedgerType, SoundInv
<1> HIDE DEF m
<1> QED
  BY <1>1, <1>2, <1>6, <1>7, <1>8, <1>9, <1>12 DEF Orders, m

(* The venue's answer, or none: the called row changes its state, and the  *)
(* order is at the venue or is not.                                        *)
LEMMA CallStep ==
  ASSUME LedgerType, SoundInv, CallInv, session.phase = "calling", fills' = fills,
         rows' = rows \/ rows' = [rows EXCEPT ![Called].state = "SUBMITTED", ![Called].numbered = TRUE]
           \/ rows' = [rows EXCEPT ![Called].state = "REJECTED", ![Called].note = "venue"],
         venue' = venue \/ venue' = [venue EXCEPT ![Called] = Taken]
  PROVE  LedgerType' /\ SoundInv' /\ SameOrders
<1> DEFINE c == Called
<1>1. /\ c \in Orders /\ rows[c].state = "INTENT" /\ fills[c] = <<>>
      /\ venue[c].filled = 0
  BY DEF CallInv
<1>2. /\ rows \in [Orders -> OrderRows] /\ fills \in [Orders -> Seq(FillRows)]
      /\ venue \in [Orders -> VenueRows] /\ rows[c] \in OrderRows
  BY <1>1, OrderAt
<1>3. Sound(rows[c], <<>>, venue[c])
  BY <1>1 DEF SoundInv
<1> DEFINE a == [rows[c] EXCEPT !.state = "SUBMITTED", !.numbered = TRUE]
           b == [rows[c] EXCEPT !.state = "REJECTED", !.note = "venue"]
<1>4. /\ a \in OrderRows /\ a.symbol = rows[c].symbol /\ a.quantity = rows[c].quantity
      /\ a.state = "SUBMITTED"
      /\ b \in OrderRows /\ b.symbol = rows[c].symbol /\ b.quantity = rows[c].quantity
      /\ b.state = "REJECTED"
  BY <1>2 DEF OrderRows, States, Notes
<1>5. \/ rows' = rows \/ rows' = [rows EXCEPT ![c] = a] \/ rows' = [rows EXCEPT ![c] = b]
  <2>1. DOMAIN rows = Orders /\ rows[c] = [rows[c] EXCEPT !.state = @]
    BY <1>2 DEF OrderRows
  <2> HIDE DEF c
  <2>2. /\ [rows EXCEPT ![c].state = "SUBMITTED", ![c].numbered = TRUE] = [rows EXCEPT ![c] = a]
        /\ [rows EXCEPT ![c].state = "REJECTED", ![c].note = "venue"] = [rows EXCEPT ![c] = b]
    BY <1>1, <1>2
  <2> QED
    BY <2>2 DEF c
<1> HIDE DEF a, b
<1>6. /\ Taken \in VenueRows /\ Taken.filled = 0
  BY DEF Taken, VenueRows
<1> HIDE DEF c
<1>7. /\ rows'[c] = rows[c] \/ rows'[c] = a \/ rows'[c] = b
      /\ rows' \in [Orders -> OrderRows]
      /\ \A o \in Orders : o # c => rows'[o] = rows[o]
  <2>1. c \in Orders
    BY <1>1
  <2>2. CASE rows' = rows
    BY <1>2, <2>2
  <2>3. CASE rows' = [rows EXCEPT ![c] = a]
    BY <1>2, <1>4, <2>1, <2>3
  <2>4. CASE rows' = [rows EXCEPT ![c] = b]
    BY <1>2, <1>4, <2>1, <2>4
  <2> QED  BY <1>5, <2>2, <2>3, <2>4
<1>8. /\ venue'[c] = venue[c] \/ venue'[c] = Taken
      /\ venue' \in [Orders -> VenueRows]
      /\ \A o \in Orders : o # c => venue'[o] = venue[o]
  <2>1. venue' = venue \/ venue' = [venue EXCEPT ![c] = Taken]
    BY DEF c
  <2> HIDE DEF Taken
  <2> QED
    BY <1>1, <1>2, <1>6, <2>1
<1>9. rows'[c].symbol = rows[c].symbol /\ rows'[c].quantity = rows[c].quantity
      /\ rows'[c].state # "FILLED"
  BY <1>1, <1>4, <1>7
<1>10. Sound(rows'[c], fills[c], venue'[c])
  <2>1. venue'[c].filled = 0
    BY <1>1, <1>6, <1>8
  <2>2. 0 < Magnitude(rows[c].quantity) /\ 0 <= Magnitude(rows[c].quantity)
    <3>1. rows[c].quantity # 0 /\ rows[c].quantity \in Int
      BY <1>2, <1>3 DEF Sound, OrderRows
    <3> QED
      BY <3>1 DEF Magnitude
  <2>3. summed(<<>>, "quantity") = 0
    BY SummedEmpty
  <2>4. rows[c].quantity # 0
    BY <1>3 DEF Sound
  <2>5. 0 <= summed(fills[c], "quantity") /\ summed(fills[c], "quantity") <= venue'[c].filled
    BY <1>1, <2>1, <2>3
  <2> QED
    BY <1>1, <1>9, <2>1, <2>2, <2>4, <2>5 DEF Sound
<1>11. \A o \in Orders : Sound(rows'[o], fills[o], venue'[o])
  BY <1>7, <1>8, <1>10 DEF SoundInv
<1>12. LedgerType' /\ SoundInv' /\ Orders' = Orders
  BY <1>2, <1>7, <1>8, <1>11, InPlace
<1> QED
  BY <1>7, <1>9, <1>12 DEF SameOrders

(* The ledger, the account and the process, each order by itself.          *)
BaseInv == LedgerType /\ AccountType /\ ProcessType /\ SoundInv /\ CallInv

(* What a round books into the portfolio is a number of shares and of cash.*)
LEMMA ChangeType ==
  ASSUME LedgerType, SoundInv, NEW T \in SUBSET Orders, NEW report \in ReportsOf(T)
  PROVE  change_of(report) \in [Symbols -> Int] /\ cost_of(report) \in Int
<1>1. /\ news(report) \subseteq Orders /\ DOMAIN report = T
      /\ \A o \in news(report) : report[o] \in ReportRows
  <2>1. news(report) \subseteq T /\ DOMAIN report = T /\ \A o \in T : report[o] \in ReportRows
    BY PollFacts
  <2> QED
    BY <2>1
<1>2. IsFiniteSet(news(report))
  <2>1. IsFiniteSet(Orders)
    BY FS_Interval, OrderAt
  <2> QED
    BY <1>1, <2>1, FS_Subset
<1>3. ASSUME NEW o \in news(report)
      PROVE  /\ Position(o, report[o].filled - booked(o)) \in Int
             /\ Position(o, report[o].filled - booked(o)) * Price + row_of(o, report[o]).fees \in Int
  <2> DEFINE p == Position(o, report[o].filled - booked(o))
             e == row_of(o, report[o]).fees
  <2>1. rows[o] \in OrderRows /\ fills[o] \in Seq(FillRows)
    BY <1>1, OrderAt
  <2>2. booked(o) \in Int /\ charged(o) \in Int
    BY <2>1, SummedInt DEF booked, charged
  <2>3. report[o].filled \in Nat /\ report[o].fees \in Nat
    BY <1>1 DEF ReportRows
  <2>4. p \in Int
    BY <2>2, <2>3 DEF Position
  <2>5. e = report[o].fees - charged(o)
    BY DEF row_of
  <2>6. e \in Int
    BY <2>2, <2>3, <2>5
  <2>7. Price \in Int
    BY DeploymentAssumption
  <2> HIDE DEF p, e
  <2>8. p * Price + e \in Int
    BY <2>4, <2>6, <2>7
  <2> QED
    BY <2>4, <2>8 DEF p, e
<1>4. ASSUME NEW s \in Symbols PROVE change_of(report)[s] \in Int
  <2> DEFINE S == {p \in news(report) : rows[p].symbol = s}
             g == [o \in S |-> Position(o, report[o].filled - booked(o))]
  <2>1. IsFiniteSet(S)
    BY <1>2, FS_Subset
  <2>2. DOMAIN g = S /\ \A o \in S : g[o] \in Int
    BY <1>3
  <2>3. change_of(report)[s] = SumFunction(g)
    BY DEF change_of
  <2> HIDE DEF g, S
  <2> QED
    BY <2>1, <2>2, <2>3, SumInt DEF SumFunction
<1>5. change_of(report) = [s \in Symbols |-> change_of(report)[s]]
  BY DEF change_of
<1>6. cost_of(report) \in Int
  <2> DEFINE S == news(report)
             g == [o \in S |-> Position(o, report[o].filled - booked(o)) * Price
                               + row_of(o, report[o]).fees]
  <2>2. DOMAIN g = S /\ \A o \in S : g[o] \in Int
    BY <1>3
  <2>3. cost_of(report) = SumFunction(g)
    BY DEF cost_of
  <2> HIDE DEF g, S
  <2> QED
    BY <1>2, <2>2, <2>3, SumInt DEF SumFunction, S
<1> QED
  BY <1>4, <1>5, <1>6

(* A process in any phase before it settles, and while it settles.         *)
LEMMA RunningIs ==
  ASSUME ProcessType, session.phase \in Owning
  PROVE  /\ RunningType(session) /\ session.tracked \in SUBSET Orders
         /\ session.sent \subseteq Orders
<1>1. session # NoSession /\ session # [phase |-> "promoted"]
  BY DEF Owning, NoSession
<1>2. \A t \in SUBSET Orders : session # Settling(t)
  BY DEF Owning, Settling
<1> QED
  BY <1>1, <1>2 DEF ProcessType

(* A settling process tracks orders of the ledger.                         *)
LEMMA SettlingIs ==
  ASSUME ProcessType, session.phase = "settle"
  PROVE  session.tracked \in SUBSET Orders
<1>1. session # NoSession /\ session # [phase |-> "promoted"]
  BY DEF NoSession
<1>2. ~RunningType(session)
  BY DEF RunningType, Processes, Owning
<1>3. PICK t \in SUBSET Orders : session = Settling(t)
  BY <1>1, <1>2 DEF ProcessType
<1> QED
  BY <1>3 DEF Settling

(* A process that has ended.                                               *)
LEMMA EndedIs ==
  ASSUME session' = NoSession \/ session' = [phase |-> "promoted"]
           \/ \E t \in SUBSET Orders' : session' = Settling(t)
  PROVE  /\ ProcessType' /\ session'.phase \notin Owning
         /\ CallInv'
<1>1. session'.phase \notin Owning
  BY DEF NoSession, Settling, Owning
<1>2. ProcessType'
  BY DEF ProcessType
<1>3. session'.phase # "calling"
  BY <1>1 DEF Owning
<1> QED
  BY <1>1, <1>2, <1>3 DEF CallInv

(* Nothing on record changes.                                              *)
LEMMA LedgerFrame ==
  ASSUME LedgerType, SoundInv, UNCHANGED <<rows, fills, venue>>
  PROVE  LedgerType' /\ SoundInv' /\ SameOrders
BY DEF LedgerType, SoundInv, SameOrders, Orders

(* A launch starts with an empty portfolio (LiveBroker.__init__).          *)
LEMMA LaunchBase ==
  ASSUME BaseInv, NEW who \in Deployments, NEW aim \in Aims, Launch(who, aim)
  PROVE  BaseInv' /\ session'.phase = "recover"
<1>1. LedgerType' /\ SoundInv' /\ AccountType'
  BY LedgerFrame DEF BaseInv, Launch, accountVars, AccountType
<1>2. session' = NewSession(who, aim)
  BY DEF Launch
<1>3. /\ session' \in Processes /\ session'.phase = "recover" /\ session'.sent = {}
      /\ session'.tracked = {}
  <2>1. [s \in Symbols |-> 0] \in [Symbols -> Int]
    OBVIOUS
  <2> QED
    BY <1>2, <2>1 DEF NewSession, Processes, Owning
<1>4. ProcessType'
  <2>1. RunningType(session')
    BY <1>3, FS_EmptySet DEF RunningType
  <2> QED
    BY <1>3, <2>1 DEF ProcessType
<1> QED
  BY <1>1, <1>3, <1>4 DEF BaseInv, CallInv

(* Recovery keeps the base invariant (_recover_open_orders).               *)
LEMMA RecoverBase ==
  ASSUME BaseInv, Recover
  PROVE  BaseInv' /\ session'.phase = "compare"
<1>0. PICK T \in SUBSET Orders : \E report \in ReportsOf(T) :
        /\ LedgerType' /\ SoundInv' /\ SameOrders
        /\ \E b \in BOOLEAN :
             session' = [session EXCEPT !.phase = "compare", !.orphans = b,
                           !.held = change_of(report), !.tracked = T \ polled_done(report)]
  BY RecoverFacts, Zenon DEF BaseInv
<1>1. PICK report \in ReportsOf(T), b \in BOOLEAN :
        /\ LedgerType' /\ SoundInv' /\ SameOrders
        /\ session' = [session EXCEPT !.phase = "compare", !.orphans = b,
                         !.held = change_of(report), !.tracked = T \ polled_done(report)]
  BY <1>0, Zenon
<1>2. AccountType'
  BY DEF BaseInv, AccountType, Recover, accountVars
<1>3. RunningType(session) /\ session.sent = {}
  <2>1. session.phase = "recover"
    BY DEF Recover
  <2>2. RunningType(session)
    BY <2>1, RunningIs DEF BaseInv, Owning
  <2> QED
    BY <2>1, <2>2 DEF RunningType
<1>4. change_of(report) \in [Symbols -> Int]
  BY ChangeType DEF BaseInv
<1>5. T \ polled_done(report) \in SUBSET Nat /\ T \ polled_done(report) \subseteq Orders
  BY OrderAt DEF BaseInv
<1>6. /\ session' \in Processes /\ session'.phase = "compare" /\ session'.sent = {}
      /\ session'.tracked = T \ polled_done(report)
  BY <1>1, <1>3, <1>4, <1>5 DEF RunningType, Processes, Owning
<1>7. ProcessType'
  <2>1. RunningType(session')
    BY <1>6, FS_EmptySet DEF RunningType
  <2>2. session'.tracked \subseteq Orders'
    BY <1>1, <1>5, <1>6 DEF SameOrders
  <2> QED
    BY <1>6, <2>1, <2>2 DEF ProcessType
<1> QED
  BY <1>1, <1>2, <1>6, <1>7 DEF BaseInv, CallInv

(* Nothing works at the venue, and every fill of a tracked order is        *)
(* booked.                                                                 *)
Quiet == \A o \in Orders : ~Working(o) /\ (o \in session.tracked => ~Unseen(o))

(* What a comparison leaves alone, and what a launch goes on with          *)
(* (reconcile, seed_from_venue).                                           *)
LEMMA CompareBase ==
  ASSUME BaseInv, Compare
  PROVE  /\ BaseInv' /\ UNCHANGED <<rows, fills, venue, held, cash, by_hand>>
         /\ raced' = (raced \/ \E o \in Orders : Unseen(o) \/ (Working(o) /\ rows[o].quantity < 0))
         /\ \/ session' = NoSession
            \/ /\ RunningType(session') /\ session'.phase = "update"
               /\ session'.held = held /\ session'.cash = cash /\ session'.sent = {}
               /\ session'.tracked = session.tracked /\ session'.quiet = Quiet
<1>1. LedgerType' /\ SoundInv' /\ AccountType' /\ SameOrders
  BY LedgerFrame DEF BaseInv, Compare, ledgerVars, accountVars, AccountType
<1>2. RunningType(session) /\ session.sent = {} /\ session.tracked \in SUBSET Orders
  <2>1. session.phase = "compare"
    BY DEF Compare
  <2>2. RunningType(session) /\ session.tracked \in SUBSET Orders
    BY <2>1, RunningIs DEF BaseInv, Owning
  <2> QED
    BY <2>1, <2>2 DEF RunningType
<1> DEFINE p == [session EXCEPT !.phase = "update", !.held = held, !.cash = cash,
                                 !.orphans = FALSE, !.quiet = Quiet]
<1>3. session' = NoSession \/ session' = p
  BY Zenon DEF Compare, Quiet
<1>4. /\ p \in Processes /\ p.phase = "update" /\ p.held = held /\ p.cash = cash
      /\ p.tracked = session.tracked /\ p.sent = {} /\ p.quiet = Quiet
  <2>1. Quiet \in BOOLEAN
    BY DEF Quiet
  <2>2. held \in [Symbols -> Int] /\ cash \in Int
    BY DEF BaseInv, AccountType
  <2> HIDE DEF Quiet
  <2> QED
    BY <1>2, <2>1, <2>2 DEF RunningType, Processes, Owning
<1>5. RunningType(p)
  BY <1>4, FS_EmptySet DEF RunningType
<1>6. CASE session' = NoSession
  BY <1>1, <1>6, EndedIs DEF BaseInv, Compare, ledgerVars, accountVars
<1>7. CASE session' = p
  <2> HIDE DEF p
  <2>1. ProcessType'
    BY <1>1, <1>2, <1>4, <1>5, <1>7 DEF ProcessType, SameOrders
  <2>2. BaseInv'
    BY <1>1, <1>4, <1>7, <2>1 DEF BaseInv, CallInv
  <2> QED
    BY <1>4, <1>5, <1>7, <2>2 DEF Compare, ledgerVars, accountVars
<1> QED
  BY <1>3, <1>6, <1>7

(* What an update changes: the fill rows of the tracked orders and, in a   *)
(* rebalance, the portfolio.                                               *)
LEMMA UpdateBase ==
  ASSUME BaseInv, UpdateBooks
  PROVE  /\ BaseInv' /\ SameOrders /\ UNCHANGED <<venue, held, cash, by_hand, raced>>
         /\ \E report \in ReportsOf(session.tracked) :
              /\ fills' = fills_after(report)
              /\ \/ session' = NoSession
                 \/ /\ RunningType(session') /\ session'.phase = "burst"
                    /\ session'.held = [s \in Symbols |-> session.held[s] + change_of(report)[s]]
                    /\ session'.cash = session.cash - cost_of(report)
                    /\ session'.sent = {} /\ session'.quiet = session.quiet
<1>1. PICK report \in ReportsOf(session.tracked) :
        /\ PollBooks(report)
        /\ \/ session' = [session EXCEPT
                   !.phase = "burst", !.tracked = @ \ polled_done(report),
                   !.held = [s \in Symbols |-> @[s] + change_of(report)[s]],
                   !.cash = @ - cost_of(report)]
           \/ session' = NoSession
  BY Zenon DEF UpdateBooks
<1>2. RunningType(session) /\ session.sent = {} /\ session.tracked \in SUBSET Orders
  <2>1. session.phase = "update"
    BY DEF UpdateBooks
  <2>2. RunningType(session) /\ session.tracked \in SUBSET Orders
    BY <2>1, RunningIs DEF BaseInv, Owning
  <2> QED
    BY <2>1, <2>2 DEF RunningType
<1>3. UNCHANGED <<venue, held, cash, by_hand, raced>>
  BY DEF UpdateBooks, accountVars
<1>4. LedgerType' /\ SoundInv' /\ SameOrders
  BY <1>1, <1>2, <1>3, PollStep DEF BaseInv
<1>5. AccountType'
  BY <1>3 DEF BaseInv, AccountType
<1>6. fills' = fills_after(report)
  BY <1>1 DEF PollBooks
<1> DEFINE h == [s \in Symbols |-> session.held[s] + change_of(report)[s]]
           c == session.cash - cost_of(report)
           t == session.tracked \ polled_done(report)
           p == [session EXCEPT !.phase = "burst", !.tracked = t, !.held = h, !.cash = c]
<1>7. h \in [Symbols -> Int] /\ c \in Int /\ t \in SUBSET Nat /\ t \subseteq Orders
  <2>1. change_of(report) \in [Symbols -> Int] /\ cost_of(report) \in Int
    BY <1>2, ChangeType DEF BaseInv
  <2>2. session.held \in [Symbols -> Int] /\ session.cash \in Int /\ session.tracked \in SUBSET Nat
    BY <1>2 DEF RunningType, Processes
  <2> QED
    BY <1>2, <2>1, <2>2
<1>8. session' = p \/ session' = NoSession
  BY <1>1, Zenon
<1> HIDE DEF h, c, t
<1>9. /\ p \in Processes /\ p.phase = "burst" /\ p.held = h /\ p.cash = c
      /\ p.tracked = t /\ p.sent = {} /\ p.quiet = session.quiet
  BY <1>2, <1>7 DEF RunningType, Processes, Owning
<1>10. RunningType(p)
  BY <1>9, FS_EmptySet DEF RunningType
<1>11. CASE session' = NoSession
  BY <1>3, <1>4, <1>5, <1>6, <1>11, EndedIs DEF BaseInv
<1>12. CASE session' = p
  <2> HIDE DEF p
  <2>1. ProcessType'
    BY <1>4, <1>7, <1>9, <1>10, <1>12 DEF ProcessType, SameOrders
  <2>2. BaseInv'
    BY <1>4, <1>5, <1>9, <1>12, <2>1 DEF BaseInv, CallInv
  <2>3. /\ RunningType(session') /\ session'.phase = "burst"
        /\ session'.held = [s \in Symbols |-> session.held[s] + change_of(report)[s]]
        /\ session'.cash = session.cash - cost_of(report)
        /\ session'.sent = {} /\ session'.quiet = session.quiet
    BY <1>9, <1>10, <1>12 DEF h, c
  <2> QED
    BY <1>3, <1>4, <1>6, <2>2, <2>3
<1> QED
  BY <1>8, <1>11, <1>12

(* The symbols of the orders of the burst.                                 *)
SentSymbols == { rows[o].symbol : o \in session.sent }

(* The venue call of an order is about to be made.                         *)
LEMMA SubmitBase ==
  ASSUME BaseInv, NEW symbol \in Symbols, NEW asked \in Asked, Submit(symbol, asked)
  PROVE  /\ BaseInv' /\ UNCHANGED <<held, cash, by_hand, raced>>
         /\ RunningType(session) /\ session.phase = "burst" /\ symbol \notin SentSymbols
         /\ Called' \in Orders' /\ Orders' \ {Called'} = Orders
         /\ rows'[Called'].symbol = symbol
         /\ fills'[Called'] = <<>> /\ venue'[Called'].filled = 0 /\ venue'[Called'].working = FALSE
         /\ \A o \in Orders : rows'[o] = rows[o] /\ fills'[o] = fills[o] /\ venue'[o] = venue[o]
         /\ \/ session' = NoSession
            \/ /\ RunningType(session') /\ session'.phase \in {"burst", "calling"}
               /\ session'.held = session.held /\ session'.cash = session.cash
               /\ session'.sent = session.sent \cup {Called'} /\ session'.quiet = session.quiet
               /\ SentSymbols' = SentSymbols \cup {symbol}
<1> DEFINE m == Len(rows) + 1
           q == clamp_quantity(symbol, asked)
           p1 == [session EXCEPT !.sent = @ \cup {m}]
           p2 == [session EXCEPT !.phase = "calling", !.sent = @ \cup {m}]
<1>1. /\ session.phase = "burst" /\ symbol \notin SentSymbols /\ q # 0
      /\ \/ /\ AddRow(symbol, q, "REJECTED", "kill switch")
            /\ session' = NoSession
         \/ /\ AddRow(symbol, q, "REJECTED", "limit")
            /\ session' = p1
         \/ /\ AddRow(symbol, q, "INTENT", "")
            /\ session' = p2
  BY Zenon DEF Submit, Ended, SentSymbols
<1>2. UNCHANGED <<held, cash, by_hand, raced>> /\ AccountType'
  BY DEF Submit, BaseInv, AccountType
<1>3. RunningType(session) /\ session.tracked \in SUBSET Orders /\ session.sent \subseteq Orders
  BY <1>1, RunningIs DEF BaseInv, Owning
<1>4. /\ session.held \in [Symbols -> Int] /\ session.cash \in Int /\ session.who \in Deployments
  BY <1>3 DEF RunningType, Processes
<1>5. asked \in Int
  BY DeploymentAssumption DEF Asked
<1>6. /\ q \in Int \ {0} /\ (q < 0 => 0 - q <= session.held[symbol])
      /\ (q > 0 => Price * q <= session.cash)
  BY <1>1, <1>4, <1>5, ClampFacts
<1> HIDE DEF q
<1>7. PICK st \in {"REJECTED", "INTENT"}, n \in Notes :
        /\ AddRow(symbol, q, st, n) /\ (session' = p2 => st = "INTENT" /\ n = "")
        /\ session' = NoSession \/ session' = p1 \/ session' = p2
  <2>1. /\ "kill switch" \in Notes /\ "limit" \in Notes /\ "" \in Notes
    BY DEF Notes
  <2>2. p2.phase = "calling" /\ p1.phase = "burst" /\ NoSession.phase = "none"
    BY <1>1, <1>3 DEF RunningType, Processes, NoSession
  <2> HIDE DEF p1, p2
  <2>3. p1 # p2 /\ NoSession # p2 /\ NoSession # p1
    BY <2>2
  <2> QED
    BY <1>1, <2>1, <2>3
<1>8. /\ LedgerType' /\ SoundInv'
      /\ Called' = Len(rows) + 1 /\ Called' \in Orders' /\ Orders' \ {Called'} = Orders
      /\ rows'[Called'].symbol = symbol /\ rows'[Called'].quantity = q
      /\ rows'[Called'].state = st /\ rows'[Called'].note = n /\ fills'[Called'] = <<>>
      /\ venue'[Called'].filled = 0 /\ venue'[Called'].working = FALSE
      /\ \A o \in Orders : rows'[o] = rows[o] /\ fills'[o] = fills[o] /\ venue'[o] = venue[o]
  <2>1. AddRow(symbol, q, st, n) /\ q \in Int \ {0} /\ session.who \in Deployments
    BY <1>4, <1>6, <1>7
  <2>2. LedgerType /\ SoundInv
    BY DEF BaseInv
  <2> HIDE DEF p1, p2, m
  <2> QED
    BY <2>1, <2>2, AddRowStep
<1>9. CASE session' = NoSession
  <2>1. ProcessType' /\ CallInv'
    BY <1>9, EndedIs
  <2> QED
    BY <1>1, <1>2, <1>3, <1>8, <1>9, <2>1 DEF BaseInv
<1>10. ASSUME NEW p, p = p1 \/ p = p2
       PROVE  /\ RunningType(p) /\ p.phase \in {"burst", "calling"}
              /\ p.held = session.held /\ p.cash = session.cash /\ p.tracked = session.tracked
              /\ p.sent = session.sent \cup {m} /\ p.quiet = session.quiet
              /\ p.phase = "calling" => p = p2
              /\ p.phase = "burst" => p = p1
  <2>0. session.sent \cup {m} \in SUBSET Nat
    BY <1>3, OrderAt DEF RunningType, Processes, BaseInv
  <2>1. /\ p1 \in Processes /\ p1.phase = "burst" /\ p1.held = session.held
        /\ p1.cash = session.cash /\ p1.tracked = session.tracked
        /\ p1.sent = session.sent \cup {m} /\ p1.quiet = session.quiet
    BY <1>1, <1>3, <2>0 DEF RunningType, Processes, Owning
  <2>2. /\ p2 \in Processes /\ p2.phase = "calling" /\ p2.held = session.held
        /\ p2.cash = session.cash /\ p2.tracked = session.tracked
        /\ p2.sent = session.sent \cup {m} /\ p2.quiet = session.quiet
    BY <1>3, <2>0 DEF RunningType, Processes, Owning
  <2> HIDE DEF p1, p2
  <2> QED
    BY <1>10, <2>0, <2>1, <2>2 DEF RunningType
<1>11. CASE session' = p1 \/ session' = p2
  <2>1. /\ RunningType(session') /\ session'.phase \in {"burst", "calling"}
        /\ session'.held = session.held /\ session'.cash = session.cash
        /\ session'.tracked = session.tracked
        /\ session'.sent = session.sent \cup {m} /\ session'.quiet = session.quiet
        /\ session'.phase = "calling" => session' = p2
        /\ session'.phase = "burst" => session' = p1
    BY <1>10, <1>11
  <2> HIDE DEF p1, p2
  <2>2. ProcessType'
    BY <1>3, <1>8, <2>1 DEF ProcessType
  <2>3. CallInv'
    BY <1>6, <1>7, <1>8, <2>1 DEF CallInv, Working
  <2>4. SentSymbols' = SentSymbols \cup {symbol}
    BY <1>3, <1>8, <2>1 DEF SentSymbols
  <2> QED
    BY <1>1, <1>2, <1>3, <1>8, <2>1, <2>2, <2>3, <2>4 DEF BaseInv
<1> QED
  BY <1>7, <1>9, <1>11

(* The answer, or none, of a venue call.                                   *)
LEMMA CallBase ==
  ASSUME BaseInv, Accepted \/ Raised \/ (Crash /\ session.phase = "calling")
  PROVE  /\ BaseInv' /\ SameOrders /\ UNCHANGED <<fills, held, cash, by_hand, raced>>
         /\ RunningType(session) /\ session.phase = "calling"
         /\ venue' = venue \/ (CalledIsCovered /\ venue' = [venue EXCEPT ![Called] = Taken])
         /\ \/ session' = NoSession
            \/ /\ RunningType(session') /\ session'.phase = "burst"
               /\ session'.held = session.held /\ session'.cash = session.cash
               /\ session'.sent = session.sent /\ session'.quiet = session.quiet
               /\ SentSymbols' = SentSymbols
<1> DEFINE t == session.tracked \cup {Called}
           p1 == [session EXCEPT !.phase = "burst", !.tracked = t, !.submitted = @ + 1]
           p2 == [session EXCEPT !.phase = "burst"]
<1>1. /\ session.phase = "calling"
      /\ venue' = venue \/ (CalledIsCovered /\ venue' = [venue EXCEPT ![Called] = Taken])
      /\ rows' = rows \/ rows' = [rows EXCEPT ![Called].state = "SUBMITTED", ![Called].numbered = TRUE]
           \/ rows' = [rows EXCEPT ![Called].state = "REJECTED", ![Called].note = "venue"]
      /\ session' = NoSession \/ session' = p1 \/ session' = p2
      /\ UNCHANGED <<fills, held, cash, by_hand, raced>>
  BY Zenon DEF Accepted, Raised, Crash, Ended, ledgerVars
<1>2. LedgerType' /\ SoundInv' /\ SameOrders
  BY <1>1, CallStep DEF BaseInv
<1>3. AccountType'
  BY <1>1 DEF BaseInv, AccountType
<1>4. RunningType(session) /\ session.tracked \in SUBSET Orders /\ session.sent \subseteq Orders
  BY <1>1, RunningIs DEF BaseInv, Owning
<1>5. Called \in Orders /\ t \in SUBSET Nat /\ t \subseteq Orders
  <2>1. Called \in Orders
    BY <1>1 DEF BaseInv, CallInv
  <2> QED
    BY <1>4, <2>1, OrderAt DEF BaseInv
<1>6. CASE session' = NoSession
  BY <1>1, <1>2, <1>3, <1>4, <1>6, EndedIs DEF BaseInv
<1>7. CASE session' = p1 \/ session' = p2
  <2>1. /\ p1 \in Processes /\ p1.phase = "burst" /\ p1.held = session.held /\ p1.cash = session.cash
        /\ p1.tracked = t /\ p1.sent = session.sent /\ p1.quiet = session.quiet
    <3> HIDE DEF t
    <3>1. session.submitted + 1 \in Nat
      BY <1>4 DEF RunningType, Processes
    <3>2. p1 \in Processes
      BY <1>4, <1>5, <3>1 DEF RunningType, Processes, Owning
    <3>3. /\ p1.phase = "burst" /\ p1.held = session.held /\ p1.cash = session.cash
          /\ p1.tracked = t /\ p1.sent = session.sent /\ p1.quiet = session.quiet
      BY <1>4 DEF RunningType, Processes
    <3> QED
      BY <3>2, <3>3
  <2>2. /\ p2 \in Processes /\ p2.phase = "burst" /\ p2.held = session.held /\ p2.cash = session.cash
        /\ p2.tracked = session.tracked /\ p2.sent = session.sent /\ p2.quiet = session.quiet
    BY <1>4 DEF RunningType, Processes, Owning
  <2> HIDE DEF p1, p2
  <2>3. /\ session' \in Processes /\ session'.phase = "burst"
        /\ session'.held = session.held /\ session'.cash = session.cash
        /\ session'.sent = session.sent /\ session'.quiet = session.quiet
        /\ session'.tracked \subseteq Orders
    BY <1>4, <1>5, <1>7, <2>1, <2>2
  <2>4. RunningType(session')
    BY <1>4, <2>3 DEF RunningType
  <2>5. ProcessType'
    BY <1>2, <1>4, <2>3, <2>4 DEF ProcessType, SameOrders
  <2>6. CallInv'
    BY <2>3 DEF CallInv
  <2>7. SentSymbols' = SentSymbols
    BY <1>2, <1>4, <2>3 DEF SentSymbols, SameOrders
  <2> QED
    BY <1>1, <1>2, <1>3, <1>4, <2>3, <2>4, <2>5, <2>6, <2>7 DEF BaseInv
<1> QED
  BY <1>1, <1>6, <1>7

(* Settlement, a crash outside a venue call, and a promotion.              *)
LEMMA EndingBase ==
  ASSUME BaseInv,
         EndBurst \/ SettleBooks \/ SettleEnd \/ (Crash /\ session.phase # "calling") \/ Promote
  PROVE  /\ BaseInv' /\ SameOrders /\ session'.phase \notin Owning
         /\ UNCHANGED <<venue, held, cash, by_hand, raced>>
         /\ \/ fills' = fills
            \/ \E T \in SUBSET Orders : \E report \in ReportsOf(T) : fills' = fills_after(report)
<1>1. UNCHANGED <<venue, held, cash, by_hand, raced>>
  BY Zenon DEF EndBurst, SettleBooks, SettleEnd, Crash, Promote, accountVars
<1>2. AccountType'
  BY <1>1 DEF BaseInv, AccountType
<1>3. CASE EndBurst \/ (Crash /\ session.phase # "calling") \/ Promote
  <2>1. UNCHANGED <<rows, fills>>
    BY <1>3 DEF EndBurst, Crash, Promote, ledgerVars
  <2>2. LedgerType' /\ SoundInv' /\ SameOrders
    BY <1>1, <2>1, LedgerFrame DEF BaseInv
  <2>3. \/ session' = NoSession \/ session' = [phase |-> "promoted"]
        \/ \E t \in SUBSET Orders' : session' = Settling(t)
    <3>1. CASE EndBurst
      <4>1. session.tracked \in SUBSET Orders
        BY <3>1, RunningIs DEF EndBurst, BaseInv, Owning
      <4> QED
        BY <2>2, <3>1, <4>1 DEF EndBurst, SameOrders
    <3> QED
      BY <1>3, <3>1 DEF Crash, Promote, Ended
  <2> QED
    BY <1>1, <1>2, <2>1, <2>2, <2>3, EndedIs DEF BaseInv
<1>4. CASE SettleBooks
  <2>1. session.tracked \in SUBSET Orders
    BY <1>4, SettlingIs DEF SettleBooks, BaseInv
  <2>2. PICK report \in ReportsOf(session.tracked) :
          PollBooks(report) /\ session' = Settling(session.tracked \ polled_done(report))
    BY <1>4, Zenon DEF SettleBooks
  <2>3. LedgerType' /\ SoundInv' /\ SameOrders
    BY <1>1, <2>1, <2>2, PollStep DEF BaseInv
  <2>4. \E t \in SUBSET Orders' : session' = Settling(t)
    BY <2>1, <2>2, <2>3 DEF SameOrders
  <2>5. fills' = fills_after(report)
    BY <2>2 DEF PollBooks
  <2>6. ProcessType' /\ session'.phase \notin Owning /\ CallInv'
    BY <2>4, EndedIs
  <2> QED
    BY <1>1, <1>2, <2>1, <2>3, <2>5, <2>6 DEF BaseInv
<1>5. CASE SettleEnd
  <2>1. session.tracked \in SUBSET Orders /\ session' = NoSession /\ fills' = fills
    BY <1>5, SettlingIs DEF SettleEnd, Ended, BaseInv
  <2>2. LedgerType' /\ SoundInv' /\ SameOrders
    <3>1. CASE rows' = rows
      BY <1>1, <2>1, <3>1, LedgerFrame DEF BaseInv
    <3>2. CASE close_rows(session.tracked, "STALE", "")
      <4>1. /\ rows' \in [Orders -> OrderRows]
            /\ \A o \in Orders : /\ Sound(rows'[o], fills[o], venue[o])
                                 /\ rows'[o].symbol = rows[o].symbol
                                 /\ rows'[o].quantity = rows[o].quantity
        <5>1. "STALE" \in States /\ "" \in Notes /\ "STALE" # "FILLED"
          BY DEF States, Notes
        <5>2. \A o \in Orders : Sound(rows[o], fills[o], venue[o])
          BY DEF BaseInv, SoundInv
        <5> QED
          BY <3>2, <5>1, <5>2, CloseFacts DEF BaseInv
      <4>2. fills \in [Orders -> Seq(FillRows)] /\ venue \in [Orders -> VenueRows]
        BY OrderAt DEF BaseInv
      <4>3. LedgerType' /\ SoundInv' /\ Orders' = Orders
        BY <1>1, <2>1, <4>1, <4>2, InPlace DEF BaseInv
      <4> QED
        BY <4>1, <4>3 DEF SameOrders
    <3> QED
      BY <1>5, <3>1, <3>2 DEF SettleEnd
  <2>3. ProcessType' /\ session'.phase \notin Owning /\ CallInv'
    BY <2>1, EndedIs
  <2> QED
    BY <1>1, <1>2, <2>1, <2>2, <2>3 DEF BaseInv
<1> QED
  BY <1>3, <1>4, <1>5

(* What happens outside the process: the venue and the operator.           *)
LEMMA OutsideBase ==
  ASSUME BaseInv,
         NewDay \/ ThrowSwitch \/ (UNCHANGED vars) \/ (\E o \in Orders : Fill(o) \/ Drop(o))
           \/ (\E s \in Symbols : TradeByHand(s))
  PROVE  BaseInv' /\ SameOrders /\ UNCHANGED <<rows, fills, session, raced>>
<1>1. UNCHANGED <<rows, fills, session, raced>>
  BY Zenon DEF NewDay, ThrowSwitch, vars, Fill, Drop, TradeByHand, ledgerVars
<1>2. LedgerType' /\ SoundInv' /\ SameOrders
  <2>1. CASE NewDay \/ \E o \in Orders : Fill(o) \/ Drop(o)
    BY <1>1, <2>1, VenueStep DEF BaseInv
  <2>2. CASE ThrowSwitch \/ (UNCHANGED vars) \/ \E s \in Symbols : TradeByHand(s)
    <3>1. venue' = venue
      BY <2>2, Zenon DEF ThrowSwitch, vars, TradeByHand, accountVars
    <3> QED
      BY <1>1, <3>1, LedgerFrame DEF BaseInv
  <2> QED
    BY <2>1, <2>2
<1>3. AccountType'
  <2>1. held \in [Symbols -> Int] /\ cash \in Int /\ Price \in Int
    BY DeploymentAssumption DEF BaseInv, AccountType
  <2>2. CASE NewDay \/ ThrowSwitch \/ (UNCHANGED vars) \/ \E o \in Orders : Drop(o)
    <3>1. UNCHANGED <<held, cash>>
      BY <2>2, Zenon DEF NewDay, ThrowSwitch, vars, Drop, accountVars
    <3> QED
      BY <2>1, <3>1 DEF AccountType
  <2>3. ASSUME NEW s \in Symbols, TradeByHand(s) PROVE AccountType'
    BY <2>1, <2>3 DEF TradeByHand, AccountType
  <2>4. ASSUME NEW o \in Orders, Fill(o) PROVE AccountType'
    <3> DEFINE side == IF rows[o].quantity > 0 THEN 1 ELSE -1
    <3>1. side \in Int
      OBVIOUS
    <3>2. held' = [held EXCEPT ![rows[o].symbol] = @ + side] /\ cash' = cash - side * Price
      BY <2>4 DEF Fill
    <3> HIDE DEF side
    <3>3. side * Price \in Int
      BY <2>1, <3>1
    <3>4. rows[o].symbol \in Symbols
      BY OrderAt DEF BaseInv, OrderRows
    <3>5. held' \in [Symbols -> Int]
      BY <2>1, <3>1, <3>2, <3>4
    <3>6. cash' \in Int
      BY <2>1, <3>2, <3>3
    <3> QED
      BY <3>5, <3>6 DEF AccountType
  <2> QED
    BY <2>2, <2>3, <2>4
<1>4. ProcessType'
  BY <1>1, <1>2 DEF BaseInv, ProcessType, SameOrders
<1>5. CallInv'
  <2> SUFFICES ASSUME session.phase = "calling" PROVE CallInv'
    BY <1>1 DEF CallInv
  <2>1. /\ Called \in Orders /\ venue[Called].filled = 0 /\ ~venue[Called].working
    BY DEF BaseInv, CallInv, Working
  <2>2. venue \in [Orders -> VenueRows]
    BY OrderAt DEF BaseInv
  <2>3. venue'[Called].filled = 0 /\ ~venue'[Called].working
    <3>1. CASE venue' = venue
      BY <2>1, <3>1
    <3>2. CASE NewDay
      BY <2>1, <2>2, <3>2 DEF NewDay, VenueRows
    <3>3. ASSUME NEW o \in Orders, Fill(o) \/ Drop(o)
          PROVE  venue'[Called] = venue[Called]
      <4>1. o # Called
        BY <2>1, <3>3 DEF Fill, Drop, Working
      <4> QED
        BY <2>1, <2>2, <3>3, <4>1 DEF Fill, Drop
    <3>4. CASE ThrowSwitch \/ (UNCHANGED vars) \/ \E s \in Symbols : TradeByHand(s)
      BY <3>1, <3>4, Zenon DEF ThrowSwitch, vars, TradeByHand, accountVars
    <3> QED
      BY <2>1, <3>2, <3>3, <3>4
  <2>4. Called' = Called
    BY <1>1 DEF Called
  <2> QED
    BY <1>1, <1>2, <2>3, <2>4 DEF BaseInv, CallInv, Working, SameOrders
<1> QED
  BY <1>1, <1>2, <1>3, <1>4, <1>5 DEF BaseInv

(* An order of an earlier release is a sound one with nothing working.     *)
LEMMA OldOrderIs ==
  ASSUME NEW r, NEW f, NEW v, OldOrder(r, f, v)
  PROVE  /\ r \in OrderRows /\ f \in Seq(FillRows) /\ v \in VenueRows
         /\ v.working = FALSE /\ v.today = FALSE /\ Sound(r, f, v) /\ RowShape(r, f)
<1>1. r \in OrderRows /\ r.quantity # 0
  BY DEF OldOrder, OldRows, OrderRows
<1>2. v \in VenueRows /\ v.working = FALSE /\ v.today = FALSE
  BY DEF OldOrder, VenueRows
<1>3. Sound(r, f, v)
  BY <1>1, <1>2 DEF OldOrder, Sound
<1> QED
  BY <1>1, <1>2, <1>3 DEF OldOrder, RowShape

(* What is on record before the first launch.                              *)
LEMMA OldIs ==
  ASSUME Init
  PROVE  /\ LedgerType
         /\ \A o \in Orders : /\ Sound(rows[o], fills[o], venue[o]) /\ RowShape(rows[o], fills[o])
                              /\ venue[o].working = FALSE /\ venue[o].today = FALSE
<1>1. PICK old \in OldLedgers : rows = old.rows /\ fills = old.fills /\ venue = old.venue
  BY DEF Init
<1>2. /\ rows \in Seq(OldRows) /\ fills \in Seq(Seq(FillRows)) /\ Len(fills) = Len(rows)
      /\ Len(venue) = Len(rows) /\ venue \in Seq([filled : Nat, working : {FALSE}, today : {FALSE}])
      /\ \A o \in Orders : OldOrder(rows[o], fills[o], venue[o])
  BY <1>1, OldLedgersAssumption, Zenon DEF Orders
<1>3. ASSUME NEW o \in Orders
      PROVE  /\ rows[o] \in OrderRows /\ venue[o] \in VenueRows
             /\ Sound(rows[o], fills[o], venue[o]) /\ RowShape(rows[o], fills[o])
             /\ venue[o].working = FALSE /\ venue[o].today = FALSE
  <2>1. OldOrder(rows[o], fills[o], venue[o])
    BY <1>2
  <2> QED
    BY <2>1, OldOrderIs
<1>4. rows \in Seq(OrderRows) /\ venue \in Seq(VenueRows)
  <2>1. Len(rows) \in Nat /\ DOMAIN rows = 1..Len(rows) /\ DOMAIN venue = 1..Len(rows)
    BY <1>2, LenProperties
  <2>2. rows \in [1..Len(rows) -> OrderRows] /\ venue \in [1..Len(rows) -> VenueRows]
    <3>1. rows = [i \in 1..Len(rows) |-> rows[i]] /\ venue = [i \in 1..Len(rows) |-> venue[i]]
      BY <1>2, <2>1
    <3> QED
      BY <1>3, <3>1 DEF Orders
  <2> QED
    BY <2>1, <2>2, FcnToSeq
<1> QED
  BY <1>2, <1>3, <1>4 DEF LedgerType

(* The base invariant holds before the first launch.                       *)
LEMMA BaseInit == Init => BaseInv /\ MemoryInv
<1> SUFFICES ASSUME Init PROVE BaseInv /\ MemoryInv
  OBVIOUS
<1>1. LedgerType /\ SoundInv
  BY OldIs DEF SoundInv
<1>2. AccountType
  BY DeploymentAssumption DEF Init, AccountType
<1>3. ProcessType
  BY DEF Init, ProcessType
<1>4. CallInv /\ MemoryInv
  BY DEF Init, CallInv, MemoryInv, NoSession
<1> QED
  BY <1>1, <1>2, <1>3, <1>4 DEF BaseInv

(* A round of enquiries moves the watermarks with the fill rows.           *)
LEMMA MarksPolled ==
  ASSUME LedgerType, SoundInv, NEW T \in SUBSET Orders, NEW report \in ReportsOf(T),
         NEW m, Agrees(m, T), fills' = fills_after(report),
         marks' = polled_marks(m, report, T \ polled_done(report))
  PROVE  \A o \in T \ polled_done(report) :
           marks'[o].quantity = booked(o)' /\ marks'[o].fees = charged(o)'
<1> SUFFICES ASSUME NEW o \in T \ polled_done(report)
             PROVE  marks'[o].quantity = booked(o)' /\ marks'[o].fees = charged(o)'
  OBVIOUS
<1>1. /\ DOMAIN report = T
      /\ summed(fills_after(report)[o], "quantity") =
           IF o \in news(report) THEN report[o].filled ELSE booked(o)
      /\ summed(fills_after(report)[o], "fees") =
           IF o \in news(report) THEN report[o].fees ELSE charged(o)
  BY PollFacts
<1>2. booking(m, report) = news(report)
  BY <1>1, FromMemory
<1>3. marks'[o] = IF o \in news(report)
                  THEN [quantity |-> report[o].filled, fees |-> report[o].fees] ELSE m[o]
  BY <1>2 DEF polled_marks
<1>4. /\ booked(o)' = summed(fills_after(report)[o], "quantity")
      /\ charged(o)' = summed(fills_after(report)[o], "fees")
  BY DEF booked, charged
<1> QED
  BY <1>1, <1>3, <1>4 DEF Agrees

(* Every step keeps the memory of the process in agreement.                *)
LEMMA MemoryStep ==
  ASSUME BaseInv, MemoryInv, [Next]_vars
  PROVE  MemoryInv'
<1>0. LedgerType /\ SoundInv /\ ProcessType
  BY DEF BaseInv
<1>1. CASE session' = NoSession \/ session'.phase \in {"none", "recover", "promoted"}
  BY <1>1 DEF MemoryInv, NoSession
<1>2. CASE /\ session.phase \in {"compare", "update", "burst", "calling", "settle"}
           /\ session'.tracked = session.tracked /\ UNCHANGED <<fills, marks>>
  BY <1>2 DEF MemoryInv, Agrees, booked, charged
<1>3. CASE Recover
  <2> DEFINE T == get_open_orders \ {o \in get_open_orders : ~rows[o].numbered}
             seeds == recovered_marks(T)
  <2>1. T \in SUBSET Orders
    BY DEF get_open_orders
  <2>2. PICK report \in ReportsOf(T) :
          /\ fills' = polled_fills(seeds, report)
          /\ marks' = polled_marks(seeds, report, T \ polled_done(report))
          /\ \E b \in BOOLEAN :
               session' = [session EXCEPT !.phase = "compare", !.orphans = b,
                             !.held = polled_change(seeds, report),
                             !.tracked = T \ polled_done(report)]
    BY <1>3, Zenon DEF Recover
  <2>3. Agrees(seeds, T)
    BY DEF Agrees, recovered_marks
  <2>4. DOMAIN report = T
    BY DEF ReportsOf
  <2>5. RunningType(session)
    BY <1>0, <1>3, RunningIs DEF Recover, Owning
  <2> HIDE DEF T, seeds
  <2>6. fills' = fills_after(report)
    BY <2>2, <2>3, <2>4, FromMemory
  <2>7. session'.tracked = T \ polled_done(report)
    BY <2>2, <2>5 DEF RunningType, Processes
  <2>8. \A o \in T \ polled_done(report) :
          marks'[o].quantity = booked(o)' /\ marks'[o].fees = charged(o)'
    <3>1. marks' = polled_marks(seeds, report, T \ polled_done(report))
      BY <2>2
    <3> QED
      BY <1>0, <2>1, <2>3, <2>6, <3>1, MarksPolled
  <2> QED
    BY <2>7, <2>8 DEF MemoryInv, Agrees
<1>4. CASE Update \/ SettleRound
  <2>1. session.phase \in {"update", "settle"} /\ session.tracked \in SUBSET Orders
    BY <1>0, <1>4, RunningIs, SettlingIs DEF Update, SettleRound, Owning
  <2>2. Agrees(marks, session.tracked)
    BY <2>1 DEF MemoryInv
  <2>3. PICK report \in ReportsOf(session.tracked) :
          /\ Poll(report)
          /\ \/ session' = NoSession
             \/ /\ marks' = polled_marks(marks, report, session.tracked \ polled_done(report))
                /\ \/ session' = Settling(session.tracked \ polled_done(report))
                   \/ /\ Update
                      /\ session' = [session EXCEPT
                           !.phase = "burst", !.tracked = @ \ polled_done(report),
                           !.held = [s \in Symbols |-> @[s] + polled_change(marks, report)[s]],
                           !.cash = @ - polled_cost(marks, report)]
    BY <1>4, Zenon DEF Update, SettleRound, Ended
  <2>4. CASE session' = NoSession
    BY <1>1, <2>4
  <2>5. CASE session' # NoSession
    <3>1. fills' = fills_after(report)
      BY <2>2, <2>3, PollIs DEF PollBooks
    <3>2. session'.tracked = session.tracked \ polled_done(report)
      <4>1. Update => RunningType(session)
        BY <1>0, RunningIs DEF Update, Owning
      <4>2. CASE session' = Settling(session.tracked \ polled_done(report))
        BY <4>2 DEF Settling
      <4>3. CASE /\ Update
                 /\ session' = [session EXCEPT
                      !.phase = "burst", !.tracked = @ \ polled_done(report),
                      !.held = [s \in Symbols |-> @[s] + polled_change(marks, report)[s]],
                      !.cash = @ - polled_cost(marks, report)]
        BY <4>1, <4>3 DEF RunningType, Processes
      <4> QED
        BY <2>3, <2>5, <4>2, <4>3
    <3>3. \A o \in session.tracked \ polled_done(report) :
            marks'[o].quantity = booked(o)' /\ marks'[o].fees = charged(o)'
      <4>1. marks' = polled_marks(marks, report, session.tracked \ polled_done(report))
        BY <2>3, <2>5
      <4> QED
        BY <1>0, <2>1, <2>2, <3>1, <4>1, MarksPolled
    <3> QED
      BY <3>2, <3>3 DEF MemoryInv, Agrees
  <2> QED
    BY <2>4, <2>5
<1>5. ASSUME NEW s \in Symbols, NEW q \in Asked, Submit(s, q) PROVE MemoryInv'
  <2>1. /\ session.phase = "burst" /\ session.tracked \subseteq Orders
        /\ \A o \in Orders : fills'[o] = fills[o]
    <3>1. session.phase = "burst" /\ \A o \in Orders : fills'[o] = fills[o]
      BY <1>5, SubmitBase
    <3> QED
      BY <1>0, <3>1, RunningIs DEF Owning
  <2>2. \/ session' = NoSession
        \/ marks' = marks /\ session'.tracked = session.tracked
    <3>1. RunningType(session)
      BY <1>0, <2>1, RunningIs DEF Owning
    <3>2. \/ session' = NoSession
          \/ /\ marks' = marks
             /\ \/ session' = [session EXCEPT !.sent = @ \cup {Len(rows) + 1}]
                \/ session' = [session EXCEPT !.phase = "calling", !.sent = @ \cup {Len(rows) + 1}]
      BY <1>5, Zenon DEF Submit, Ended
    <3> QED
      BY <3>1, <3>2 DEF RunningType, Processes
  <2>3. CASE session' = NoSession
    BY <1>1, <2>3
  <2> QED
    BY <2>1, <2>2, <2>3 DEF MemoryInv, Agrees, booked, charged
<1>6. CASE Accepted
  <2>1. /\ session.phase = "calling" /\ session.tracked \subseteq Orders /\ RunningType(session)
        /\ Called \in Orders /\ fills[Called] = <<>> /\ fills' = fills
    BY <1>0, <1>6, RunningIs DEF Accepted, BaseInv, CallInv, Owning
  <2> DEFINE c == Called
  <2>2. session'.tracked = session.tracked \cup {c}
    BY <1>6, <2>1 DEF Accepted, RunningType, Processes
  <2>3. marks' = [o \in session.tracked \cup {c} |-> IF o = c THEN FirstMark ELSE marks[o]]
    BY <1>6, Zenon DEF Accepted
  <2>4. summed(fills[c], "quantity") = 0 /\ summed(fills[c], "fees") = 0
    BY <2>1, SummedEmpty
  <2>5. FirstMark.quantity = 0 /\ FirstMark.fees = 0
    BY DEF FirstMark
  <2>6. \A o \in session.tracked : marks[o].quantity = booked(o) /\ marks[o].fees = charged(o)
    BY <2>1 DEF MemoryInv, Agrees
  <2> HIDE DEF c
  <2>7. ASSUME NEW o \in session'.tracked
        PROVE  /\ marks'[o].quantity = summed(fills[o], "quantity")
               /\ marks'[o].fees = summed(fills[o], "fees")
    <3>1. CASE o = c
      BY <2>2, <2>3, <2>4, <2>5, <3>1
    <3>2. CASE o # c
      BY <2>2, <2>3, <2>6, <3>2 DEF booked, charged
    <3> QED
      BY <3>1, <3>2
  <2> QED
    BY <2>1, <2>7 DEF MemoryInv, Agrees, booked, charged
<1>7. CASE Raised
  <2>1. /\ session.phase = "calling" /\ RunningType(session)
        /\ session' = [session EXCEPT !.phase = "burst"] /\ UNCHANGED <<fills, marks>>
    BY <1>0, <1>7, RunningIs DEF Raised, Owning
  <2>2. session'.tracked = session.tracked
    BY <2>1 DEF RunningType, Processes
  <2> QED
    BY <1>2, <2>1, <2>2
<1>8. CASE Compare
  <2>1. /\ session.phase = "compare" /\ fills' = fills
        /\ session' = NoSession \/ (session'.phase = "update" /\ session'.tracked = session.tracked)
    BY <1>8, CompareBase DEF Compare
  <2>2. CASE session' # NoSession
    <3>1. marks' = marks
      BY <1>8, <2>2 DEF Compare
    <3> QED
      BY <1>2, <2>1, <2>2, <3>1
  <2> QED
    BY <1>1, <2>2
<1>9. CASE EndBurst
  BY <1>2, <1>9 DEF EndBurst, Settling, ledgerVars
<1>10. CASE \E who \in Deployments, aim \in Aims : Launch(who, aim)
  <2>1. \E who \in Deployments, aim \in Aims : session' = NewSession(who, aim)
    BY <1>10 DEF Launch
  <2> QED
    BY <1>1, <2>1 DEF NewSession
<1>11. CASE SettleEnd \/ Crash \/ Promote
  <2>1. session' = NoSession \/ session' = [phase |-> "promoted"]
    BY <1>11, Zenon DEF SettleEnd, Crash, Promote, Ended
  <2> QED
    BY <1>1, <2>1
<1>12. CASE NewDay \/ ThrowSwitch \/ (UNCHANGED vars) \/ (\E o \in Orders : Fill(o) \/ Drop(o))
            \/ (\E s \in Symbols : TradeByHand(s))
  <2>1. UNCHANGED <<fills, session, marks>>
    BY <1>12, Zenon DEF NewDay, ThrowSwitch, vars, Fill, Drop, TradeByHand, ledgerVars
  <2> QED
    BY <2>1 DEF MemoryInv, Agrees, booked, charged
<1> QED
  BY <1>3, <1>4, <1>5, <1>6, <1>7, <1>8, <1>9, <1>10, <1>11, <1>12, Zenon DEF Next, Aims

(* Every step keeps the base invariant.                                    *)
LEMMA BaseStep == BaseInv /\ MemoryInv /\ [Next]_vars => BaseInv'
<1> SUFFICES ASSUME BaseInv, MemoryInv, [Next]_vars PROVE BaseInv'
  OBVIOUS
<1>1. ASSUME NEW who \in Deployments, NEW aim \in Aims, Launch(who, aim) PROVE BaseInv'
  BY <1>1, LaunchBase
<1>2. CASE Recover
  BY <1>2, RecoverBase
<1>3. CASE Compare
  BY <1>3, CompareBase
<1>4. CASE Update
  BY <1>4, UpdateIs, UpdateBase
<1>5. ASSUME NEW s \in Symbols, NEW q \in Asked, Submit(s, q) PROVE BaseInv'
  BY <1>5, SubmitBase
<1>6. CASE Accepted \/ Raised
  BY <1>6, CallBase
<1>7. CASE Crash
  BY <1>7, CallBase, EndingBase
<1>8. CASE EndBurst \/ SettleRound \/ SettleEnd \/ Promote
  BY <1>8, SettleIs, EndingBase
<1>9. CASE NewDay \/ ThrowSwitch \/ (UNCHANGED vars) \/ (\E o \in Orders : Fill(o) \/ Drop(o))
           \/ (\E s \in Symbols : TradeByHand(s))
  BY <1>9, OutsideBase
<1> QED
  BY <1>1, <1>2, <1>3, <1>4, <1>5, <1>6, <1>7, <1>8, <1>9, Zenon DEF Next, Aims

(* The base invariant holds for ever.                                      *)
LEMMA BaseInvariant == Spec => [](BaseInv /\ MemoryInv)
  BY BaseInit, BaseStep, MemoryStep, PTL DEF Spec

(* For any venue, estimates and crashes, the cost rows of an order add up  *)
(* to the estimate that was booked last: an increment is the estimate less *)
(* the watermark in memory, which MemoryInv shows to be all that is on     *)
(* record, after a restart too (_poll_once, _already_booked_fees).         *)
THEOREM FeesAddUp == Spec => []FeesTelescope
<1>1. BaseInv => FeesTelescope
  BY DEF BaseInv, SoundInv, Sound, FeesTelescope, charged
<1> QED
  BY <1>1, BaseInvariant, PTL

(* An order closed as FILLED has nothing left at the venue and every share *)
(* of it on record, whatever the venue does afterwards (_poll_once's       *)
(* is_done, _close_order).                                                 *)
THEOREM FilledStaysFinal == Spec => []FilledIsFinal
<1>1. BaseInv => FilledIsFinal
  BY DEF BaseInv, SoundInv, Sound, FilledIsFinal, booked, Working
<1> QED
  BY <1>1, BaseInvariant, PTL

(* The symbols of which this launch has sent nothing to the venue yet.     *)
Fresh ==
  Symbols \ (IF session.phase = "calling"
             THEN SentSymbols \ {rows[Called].symbol} ELSE SentSymbols)

(* No purchase of the burst has a fill.                                    *)
NothingBought == \A o \in session.sent : rows[o].quantity > 0 => venue[o].filled = 0

(* In a launch that found the venue quiet: only orders of its burst are    *)
(* working; of a symbol it has not sent, none is, and the account holds    *)
(* what the process believes; and until a purchase fills, the account has  *)
(* the cash the process believes, or more.                                 *)
QuietState ==
  /\ \A o \in Orders : Working(o) => o \in session.sent /\ rows[o].symbol \notin Fresh
  /\ \A s \in Fresh : held[s] = session.held[s]
  /\ NothingBought => session.cash <= cash
  /\ session.phase = "update" => \A o \in session.tracked : ~Unseen(o)
QuietInv == (session.phase \in Trading /\ session.quiet /\ ~by_hand) => QuietState

(* A round in which no report shows anything new books nothing.            *)
LEMMA NothingBooked ==
  ASSUME NEW report, news(report) = {}
  PROVE  cost_of(report) = 0 /\ \A s \in Symbols : change_of(report)[s] = 0
<1>1. ASSUME NEW g, DOMAIN g = {} PROVE SumFunction(g) = 0
  BY <1>1, SumEmpty DEF SumFunction
<1>2. cost_of(report) = 0
  <2> DEFINE g == [o \in news(report) |->
                     Position(o, report[o].filled - booked(o)) * Price + row_of(o, report[o]).fees]
  <2>1. DOMAIN g = {} /\ cost_of(report) = SumFunction(g)
    BY DEF cost_of
  <2> HIDE DEF g
  <2> QED
    BY <1>1, <2>1
<1>3. ASSUME NEW s \in Symbols PROVE change_of(report)[s] = 0
  <2> DEFINE S == {p \in news(report) : rows[p].symbol = s}
             g == [o \in S |-> Position(o, report[o].filled - booked(o))]
  <2>1. DOMAIN g = {} /\ change_of(report)[s] = SumFunction(g)
    BY DEF change_of
  <2> HIDE DEF g
  <2> QED
    BY <1>1, <2>1
<1> QED
  BY <1>2, <1>3

(* A launch that finds nothing working starts with the account's own       *)
(* holdings and cash.                                                      *)
LEMMA QuietCompare == ASSUME BaseInv, Compare PROVE QuietInv'
<1>1. /\ BaseInv' /\ UNCHANGED <<rows, fills, venue, held, cash, by_hand>>
      /\ \/ session' = NoSession
         \/ /\ RunningType(session') /\ session'.phase = "update"
            /\ session'.held = held /\ session'.cash = cash /\ session'.sent = {}
            /\ session'.tracked = session.tracked /\ session'.quiet = Quiet
  BY CompareBase
<1>2. CASE session' = NoSession
  BY <1>2 DEF QuietInv, NoSession, Trading
<1>3. CASE session' # NoSession
  <2> SUFFICES ASSUME session'.quiet PROVE QuietState'
    BY DEF QuietInv
  <2>1. Quiet
    BY <1>1, <1>3
  <2>2. Fresh' = Symbols
    BY <1>1, <1>3 DEF Fresh, SentSymbols
  <2>3. (\A o \in Orders' : ~Working(o)') /\ cash \in Int
    BY <1>1, <2>1 DEF Quiet, Working, Orders, BaseInv, AccountType
  <2>4. session.tracked \subseteq Orders
    BY RunningIs DEF BaseInv, Compare, Owning
  <2>5. \A o \in session'.tracked : ~Unseen(o)'
    BY <1>1, <1>3, <2>1, <2>4 DEF Quiet, Unseen, booked
  <2>6. /\ session'.held = held' /\ session'.cash = cash' /\ cash' \in Int
        /\ session'.phase = "update"
    BY <1>1, <1>3, <2>3
  <2> HIDE DEF Fresh, NothingBought, Working, Unseen
  <2> QED
    BY <2>2, <2>3, <2>5, <2>6 DEF QuietState
<1> QED
  BY <1>2, <1>3

(* An update in which nothing is unseen books nothing.                     *)
LEMMA QuietUpdate == ASSUME BaseInv, QuietInv, UpdateBooks PROVE QuietInv'
<1>1. PICK report \in ReportsOf(session.tracked) :
        /\ SameOrders /\ UNCHANGED <<venue, held, cash, by_hand>>
        /\ \/ session' = NoSession
           \/ /\ session'.phase = "burst"
              /\ session'.held = [s \in Symbols |-> session.held[s] + change_of(report)[s]]
              /\ session'.cash = session.cash - cost_of(report)
              /\ session'.sent = {} /\ session'.quiet = session.quiet
  BY UpdateBase, Zenon
<1>2. CASE session' = NoSession
  BY <1>2 DEF QuietInv, NoSession, Trading
<1>3. CASE session' # NoSession
  <2> SUFFICES ASSUME session'.quiet, ~by_hand' PROVE QuietState'
    BY DEF QuietInv
  <2>1. session.phase = "update"
    BY DEF UpdateBooks
  <2>2. RunningType(session) /\ session.tracked \in SUBSET Orders
    BY <2>1, RunningIs DEF BaseInv, Owning
  <2>3. QuietState
    BY <1>1, <1>3, <2>1 DEF QuietInv, Trading
  <2>4. Fresh = Symbols /\ Fresh' = Symbols /\ NothingBought
    BY <1>1, <1>3, <2>1, <2>2 DEF Fresh, SentSymbols, NothingBought, RunningType
  <2>5. news(report) = {}
    <3>1. ASSUME NEW o \in session.tracked PROVE o \notin news(report)
      <4>1. /\ report[o] \in ReportRows /\ report[o].filled <= venue[o].filled
            /\ o \in news(report) <=> report[o].filled > booked(o)
        BY <2>2, PollFacts DEF BaseInv
      <4>2. ~(venue[o].filled > booked(o))
        BY <2>1, <2>3 DEF QuietState, Unseen
      <4>3. report[o].filled \in Nat /\ venue[o].filled \in Nat /\ booked(o) \in Int
        BY <2>2, <4>1, OrderAt, SummedInt DEF BaseInv, ReportRows, VenueRows, booked
      <4> QED
        BY <4>1, <4>2, <4>3
    <3>2. news(report) \subseteq session.tracked
      BY <2>2, PollFacts DEF BaseInv
    <3> QED
      BY <3>1, <3>2
  <2>6. cost_of(report) = 0 /\ \A s \in Symbols : change_of(report)[s] = 0
    BY <2>5, NothingBooked
  <2>7. session.held \in [Symbols -> Int] /\ session.cash \in Int
    BY <2>2 DEF RunningType, Processes
  <2>8. session'.cash = session.cash /\ \A s \in Symbols : session'.held[s] = session.held[s]
    <3>1. session'.cash = session.cash
      <4>1. session'.cash = session.cash - cost_of(report)
        BY <1>1, <1>3, Zenon
      <4> HIDE DEF cost_of
      <4> QED
        BY <2>6, <2>7, <4>1
    <3>2. ASSUME NEW s \in Symbols PROVE session'.held[s] = session.held[s]
      <4>1. session'.held[s] = session.held[s] + change_of(report)[s]
        BY <1>1, <1>3
      <4>2. change_of(report)[s] = 0 /\ session.held[s] \in Int
        BY <2>6, <2>7
      <4> HIDE DEF change_of
      <4> QED
        BY <4>1, <4>2
    <3> QED
      BY <3>1, <3>2
  <2>9. \A o \in Orders' : ~Working(o)'
    <3>1. \A o \in Orders : rows[o].symbol \in Symbols
      BY OrderAt DEF BaseInv, OrderRows
    <3> QED
      BY <1>1, <2>3, <2>4, <3>1 DEF QuietState, Working, SameOrders
  <2> QED
    BY <1>1, <1>3, <2>3, <2>4, <2>8, <2>9 DEF QuietState
<1> QED
  BY <1>2, <1>3

(* An intent changes nothing for the symbols not sent yet.                 *)
LEMMA QuietSubmit ==
  ASSUME BaseInv, QuietInv, NEW symbol \in Symbols, NEW asked \in Asked, Submit(symbol, asked)
  PROVE  QuietInv'
<1>1. /\ UNCHANGED <<held, cash, by_hand>>
      /\ RunningType(session) /\ session.phase = "burst" /\ symbol \notin SentSymbols
      /\ Called' \in Orders' /\ Orders' \ {Called'} = Orders
      /\ rows'[Called'].symbol = symbol
      /\ venue'[Called'].filled = 0 /\ venue'[Called'].working = FALSE
      /\ \A o \in Orders : rows'[o] = rows[o] /\ fills'[o] = fills[o] /\ venue'[o] = venue[o]
      /\ \/ session' = NoSession
         \/ /\ session'.phase \in {"burst", "calling"}
            /\ session'.held = session.held /\ session'.cash = session.cash
            /\ session'.sent = session.sent \cup {Called'} /\ session'.quiet = session.quiet
            /\ SentSymbols' = SentSymbols \cup {symbol}
  BY SubmitBase
<1>2. CASE session' = NoSession
  BY <1>2 DEF QuietInv, NoSession, Trading
<1>3. CASE session' # NoSession
  <2> SUFFICES ASSUME session'.quiet, ~by_hand' PROVE QuietState'
    BY DEF QuietInv
  <2>1. QuietState
    BY <1>1, <1>3 DEF QuietInv, Trading
  <2>2. Fresh' \subseteq Fresh
    BY <1>1, <1>3 DEF Fresh
  <2>3. \A o \in Orders' : Working(o)' => o \in session'.sent /\ rows'[o].symbol \notin Fresh'
    BY <1>1, <1>3, <2>1, <2>2 DEF QuietState, Working
  <2>4. NothingBought' => NothingBought
    <3>1. session.sent \subseteq Orders
      BY <1>1, RunningIs DEF BaseInv, Owning
    <3> QED
      BY <1>1, <1>3, <3>1 DEF NothingBought
  <2>5. session'.phase # "update"
    BY <1>1, <1>3
  <2> QED
    BY <1>1, <1>3, <2>1, <2>2, <2>3, <2>4, <2>5 DEF QuietState
<1> QED
  BY <1>2, <1>3

(* The answer to a call makes only the called symbol one with an order at  *)
(* the venue.                                                              *)
LEMMA QuietCall ==
  ASSUME BaseInv, QuietInv, Accepted \/ Raised \/ (Crash /\ session.phase = "calling")
  PROVE  QuietInv'
<1>1. /\ SameOrders /\ UNCHANGED <<fills, held, cash, by_hand>>
      /\ session.phase = "calling" /\ RunningType(session)
      /\ venue' = venue \/ venue' = [venue EXCEPT ![Called] = Taken]
      /\ \/ session' = NoSession
         \/ /\ session'.phase = "burst"
            /\ session'.held = session.held /\ session'.cash = session.cash
            /\ session'.sent = session.sent /\ session'.quiet = session.quiet
            /\ SentSymbols' = SentSymbols
  BY CallBase
<1>2. CASE session' = NoSession
  BY <1>2 DEF QuietInv, NoSession, Trading
<1>3. CASE session' # NoSession
  <2> SUFFICES ASSUME session'.quiet, ~by_hand' PROVE QuietState'
    BY DEF QuietInv
  <2>1. QuietState
    BY <1>1, <1>3 DEF QuietInv, Trading
  <2> DEFINE x == rows[Called].symbol
  <2>2. Called \in session.sent /\ Called \in Orders /\ venue[Called].filled = 0
    BY <1>1 DEF BaseInv, CallInv
  <2>3. Fresh' = Fresh \ {x}
    <3>1. x \in SentSymbols
      BY <2>2 DEF SentSymbols
    <3> QED
      BY <1>1, <1>3, <3>1 DEF Fresh
  <2>4. \A o \in Orders : o # Called => venue'[o] = venue[o]
    BY <1>1, OrderAt DEF BaseInv
  <2>5. \A o \in Orders' : Working(o)' => o \in session'.sent /\ rows'[o].symbol \notin Fresh'
    <3> SUFFICES ASSUME NEW o \in Orders, Working(o)'
                 PROVE  o \in session.sent /\ rows[o].symbol \notin Fresh'
      BY <1>1, <1>3 DEF SameOrders
    <3>1. CASE o = Called
      BY <2>2, <2>3, <3>1
    <3>2. CASE o # Called
      BY <2>1, <2>3, <2>4, <3>2 DEF QuietState, Working
    <3> QED
      BY <3>1, <3>2
  <2>6. NothingBought' => NothingBought
    <3>1. session.sent \subseteq Orders
      BY <1>1, RunningIs DEF BaseInv, Owning
    <3> QED
      BY <1>1, <1>3, <2>2, <2>4, <3>1 DEF NothingBought, SameOrders
  <2> QED
    BY <1>1, <1>3, <2>1, <2>3, <2>5, <2>6 DEF QuietState
<1> QED
  BY <1>2, <1>3

(* The venue touches only the symbols this launch has sent.                *)
LEMMA QuietOutside ==
  ASSUME BaseInv, QuietInv,
         NewDay \/ ThrowSwitch \/ (UNCHANGED vars) \/ (\E o \in Orders : Fill(o) \/ Drop(o))
           \/ (\E s \in Symbols : TradeByHand(s))
  PROVE  QuietInv'
<1>1. UNCHANGED <<rows, fills, session>> /\ Fresh' = Fresh
  <2>1. UNCHANGED <<rows, fills, session>>
    BY OutsideBase
  <2> QED
    BY <2>1 DEF Fresh, SentSymbols, Called
<1>2. CASE \E s \in Symbols : TradeByHand(s)
  BY <1>2 DEF TradeByHand, QuietInv
<1> SUFFICES ASSUME QuietState, session.phase \in Trading, UNCHANGED by_hand,
                    NewDay \/ ThrowSwitch \/ (UNCHANGED vars) \/ (\E o \in Orders : Fill(o) \/ Drop(o))
             PROVE  QuietState'
  <2>1. (\E s \in Symbols : TradeByHand(s)) \/ UNCHANGED by_hand
    BY Zenon DEF NewDay, ThrowSwitch, vars, Fill, Drop
  <2> QED
    BY <1>1, <1>2, <2>1 DEF QuietInv
<1>3. /\ venue \in [Orders -> VenueRows] /\ Orders' = Orders
      /\ RunningType(session) /\ session.sent \subseteq Orders
  <2>1. venue \in [Orders -> VenueRows] /\ Orders' = Orders
    BY <1>1, OrderAt DEF BaseInv, Orders
  <2> QED
    BY <2>1, RunningIs DEF BaseInv, Trading, Owning
<1>4. CASE /\ UNCHANGED <<held, cash>>
           /\ \A p \in Orders : (Working(p)' => Working(p)) /\ venue'[p].filled = venue[p].filled
  <2>1. ASSUME session.phase = "update" PROVE \A o \in session.tracked : ~Unseen(o)'
    <3>1. session.tracked \subseteq Orders
      BY <2>1, RunningIs DEF BaseInv, Owning
    <3>2. ASSUME NEW o \in session.tracked PROVE Unseen(o)' = Unseen(o)
      <4>1. venue'[o].filled = venue[o].filled /\ fills' = fills
        BY <1>1, <1>4, <3>1
      <4> QED
        BY <4>1 DEF Unseen, booked
    <3> QED
      BY <2>1, <3>2 DEF QuietState
  <2>2. NothingBought' => NothingBought
    BY <1>1, <1>3, <1>4 DEF NothingBought
  <2> QED
    BY <1>1, <1>3, <1>4, <2>1, <2>2 DEF QuietState
<1>5. CASE NewDay
  BY <1>3, <1>4, <1>5 DEF NewDay, Working, VenueRows
<1>6. CASE ThrowSwitch \/ UNCHANGED vars
  <2>1. UNCHANGED <<held, cash, venue>>
    BY <1>6, Zenon DEF ThrowSwitch, vars, accountVars
  <2> QED
    BY <1>4, <2>1 DEF Working
<1>7. ASSUME NEW o \in Orders, Drop(o) PROVE QuietState'
  <2>1. /\ UNCHANGED <<held, cash>>
        /\ \A p \in Orders : (Working(p)' => Working(p)) /\ venue'[p].filled = venue[p].filled
    <3>1. venue' = [venue EXCEPT ![o].working = FALSE] /\ UNCHANGED <<held, cash>>
      BY <1>7 DEF Drop
    <3> QED
      BY <1>3, <3>1 DEF Working, VenueRows
  <2> QED
    BY <1>4, <2>1
<1>8. ASSUME NEW o \in Orders, Fill(o) PROVE QuietState'
  <2> DEFINE x == rows[o].symbol
             side == IF rows[o].quantity > 0 THEN 1 ELSE -1
             v == [venue[o] EXCEPT !.filled = @ + 1, !.working = ~(Rest(o) = 1)]
  <2>1. Working(o) /\ x \notin Fresh /\ o \in session.sent
    BY <1>8 DEF Fill, QuietState
  <2>2. rows[o].quantity \in Int
    BY OrderAt DEF BaseInv, OrderRows
  <2>3. session.phase # "update"
    BY <1>3, <2>1 DEF RunningType
  <2>4. /\ held' = [held EXCEPT ![x] = @ + side] /\ venue' = [venue EXCEPT ![o] = v]
        /\ cash' = cash - side * Price
    BY <1>3, <1>8 DEF Fill
  <2>5. NothingBought' => NothingBought /\ side = -1
    <3>1. v.filled = venue[o].filled + 1 /\ venue[o].filled \in Nat
      BY <1>3 DEF VenueRows
    <3> HIDE DEF v
    <3>2. venue'[o] = v /\ \A p \in Orders : p # o => venue'[p] = venue[p]
      BY <1>3, <2>4
    <3>3. NothingBought' => ~(rows[o].quantity > 0)
      BY <1>1, <2>1, <3>1, <3>2 DEF NothingBought
    <3>4. NothingBought' => NothingBought
      BY <1>1, <1>3, <3>2, <3>3 DEF NothingBought
    <3> QED
      BY <3>3, <3>4
  <2> HIDE DEF v, side
  <2>6. \A s \in Fresh : held'[s] = held[s]
    <3>1. held \in [Symbols -> Int] /\ Fresh \subseteq Symbols
      BY DEF BaseInv, AccountType, Fresh
    <3> QED
      BY <2>1, <2>4, <3>1
  <2>7. \A p \in Orders : p # o => Working(p)' = Working(p)
    BY <1>3, <2>4 DEF Working
  <2>8. \A p \in Orders : Working(p)' => p \in session.sent /\ rows[p].symbol \notin Fresh
    BY <2>1, <2>7 DEF QuietState
  <2>9. NothingBought' => session.cash <= cash'
    <3>1. cash \in Int /\ session.cash \in Int /\ Price \in Nat
      BY <1>3, DeploymentAssumption DEF BaseInv, AccountType, RunningType, Processes
    <3>2. ASSUME NothingBought' PROVE session.cash <= cash'
      <4>1. session.cash <= cash /\ cash' = cash - (-1) * Price
        BY <2>4, <2>5, <3>2 DEF QuietState
      <4> QED
        BY <3>1, <4>1
    <3> QED
      BY <3>2
  <2> QED
    BY <1>1, <1>3, <2>3, <2>6, <2>8, <2>9 DEF QuietState
<1> QED
  BY <1>5, <1>6, <1>7, <1>8

(* In a quiet launch the account covers a clamped sale, and a purchase     *)
(* until the venue has taken another one.                                  *)
LEMMA QuietCovers == BaseInv /\ QuietInv => ClampedIsCovered
<1> SUFFICES ASSUME BaseInv, QuietInv, session.phase = "calling", session.quiet, ~by_hand,
                    ~CalledIsCovered
             PROVE  /\ rows[Called].quantity > 0
                    /\ \E o \in session.sent \ {Called} :
                         rows[o].quantity > 0 /\ (Working(o) \/ venue[o].filled > 0)
  BY DEF ClampedIsCovered
<1> DEFINE x == rows[Called].symbol
           q == rows[Called].quantity
           left(orders) == SumFunction([o \in orders |-> Rest(o)])
           selling == {o \in Orders : Working(o) /\ rows[o].quantity < 0 /\ rows[o].symbol = x}
           buying == {o \in Orders : Working(o) /\ rows[o].quantity > 0}
<1>1. QuietState
  BY DEF QuietInv, Trading
<1>2. /\ Called \in Orders /\ venue[Called].filled = 0 /\ ~Working(Called)
      /\ (q < 0 => 0 - q <= session.held[x]) /\ (q > 0 => Price * q <= session.cash)
  BY DEF BaseInv, CallInv
<1>3. x \in Symbols /\ q \in Int /\ q # 0
  <2>1. rows[Called] \in OrderRows /\ Sound(rows[Called], fills[Called], venue[Called])
    BY <1>2, OrderAt DEF BaseInv, SoundInv
  <2> QED
    BY <2>1 DEF OrderRows, Sound
<1>4. RunningType(session)
  BY RunningIs DEF BaseInv, Owning
<1>5. x \in Fresh
  BY <1>3 DEF Fresh
<1>6. left({}) = 0
  <2>1. DOMAIN [o \in {} |-> Rest(o)] = {}
    OBVIOUS
  <2> QED
    BY <2>1, SumEmpty DEF SumFunction
<1>7. /\ q < 0 => ~(left(selling) - q <= held[x])
      /\ ~(q < 0) => ~(Price * (left(buying) + q) <= cash)
  <2> DEFINE working == {o \in Orders : Working(o)}
             selling1 == {o \in working : rows[o].quantity < 0 /\ rows[o].symbol = x}
             buying1 == {o \in working : rows[o].quantity > 0}
  <2>1. selling1 = selling /\ buying1 = buying
    OBVIOUS
  <2>2. ~(IF q < 0 THEN left(selling1) - q <= held[x]
                   ELSE Price * (left(buying1) + q) <= cash)
    BY DEF CalledIsCovered, Covered
  <2> QED
    BY <2>1, <2>2, Zenon
<1>8. held[x] = session.held[x] /\ selling = {}
  BY <1>1, <1>5 DEF QuietState
<1>9. ~(q < 0)
  <2> SUFFICES ASSUME q < 0 PROVE FALSE
    OBVIOUS
  <2>1. left(selling) = 0
    BY <1>6, <1>8
  <2> HIDE DEF left, q, x, selling
  <2>2. ~(0 - q <= held[x])
    BY <1>7, <2>1
  <2> QED
    BY <1>2, <1>8, <2>2
<1>10. \E o \in session.sent \ {Called} :
         rows[o].quantity > 0 /\ (Working(o) \/ venue[o].filled > 0)
  <2> SUFFICES ASSUME \A o \in session.sent \ {Called} :
                        rows[o].quantity > 0 => ~Working(o) /\ ~(venue[o].filled > 0)
               PROVE  FALSE
    OBVIOUS
  <2>1. session.sent \subseteq Orders /\ \A o \in Orders : venue[o].filled \in Nat
    BY RunningIs, OrderAt DEF BaseInv, Owning, VenueRows
  <2>2. NothingBought
    BY <1>2, <2>1 DEF NothingBought
  <2>3. buying = {}
    BY <1>1, <1>2 DEF QuietState
  <2>4. session.cash <= cash /\ session.cash \in Int /\ cash \in Int
    BY <1>1, <1>4, <2>2 DEF QuietState, RunningType, Processes, BaseInv, AccountType
  <2>5. left(buying) = 0
    BY <1>6, <2>3
  <2>6. Price * (left(buying) + q) = Price * q /\ Price * q \in Int
    <3> HIDE DEF left, buying, q
    <3> QED
      BY <1>3, <2>5, DeploymentAssumption
  <2> HIDE DEF left, buying, q
  <2> QED
    BY <1>2, <1>3, <1>7, <1>9, <2>4, <2>6
<1> QED
  BY <1>3, <1>9, <1>10

(* What an order may still add to the engine's idea of a holding, by a     *)
(* report of the same day, and, for a working sale, may still take from    *)
(* the account.                                                            *)
Due(o) == IF venue[o].today THEN venue[o].filled - booked(o) ELSE 0
Claim(o, s) ==
  IF rows[o].symbol # s THEN 0
  ELSE IF rows[o].quantity > 0 THEN Due(o)
  ELSE IF Working(o) THEN Rest(o) ELSE 0
Claims(s) == SumFunction([o \in Orders |-> Claim(o, s)])

(* While every balance was read behind the reports: what the engine        *)
(* believes to hold, with all that orders may still add to it or take from *)
(* the account, is covered by the account.  This is the strengthening that *)
(* a halt needs: a crash loses the belief, not the claims.                 *)
ClaimState ==
  /\ \A s \in Symbols : Claims(s) <= held[s]
  /\ session.phase = "compare" => \A s \in Symbols : session.held[s] + Claims(s) <= held[s]
  /\ session.phase \in Trading => \A s \in Fresh : session.held[s] + Claims(s) <= held[s]
ClaimInv == ~by_hand /\ ~raced => ClaimState

(* Claims are natural numbers and finitely many.                           *)
ClaimFacts ==
  /\ IsFiniteSet(Orders)
  /\ \A s \in Symbols :
       /\ Claims(s) \in Nat /\ \A o \in Orders : Claim(o, s) \in Nat
       /\ Claims(s) = SumFunctionOnSet([o \in Orders |-> Claim(o, s)], Orders)

(* A claim is never negative.                                              *)
LEMMA ClaimTypes == BaseInv => ClaimFacts
<1> SUFFICES ASSUME BaseInv PROVE ClaimFacts
  OBVIOUS
<1>1. IsFiniteSet(Orders)
  BY FS_Interval, OrderAt DEF BaseInv
<1>2. ASSUME NEW s \in Symbols, NEW o \in Orders PROVE Claim(o, s) \in Nat
  <2>1. /\ rows[o] \in OrderRows /\ fills[o] \in Seq(FillRows) /\ venue[o] \in VenueRows
        /\ Sound(rows[o], fills[o], venue[o])
    BY OrderAt DEF BaseInv, SoundInv
  <2> DEFINE B == summed(fills[o], "quantity")
             F == venue[o].filled
             M == Magnitude(rows[o].quantity)
  <2>2. B \in Int /\ F \in Nat /\ M \in Int
    BY <2>1, SummedInt DEF VenueRows, OrderRows, Magnitude
  <2>3. B <= F /\ F <= M
    BY <2>1 DEF Sound
  <2> HIDE DEF B, F, M
  <2>4. F - B \in Nat /\ M - F \in Nat
    BY <2>2, <2>3
  <2>5. Claim(o, s) \in {0, F - B, M - F}
    BY DEF Claim, Due, Rest, booked, B, F, M
  <2> QED
    BY <2>4, <2>5
<1>3. ASSUME NEW s \in Symbols
      PROVE  /\ Claims(s) \in Nat
             /\ Claims(s) = SumFunctionOnSet([o \in Orders |-> Claim(o, s)], Orders)
  <2> DEFINE f == [o \in Orders |-> Claim(o, s)]
  <2>1. DOMAIN f = Orders /\ \A o \in Orders : f[o] \in Nat
    BY <1>2
  <2>2. Claims(s) = SumFunctionOnSet(f, Orders)
    BY DEF Claims, SumFunction
  <2> HIDE DEF f
  <2>3. SumFunctionOnSet(f, Orders) \in Nat
    BY <1>1, <2>1, SumNat
  <2> QED
    BY <2>2, <2>3 DEF f
<1> QED
  BY <1>1, <1>2, <1>3 DEF ClaimFacts

(* Claims are natural numbers in the next state too.                       *)
LEMMA ClaimTypesNext == BaseInv' => ClaimFacts'
  BY ClaimTypes, PTL

(* Claims that only shrink.                                                *)
LEMMA ClaimsShrink ==
  ASSUME BaseInv, BaseInv', Orders' = Orders, NEW s \in Symbols,
         \A o \in Orders : Claim(o, s)' <= Claim(o, s)
  PROVE  Claims(s)' <= Claims(s)
<1> DEFINE f == [o \in Orders |-> Claim(o, s)]
           g == [o \in Orders |-> Claim(o, s)']
<1>1. /\ IsFiniteSet(Orders) /\ \A o \in Orders : Claim(o, s) \in Nat
      /\ Claims(s) = SumFunctionOnSet(f, Orders)
  BY ClaimTypes DEF ClaimFacts
<1>2. /\ \A o \in Orders : Claim(o, s)' \in Nat
      /\ Claims(s)' = SumFunctionOnSet(g, Orders)
  BY ClaimTypesNext DEF ClaimFacts
<1>3. \A o \in Orders : g[o] \in Int /\ f[o] \in Int /\ g[o] <= f[o]
  BY <1>1, <1>2
<1> HIDE DEF f, g
<1> QED
  BY <1>1, <1>2, <1>3, SumLess

(* Claims of which one changes.                                            *)
LEMMA ClaimsMove ==
  ASSUME BaseInv, BaseInv', Orders' = Orders, NEW s \in Symbols, NEW c \in Orders,
         \A o \in Orders : o # c => Claim(o, s)' = Claim(o, s)
  PROVE  Claims(s)' = Claims(s) - Claim(c, s) + Claim(c, s)'
<1> DEFINE f == [o \in Orders |-> Claim(o, s)]
           g == [o \in Orders |-> Claim(o, s)']
<1>1. /\ IsFiniteSet(Orders) /\ \A o \in Orders : Claim(o, s) \in Nat
      /\ Claims(s) = SumFunctionOnSet(f, Orders)
  BY ClaimTypes DEF ClaimFacts
<1>2. /\ \A o \in Orders : Claim(o, s)' \in Nat
      /\ Claims(s)' = SumFunctionOnSet(g, Orders)
  BY ClaimTypesNext DEF ClaimFacts
<1>3. \A o \in Orders : f[o] \in Int /\ g[o] \in Int
  BY <1>1, <1>2
<1>4. \A o \in Orders : o # c => g[o] = f[o]
  OBVIOUS
<1>5. f[c] = Claim(c, s) /\ g[c] = Claim(c, s)'
  OBVIOUS
<1> HIDE DEF f, g
<1>6. SumFunctionOnSet(g, Orders) = SumFunctionOnSet(f, Orders) - f[c] + g[c]
  BY <1>1, <1>3, <1>4, SumChange
<1> QED
  BY <1>1, <1>2, <1>5, <1>6

(* A new order claims nothing.                                             *)
LEMMA ClaimsAdded ==
  ASSUME BaseInv, BaseInv', NEW s \in Symbols, NEW c \in Orders', Orders' \ {c} = Orders,
         \A o \in Orders : Claim(o, s)' = Claim(o, s), Claim(c, s)' = 0
  PROVE  Claims(s)' = Claims(s)
<1> DEFINE f == [o \in Orders |-> Claim(o, s)]
           g == [o \in Orders' |-> Claim(o, s)']
<1>1. /\ IsFiniteSet(Orders) /\ \A o \in Orders : Claim(o, s) \in Nat
      /\ Claims(s) = SumFunctionOnSet(f, Orders) /\ Claims(s) \in Nat
  BY ClaimTypes DEF ClaimFacts
<1>2. /\ IsFiniteSet(Orders') /\ \A o \in Orders' : Claim(o, s)' \in Nat
      /\ Claims(s)' = SumFunctionOnSet(g, Orders')
  BY ClaimTypesNext DEF ClaimFacts
<1>3. \A o \in Orders' : g[o] \in Int
  BY <1>2
<1>4. \A o \in Orders : f[o] \in Int /\ f[o] = g[o]
  BY <1>1
<1>5. g[c] = 0
  OBVIOUS
<1> HIDE DEF f, g
<1>6. SumFunctionOnSet(g, Orders') = g[c] + SumFunctionOnSet(g, Orders' \ {c})
  BY <1>2, <1>3, SumRemove
<1>7. SumFunctionOnSet(f, Orders) = SumFunctionOnSet(g, Orders)
  BY <1>1, <1>4, SumCong
<1>8. SumFunctionOnSet(g, Orders') = g[c] + Claims(s)
  BY <1>1, <1>6, <1>7
<1> QED
  BY <1>1, <1>2, <1>5, <1>8

(* Nothing that a claim is made of changes.                                *)
LEMMA ClaimsKept ==
  ASSUME SameOrders, UNCHANGED <<fills, venue>>, NEW s
  PROVE  Claims(s)' = Claims(s)
<1>1. ASSUME NEW o \in Orders PROVE Claim(o, s)' = Claim(o, s)
  BY DEF Claim, Due, SameOrders, booked, Working, Rest
<1>2. [o \in Orders' |-> Claim(o, s)'] = [o \in Orders |-> Claim(o, s)]
  BY <1>1 DEF SameOrders
<1> QED
  BY <1>2 DEF Claims

(* What a round books into the portfolio is claimed no longer.             *)
LEMMA ClaimsPolled ==
  ASSUME BaseInv, BaseInv', SameOrders, venue' = venue, NEW T \in SUBSET Orders,
         NEW report \in ReportsOf(T), fills' = fills_after(report), NEW s \in Symbols
  PROVE  /\ change_of(report)[s] + Claims(s)' <= Claims(s)
         /\ Claims(s)' <= Claims(s)
<1> DEFINE S == {p \in news(report) : rows[p].symbol = s}
           e == [o \in S |-> Position(o, report[o].filled - booked(o))]
           f == [o \in Orders |-> Claim(o, s)']
           g == [o \in Orders |-> Claim(o, s)]
<1>1. /\ IsFiniteSet(Orders) /\ \A o \in Orders : Claim(o, s) \in Nat
      /\ Claims(s) = SumFunctionOnSet(g, Orders)
  BY ClaimTypes DEF ClaimFacts
<1>2. /\ \A o \in Orders : Claim(o, s)' \in Nat
      /\ Claims(s)' = SumFunctionOnSet(f, Orders)
  BY ClaimTypesNext DEF ClaimFacts, SameOrders
<1>3. news(report) \subseteq T /\ T \subseteq Orders /\ S \subseteq Orders
  <2>1. news(report) \subseteq T
    BY PollFacts DEF BaseInv
  <2> QED
    BY <2>1
<1>4. ASSUME NEW o \in Orders
      PROVE  /\ o \notin S => Claim(o, s)' = Claim(o, s)
             /\ Claim(o, s)' <= Claim(o, s)
             /\ o \in S => /\ Position(o, report[o].filled - booked(o)) \in Int
                           /\ Position(o, report[o].filled - booked(o)) + Claim(o, s)' <= Claim(o, s)
  <2> DEFINE B == booked(o)
             N == booked(o)'
             F == venue[o].filled
             r == report[o].filled
  <2>1. /\ rows[o] \in OrderRows /\ fills[o] \in Seq(FillRows) /\ venue[o] \in VenueRows
    BY OrderAt DEF BaseInv
  <2>2. B \in Int /\ F \in Nat /\ rows[o].quantity \in Int
    BY <2>1, SummedInt DEF booked, VenueRows, OrderRows
  <2>3. N = IF o \in news(report) THEN r ELSE B
    BY PollFacts DEF BaseInv, booked
  <2>4. /\ rows'[o].symbol = rows[o].symbol /\ rows'[o].quantity = rows[o].quantity
        /\ Working(o)' = Working(o) /\ Rest(o)' = Rest(o) /\ venue'[o].filled = F
    BY DEF SameOrders, Working, Rest
  <2>5. Claim(o, s) \in Nat /\ Claim(o, s)' \in Nat
    BY <1>1, <1>2
  <2>6. o \in news(report) => r \in Nat /\ r > B
    <3>1. o \in news(report) => o \in T
      BY <1>3
    <3> QED
      BY <3>1, PollFacts DEF BaseInv, ReportRows
  <2>7. CASE rows[o].symbol # s
    BY <2>4, <2>5, <2>7 DEF Claim
  <2>8. CASE rows[o].symbol = s /\ ~(rows[o].quantity > 0)
    <3>1. Claim(o, s)' = Claim(o, s)
      BY <2>4, <2>8 DEF Claim
    <3>2. Position(o, r - B) = 0 - (r - B)
      BY <2>8 DEF Position
    <3> HIDE DEF B, r
    <3>3. /\ Position(o, r - B) \in Int /\ Position(o, r - B) + Claim(o, s)' <= Claim(o, s)
          \/ o \notin news(report)
      BY <2>2, <2>5, <2>6, <3>1, <3>2
    <3> QED
      BY <2>5, <3>1, <3>3 DEF B, r
  <2>9. CASE rows[o].symbol = s /\ rows[o].quantity > 0
    <3>1. /\ Claim(o, s)' = (IF venue[o].today THEN F - N ELSE 0)
          /\ Claim(o, s) = (IF venue[o].today THEN F - B ELSE 0)
      BY <2>4, <2>9 DEF Claim, Due
    <3>0. o \in news(report) => venue[o].today
      <4>1. o \in news(report) => o \in T
        BY <1>3
      <4>2. o \in T => report[o] \in Reports(o)
        BY DEF ReportsOf
      <4>3. report[o] \in Reports(o) => venue[o].today \/ report[o].filled = 0
        BY DEF Reports, NoRow
      <4>4. 0 <= B
        BY DEF B, booked, BaseInv, SoundInv, Sound
      <4> HIDE DEF B
      <4> QED
        BY <2>2, <2>6, <4>1, <4>2, <4>3, <4>4
    <3>2. Position(o, r - B) = r - B
      BY <2>9 DEF Position
    <3>3. o \in S <=> o \in news(report)
      BY <2>9
    <3> HIDE DEF B, r, N, F, S
    <3>4. CASE o \in news(report)
      <4>1. /\ Position(o, r - B) \in Int /\ Position(o, r - B) + Claim(o, s)' <= Claim(o, s)
            /\ Claim(o, s)' <= Claim(o, s)
        BY <2>2, <2>3, <2>6, <3>0, <3>1, <3>2, <3>4
      <4> QED
        BY <3>3, <3>4, <4>1 DEF B, r
    <3>5. CASE o \notin news(report)
      BY <2>2, <2>3, <2>5, <3>1, <3>3, <3>5
    <3> QED
      BY <3>4, <3>5
  <2> QED
    BY <2>7, <2>8, <2>9
<1>5. Claims(s)' <= Claims(s)
  BY <1>4, ClaimsShrink DEF SameOrders
<1>6. change_of(report)[s] = SumFunctionOnSet(e, S)
  BY DEF change_of, SumFunction
<1>7. /\ \A o \in Orders : f[o] \in Int /\ g[o] \in Int
      /\ \A o \in S : e[o] \in Int /\ e[o] + f[o] <= g[o]
      /\ \A o \in Orders : o \notin S => f[o] <= g[o]
  <2>1. \A o \in Orders : f[o] \in Int /\ g[o] \in Int
    BY <1>1, <1>2
  <2>2. ASSUME NEW o \in S PROVE e[o] \in Int /\ e[o] + f[o] <= g[o]
    <3>1. e[o] = Position(o, report[o].filled - booked(o)) /\ f[o] = Claim(o, s)' /\ g[o] = Claim(o, s)
      BY <1>3
    <3>2. o \in Orders
      BY <1>3
    <3> HIDE DEF e, f, g
    <3> QED
      BY <1>4, <3>1, <3>2
  <2>3. \A o \in Orders : f[o] <= g[o]
    BY <1>4
  <2> QED
    BY <2>1, <2>2, <2>3
<1> HIDE DEF e, f, g, S
<1>8. SumFunctionOnSet(e, S) + SumFunctionOnSet(f, Orders) <= SumFunctionOnSet(g, Orders)
  BY <1>1, <1>3, <1>7, SumBound
<1> QED
  BY <1>1, <1>2, <1>5, <1>6, <1>8

(* Launches, settlements and ends: no process is trading afterwards.       *)
LEMMA ClaimIdle ==
  ASSUME BaseInv, BaseInv', ClaimInv, held' = held, by_hand' = by_hand, raced' = raced,
         session'.phase \notin {"compare", "update", "burst", "calling"},
         \A s \in Symbols : Claims(s)' <= Claims(s)
  PROVE  ClaimInv'
<1> SUFFICES ASSUME ~by_hand, ~raced PROVE ClaimState'
  BY DEF ClaimInv
<1>1. ASSUME NEW s \in Symbols PROVE Claims(s)' <= held'[s]
  <2>1. Claims(s) <= held[s] /\ Claims(s)' <= Claims(s)
    BY DEF ClaimInv, ClaimState
  <2>2. Claims(s) \in Nat /\ Claims(s)' \in Nat
    BY ClaimTypes, ClaimTypesNext DEF ClaimFacts
  <2>3. held[s] \in Int
    BY DEF BaseInv, AccountType
  <2> QED
    BY <2>1, <2>2, <2>3
<1> QED
  BY <1>1 DEF ClaimState, Trading

(* What recovery books is what the claims lose.                            *)
LEMMA ClaimRecover == ASSUME BaseInv, ClaimInv, Recover PROVE ClaimInv'
<1>0. BaseInv' /\ session'.phase = "compare"
  BY RecoverBase
<1>1. PICK T \in SUBSET Orders : \E report \in ReportsOf(T) :
        /\ fills' = fills_after(report) /\ venue' = venue /\ SameOrders
        /\ \E b \in BOOLEAN :
             session' = [session EXCEPT !.phase = "compare", !.orphans = b,
                           !.held = change_of(report), !.tracked = T \ polled_done(report)]
  BY RecoverFacts, Zenon DEF BaseInv
<1>2. PICK report \in ReportsOf(T), b \in BOOLEAN :
        /\ fills' = fills_after(report) /\ venue' = venue /\ SameOrders
        /\ session' = [session EXCEPT !.phase = "compare", !.orphans = b,
                         !.held = change_of(report), !.tracked = T \ polled_done(report)]
  BY <1>1, Zenon
<1>3. RunningType(session)
  BY RunningIs DEF BaseInv, Recover, Owning
<1>4. session'.held = change_of(report)
  BY <1>2, <1>3 DEF RunningType, Processes
<1>5. UNCHANGED <<held, by_hand, raced>>
  BY DEF Recover, accountVars
<1> SUFFICES ASSUME ~by_hand, ~raced PROVE ClaimState'
  BY <1>5 DEF ClaimInv
<1>6. ASSUME NEW s \in Symbols
      PROVE  Claims(s)' <= held'[s] /\ session'.held[s] + Claims(s)' <= held'[s]
  <2>1. Claims(s) <= held[s]
    BY DEF ClaimInv, ClaimState
  <2>2. session'.held[s] + Claims(s)' <= Claims(s) /\ Claims(s)' <= Claims(s)
    BY <1>0, <1>2, <1>4, ClaimsPolled
  <2>3. Claims(s) \in Nat /\ Claims(s)' \in Nat
    BY <1>0, ClaimTypes, ClaimTypesNext DEF ClaimFacts
  <2>4. held[s] \in Int /\ session'.held[s] \in Int
    <3>1. change_of(report) \in [Symbols -> Int]
      BY ChangeType DEF BaseInv
    <3> QED
      BY <1>4, <3>1 DEF BaseInv, AccountType
  <2> QED
    BY <1>5, <2>1, <2>2, <2>3, <2>4
<1> QED
  BY <1>0, <1>6 DEF ClaimState, Trading

(* Where nothing is unseen and no sale works, nothing is claimed, and the  *)
(* balance becomes the portfolio.                                          *)
LEMMA ClaimCompare == ASSUME BaseInv, ClaimInv, Compare PROVE ClaimInv'
<1>1. /\ BaseInv' /\ UNCHANGED <<rows, fills, venue, held, cash, by_hand>>
      /\ raced' = (raced \/ \E o \in Orders : Unseen(o) \/ (Working(o) /\ rows[o].quantity < 0))
      /\ \/ session' = NoSession
         \/ session'.phase = "update" /\ session'.held = held
  BY CompareBase
<1> SUFFICES ASSUME ~by_hand, ~raced' PROVE ClaimState'
  BY <1>1 DEF ClaimInv
<1>2. ~raced /\ \A o \in Orders : ~Unseen(o) /\ ~(Working(o) /\ rows[o].quantity < 0)
  BY <1>1
<1>3. ASSUME NEW s \in Symbols PROVE Claims(s)' = Claims(s) /\ Claims(s) = 0
  <2>1. SameOrders
    BY <1>1 DEF SameOrders, Orders
  <2>2. Claims(s)' = Claims(s)
    BY <1>1, <2>1, ClaimsKept
  <2> DEFINE f == [o \in Orders |-> Claim(o, s)]
  <2>3. ASSUME NEW o \in Orders PROVE f[o] = 0
    <3>1. Claim(o, s) \in Nat
      BY ClaimTypes DEF ClaimFacts
    <3>2. /\ rows[o].quantity \in Int /\ rows[o].quantity # 0 /\ venue[o].filled \in Nat
          /\ booked(o) \in Int
      BY OrderAt, SummedInt DEF BaseInv, SoundInv, Sound, OrderRows, VenueRows, booked
    <3>3. ~(venue[o].filled > booked(o)) /\ ~(Working(o) /\ rows[o].quantity < 0)
      BY <1>2 DEF Unseen
    <3>4. Claim(o, s) \in {0, venue[o].filled - booked(o)}
      BY <3>2, <3>3 DEF Claim, Due
    <3>5. Claim(o, s) = 0
      BY <3>1, <3>2, <3>3, <3>4
    <3> QED
      BY <3>5
  <2>4. IsFiniteSet(Orders) /\ Claims(s) = SumFunctionOnSet(f, Orders)
    BY ClaimTypes DEF ClaimFacts
  <2> HIDE DEF f
  <2>5. Claims(s) = 0
    BY <2>3, <2>4, SumZero
  <2> QED
    BY <2>2, <2>5
<1>4. ASSUME NEW s \in Symbols PROVE Claims(s)' <= held'[s] /\ held[s] + Claims(s)' <= held'[s]
  <2>1. held[s] \in Int
    BY DEF BaseInv, AccountType
  <2>2. Claims(s) <= held[s]
    BY <1>2 DEF ClaimInv, ClaimState
  <2> QED
    BY <1>1, <1>3, <2>1, <2>2
<1>5. Fresh' \subseteq Symbols
  BY DEF Fresh
<1>6. CASE session' = NoSession
  BY <1>4, <1>6 DEF ClaimState, Trading, NoSession
<1>7. CASE session' # NoSession
  BY <1>1, <1>4, <1>5, <1>7 DEF ClaimState, Trading
<1> QED
  BY <1>6, <1>7

(* What an update books is what the claims lose.                           *)
LEMMA ClaimUpdate == ASSUME BaseInv, ClaimInv, UpdateBooks PROVE ClaimInv'
<1>1. PICK report \in ReportsOf(session.tracked) :
        /\ BaseInv' /\ SameOrders /\ UNCHANGED <<venue, held, by_hand, raced>>
        /\ fills' = fills_after(report)
        /\ \/ session' = NoSession
           \/ /\ session'.phase = "burst"
              /\ session'.held = [s \in Symbols |-> session.held[s] + change_of(report)[s]]
              /\ session'.sent = {}
  BY UpdateBase, Zenon
<1>2. /\ session.phase = "update" /\ session.tracked \in SUBSET Orders /\ RunningType(session)
      /\ Fresh = Symbols
  <2>1. session.phase = "update"
    BY DEF UpdateBooks
  <2>2. session.tracked \in SUBSET Orders /\ RunningType(session)
    BY <2>1, RunningIs DEF BaseInv, Owning
  <2> QED
    BY <2>1, <2>2 DEF RunningType, Fresh, SentSymbols
<1>3. ASSUME NEW s \in Symbols
      PROVE  change_of(report)[s] + Claims(s)' <= Claims(s) /\ Claims(s)' <= Claims(s)
  BY <1>1, <1>2, ClaimsPolled
<1>4. CASE session' = NoSession
  BY <1>1, <1>3, <1>4, ClaimIdle DEF NoSession
<1>5. CASE session' # NoSession
  <2> SUFFICES ASSUME ~by_hand, ~raced PROVE ClaimState'
    BY <1>1 DEF ClaimInv
  <2>1. ASSUME NEW s \in Symbols
        PROVE  Claims(s)' <= held'[s] /\ session'.held[s] + Claims(s)' <= held'[s]
    <3> DEFINE c == change_of(report)[s]
               h == session.held[s]
    <3>1. Claims(s) <= held[s] /\ h + Claims(s) <= held[s]
      BY <1>2 DEF ClaimInv, ClaimState, Trading
    <3>2. Claims(s) \in Nat /\ Claims(s)' \in Nat
      BY <1>1, ClaimTypes, ClaimTypesNext DEF ClaimFacts
    <3>3. c \in Int /\ h \in Int /\ held[s] \in Int
      <4>1. change_of(report) \in [Symbols -> Int]
        BY <1>2, ChangeType DEF BaseInv
      <4> QED
        BY <1>2, <4>1 DEF RunningType, Processes, BaseInv, AccountType
    <3>4. session'.held[s] = h + c
      BY <1>1, <1>5
    <3>5. c + Claims(s)' <= Claims(s) /\ Claims(s)' <= Claims(s)
      BY <1>3
    <3> HIDE DEF c, h
    <3> QED
      BY <1>1, <3>1, <3>2, <3>3, <3>4, <3>5
  <2>2. Fresh' \subseteq Symbols
    BY DEF Fresh
  <2> QED
    BY <1>1, <1>5, <2>1, <2>2 DEF ClaimState
<1> QED
  BY <1>4, <1>5

(* An intent claims nothing.                                               *)
LEMMA ClaimSubmit ==
  ASSUME BaseInv, ClaimInv, NEW symbol \in Symbols, NEW asked \in Asked, Submit(symbol, asked)
  PROVE  ClaimInv'
<1>1. /\ BaseInv' /\ UNCHANGED <<held, by_hand, raced>>
      /\ session.phase = "burst" /\ symbol \notin SentSymbols
      /\ Called' \in Orders' /\ Orders' \ {Called'} = Orders
      /\ rows'[Called'].symbol = symbol
      /\ fills'[Called'] = <<>> /\ venue'[Called'].filled = 0 /\ venue'[Called'].working = FALSE
      /\ \A o \in Orders : rows'[o] = rows[o] /\ fills'[o] = fills[o] /\ venue'[o] = venue[o]
      /\ \/ session' = NoSession
         \/ /\ session'.phase \in {"burst", "calling"}
            /\ session'.held = session.held /\ SentSymbols' = SentSymbols \cup {symbol}
  BY SubmitBase
<1>2. ASSUME NEW s \in Symbols PROVE Claims(s)' = Claims(s)
  <2>1. \A o \in Orders : Claim(o, s)' = Claim(o, s)
    BY <1>1 DEF Claim, Due, booked, Working, Rest
  <2>2. PICK c \in Orders' : c = Called'
    BY <1>1
  <2>3. fills'[c] = <<>> /\ venue'[c].filled = 0 /\ venue'[c].working = FALSE
    BY <1>1, <2>2
  <2>4. booked(c)' = 0
    BY <2>3, SummedEmpty DEF booked
  <2>5. Claim(c, s)' = 0
    BY <2>3, <2>4 DEF Claim, Due, Working
  <2>6. Orders' \ {c} = Orders
    BY <1>1, <2>2
  <2> QED
    BY <1>1, <2>1, <2>5, <2>6, ClaimsAdded
<1>3. CASE session' = NoSession
  <2>1. ASSUME NEW s \in Symbols PROVE Claims(s)' <= Claims(s)
    <3>1. Claims(s) \in Nat /\ Claims(s)' = Claims(s)
      BY <1>2, ClaimTypes DEF ClaimFacts
    <3> QED
      BY <3>1
  <2> QED
    BY <1>1, <1>3, <2>1, ClaimIdle DEF NoSession
<1>4. CASE session' # NoSession
  <2>1. Fresh' \subseteq Fresh /\ Fresh \subseteq Symbols
    BY <1>1, <1>4 DEF Fresh
  <2> QED
    BY <1>1, <1>2, <1>4, <2>1 DEF ClaimInv, ClaimState, Trading
<1> QED
  BY <1>3, <1>4

(* A sale the venue takes was covered, sales at work counted; a purchase   *)
(* it takes claims nothing yet.                                            *)
LEMMA ClaimCall ==
  ASSUME BaseInv, ClaimInv, Accepted \/ Raised \/ (Crash /\ session.phase = "calling")
  PROVE  ClaimInv'
<1>1. /\ BaseInv' /\ SameOrders /\ UNCHANGED <<fills, held, by_hand, raced>>
      /\ RunningType(session) /\ session.phase = "calling"
      /\ venue' = venue \/ venue' = [venue EXCEPT ![Called] = Taken]
      /\ \/ session' = NoSession
         \/ /\ session'.phase = "burst" /\ session'.held = session.held
            /\ SentSymbols' = SentSymbols
  BY CallBase
<1>0. PICK c \in Orders : c = Called
  BY <1>1 DEF BaseInv, CallInv
<1> DEFINE x == rows[c].symbol
           q == rows[c].quantity
<1>2. /\ c \in Orders /\ fills[c] = <<>> /\ venue[c].filled = 0 /\ ~venue[c].working
      /\ x \in SentSymbols /\ (q < 0 => 0 - q <= session.held[x])
  <2>1. /\ c \in session.sent /\ fills[c] = <<>> /\ venue[c].filled = 0 /\ ~venue[c].working
        /\ q < 0 => 0 - q <= session.held[x]
    BY <1>0, <1>1 DEF BaseInv, CallInv, Working
  <2> QED
    BY <2>1 DEF SentSymbols
<1>3. x \in Symbols /\ q \in Int /\ q # 0 /\ venue \in [Orders -> VenueRows]
  <2>1. rows[c] \in OrderRows /\ Sound(rows[c], fills[c], venue[c])
    BY <1>2, OrderAt DEF BaseInv, SoundInv
  <2> QED
    BY <2>1, OrderAt DEF OrderRows, Sound, BaseInv
<1>4. Fresh = Symbols \ (SentSymbols \ {x}) /\ x \in Fresh
  BY <1>0, <1>1, <1>3 DEF Fresh
<1> HIDE DEF q, x
<1>5. venue' = venue \/ venue' = [venue EXCEPT ![c] = Taken]
  BY <1>0, <1>1
<1> SUFFICES ASSUME ~by_hand, ~raced PROVE ClaimState'
  BY <1>1 DEF ClaimInv
<1>6. ASSUME NEW s \in Symbols
      PROVE  /\ Claims(s) \in Nat /\ Claims(s)' \in Nat
             /\ Claims(s)' = Claims(s) \/ (s = x /\ q < 0 /\ Claims(s)' = Claims(s) - q)
  <2>0. Claims(s) \in Nat /\ Claims(s)' \in Nat
    BY <1>1, ClaimTypes, ClaimTypesNext DEF ClaimFacts
  <2>1. \A o \in Orders : o # c => venue'[o] = venue[o]
    BY <1>2, <1>3, <1>5
  <2>2. \A o \in Orders : o # c => Claim(o, s)' = Claim(o, s)
    BY <1>1, <2>1 DEF Claim, Due, booked, Working, Rest, SameOrders
  <2>3. Claims(s)' = Claims(s) - Claim(c, s) + Claim(c, s)'
    BY <1>1, <1>2, <2>2, ClaimsMove DEF SameOrders
  <2>4. booked(c) = 0 /\ booked(c)' = 0
    BY <1>1, <1>2, SummedEmpty DEF booked
  <2>5. venue'[c].filled = 0
    <3>1. Taken.filled = 0
      BY DEF Taken
    <3> HIDE DEF Taken
    <3> QED
      BY <1>2, <1>3, <1>5, <3>1
  <2>6. Claim(c, s) = 0
    BY <1>2, <2>4 DEF Claim, Due, Working
  <2>7. rows'[c].symbol = x /\ rows'[c].quantity = q
    BY <1>1, <1>2 DEF SameOrders, x, q
  <2>8. Claim(c, s)' = 0 \/ (s = x /\ q < 0 /\ Claim(c, s)' = 0 - q)
    <3>1. ASSUME s = x, ~(q > 0) PROVE q < 0 /\ Magnitude(q) = 0 - q /\ Magnitude(q) \in Int
      BY <1>3, <3>1 DEF Magnitude
    <3>2. Claim(c, s)' \in IF x # s THEN {0} ELSE IF q > 0 THEN {0 - 0} ELSE {Magnitude(q) - 0, 0}
      <4>1. Claim(c, s)' = IF rows'[c].symbol # s THEN 0
                           ELSE IF rows'[c].quantity > 0 THEN Due(c)'
                           ELSE IF Working(c)' THEN Rest(c)' ELSE 0
        BY DEF Claim
      <4>2. Rest(c)' = Magnitude(q) - 0
        BY <2>5, <2>7 DEF Rest, Magnitude
      <4>3. Due(c)' = 0 - 0
        BY <2>4, <2>5 DEF Due
      <4> HIDE DEF Claim
      <4> QED
        BY <2>7, <4>1, <4>2, <4>3
    <3>3. CASE x # s
      BY <3>2, <3>3
    <3>4. CASE x = s /\ q > 0
      BY <3>2, <3>4
    <3>5. CASE x = s /\ ~(q > 0)
      <4>1. q < 0 /\ Magnitude(q) = 0 - q
        BY <3>1, <3>5
      <4>2. Claim(c, s)' = Magnitude(q) - 0 \/ Claim(c, s)' = 0
        BY <3>2, <3>5
      <4> QED
        BY <1>3, <3>5, <4>1, <4>2
    <3> QED
      BY <3>3, <3>4, <3>5
  <2> QED
    BY <1>3, <2>0, <2>3, <2>6, <2>8
<1>7. ASSUME NEW s \in Symbols PROVE Claims(s)' <= held'[s]
  <2>1. held[s] \in Int /\ session.held[s] \in Int
    BY <1>1 DEF BaseInv, AccountType, RunningType, Processes
  <2>2. Claims(s) <= held[s]
    BY DEF ClaimInv, ClaimState
  <2>3. CASE Claims(s)' = Claims(s)
    BY <1>1, <2>2, <2>3
  <2>4. CASE s = x /\ q < 0 /\ Claims(s)' = Claims(s) - q
    <3>1. session.held[s] + Claims(s) <= held[s] /\ 0 - q <= session.held[s]
      BY <1>1, <1>2, <1>4, <2>4 DEF ClaimInv, ClaimState, Trading
    <3> QED
      BY <1>1, <1>3, <1>6, <2>1, <2>4, <3>1
  <2> QED
    BY <1>6, <2>3, <2>4
<1>8. ASSUME session'.phase \in Trading, NEW s \in Fresh'
      PROVE  session'.held[s] + Claims(s)' <= held'[s]
  <2>1. session' # NoSession
    BY <1>8 DEF NoSession, Trading
  <2>2. Fresh' = Symbols \ SentSymbols
    BY <1>1, <2>1 DEF Fresh
  <2>3. s \in Fresh /\ s # x /\ s \in Symbols
    BY <1>2, <1>4, <2>2
  <2>4. Claims(s)' = Claims(s)
    BY <1>6, <2>3
  <2> QED
    BY <1>1, <2>1, <2>3, <2>4 DEF ClaimInv, ClaimState, Trading
<1>9. session'.phase # "compare"
  BY <1>1 DEF NoSession
<1> QED
  BY <1>7, <1>8, <1>9 DEF ClaimState

(* A filled sale lowers the holding and its claim by the same share, a     *)
(* filled purchase raises both, and an order that lapses only frees.       *)
LEMMA ClaimOutside ==
  ASSUME BaseInv, ClaimInv,
         NewDay \/ ThrowSwitch \/ (UNCHANGED vars) \/ (\E o \in Orders : Fill(o) \/ Drop(o))
           \/ (\E s \in Symbols : TradeByHand(s))
  PROVE  ClaimInv'
<1>1. /\ BaseInv' /\ SameOrders /\ UNCHANGED <<rows, fills, session, raced>> /\ Fresh' = Fresh
  <2>1. BaseInv' /\ SameOrders /\ UNCHANGED <<rows, fills, session, raced>>
    BY OutsideBase
  <2> QED
    BY <2>1 DEF Fresh, SentSymbols, Called
<1>2. CASE \E s \in Symbols : TradeByHand(s)
  BY <1>2 DEF TradeByHand, ClaimInv
<1> SUFFICES ASSUME ClaimState,
                    NewDay \/ ThrowSwitch \/ (UNCHANGED vars) \/ (\E o \in Orders : Fill(o) \/ Drop(o))
             PROVE  ClaimState'
  <2>1. (\E s \in Symbols : TradeByHand(s)) \/ UNCHANGED by_hand
    BY Zenon DEF NewDay, ThrowSwitch, vars, Fill, Drop
  <2> QED
    BY <1>1, <1>2, <2>1 DEF ClaimInv
<1>3. venue \in [Orders -> VenueRows]
  BY OrderAt DEF BaseInv
(* It is enough that claims grow no faster than holdings.                  *)
<1>4. ASSUME \A s \in Symbols : Claims(s)' - Claims(s) <= held'[s] - held[s] PROVE ClaimState'
  <2>1. ASSUME NEW s \in Symbols
        PROVE  /\ Claims(s) \in Nat /\ Claims(s)' \in Nat /\ held[s] \in Int /\ held'[s] \in Int
               /\ Claims(s)' <= held'[s]
    <3>1. Claims(s) \in Nat /\ Claims(s)' \in Nat /\ held[s] \in Int /\ held'[s] \in Int
      BY <1>1, ClaimTypes, ClaimTypesNext DEF ClaimFacts, BaseInv, AccountType
    <3>2. Claims(s) <= held[s]
      BY DEF ClaimState
    <3> QED
      BY <1>4, <3>1, <3>2
  <2>2. ASSUME NEW s \in Symbols, session.phase \in Owning, session.held[s] + Claims(s) <= held[s]
        PROVE  session.held[s] + Claims(s)' <= held'[s]
    <3>1. session.held[s] \in Int
      BY <2>2, RunningIs DEF BaseInv, RunningType, Processes
    <3> QED
      BY <1>4, <2>1, <2>2, <3>1
  <2>3. Fresh \subseteq Symbols
    BY DEF Fresh
  <2>4. \A ph \in Trading \cup {"compare"} : ph \in Owning
    BY DEF Trading, Owning
  <2> QED
    BY <1>1, <2>1, <2>2, <2>3, <2>4 DEF ClaimState
<1>5. CASE held' = held /\ \A s \in Symbols : Claims(s)' <= Claims(s)
  <2>1. ASSUME NEW s \in Symbols PROVE Claims(s)' - Claims(s) <= held'[s] - held[s]
    <3>1. Claims(s) \in Nat /\ Claims(s)' \in Nat /\ held[s] \in Int
      BY <1>1, ClaimTypes, ClaimTypesNext DEF ClaimFacts, BaseInv, AccountType
    <3> QED
      BY <1>5, <3>1
  <2> QED
    BY <1>4, <2>1
<1>6. CASE ThrowSwitch \/ UNCHANGED vars
  <2>1. UNCHANGED <<held, venue>>
    BY <1>6, Zenon DEF ThrowSwitch, vars, accountVars
  <2>2. ASSUME NEW s \in Symbols PROVE Claims(s)' <= Claims(s)
    <3>1. Claims(s)' = Claims(s) /\ Claims(s) \in Nat
      BY <1>1, <2>1, ClaimsKept, ClaimTypes DEF ClaimFacts
    <3> QED
      BY <3>1
  <2> QED
    BY <1>5, <2>1, <2>2
(* Orders that end claim less.                                             *)
<1>7. ASSUME \A o \in Orders : /\ venue'[o].filled = venue[o].filled
                               /\ venue'[o].working => venue[o].working
                               /\ venue'[o].today => venue[o].today,
             held' = held
      PROVE  ClaimState'
  <2>1. ASSUME NEW s \in Symbols, NEW o \in Orders PROVE Claim(o, s)' <= Claim(o, s)
    <3>1. Claim(o, s) \in Nat
      BY ClaimTypes DEF ClaimFacts
    <3>2. Rest(o)' = Rest(o) /\ booked(o)' = booked(o) /\ venue'[o].filled = venue[o].filled
      BY <1>1, <1>7 DEF Rest, booked
    <3>3. Claim(o, s)' = Claim(o, s) \/ Claim(o, s)' = 0
      BY <1>1, <1>7, <3>2 DEF Claim, Due, Working
    <3> QED
      BY <3>1, <3>3
  <2>2. \A s \in Symbols : Claims(s)' <= Claims(s)
    BY <1>1, <2>1, ClaimsShrink DEF SameOrders
  <2> QED
    BY <1>5, <1>7, <2>2
<1>8. CASE NewDay
  <2>1. \A o \in Orders : /\ venue'[o].filled = venue[o].filled
                          /\ venue'[o].working => venue[o].working
                          /\ venue'[o].today => venue[o].today
    BY <1>3, <1>8 DEF NewDay, VenueRows
  <2>2. held' = held
    BY <1>8 DEF NewDay
  <2> QED
    BY <1>7, <2>1, <2>2
<1>9. ASSUME NEW o \in Orders, Drop(o) PROVE ClaimState'
  <2>1. venue' = [venue EXCEPT ![o].working = FALSE] /\ held' = held
    BY <1>9 DEF Drop
  <2>2. \A p \in Orders : /\ venue'[p].filled = venue[p].filled
                          /\ venue'[p].working => venue[p].working
                          /\ venue'[p].today => venue[p].today
    BY <1>3, <2>1 DEF VenueRows
  <2> QED
    BY <1>7, <2>1, <2>2
(* A fill moves the holding and the claim alike.                           *)
<1>10. ASSUME NEW c \in Orders, Fill(c) PROVE ClaimState'
  <2> DEFINE x == rows[c].symbol
             q == rows[c].quantity
             side == IF q > 0 THEN 1 ELSE -1
             R == Rest(c)
             v == [venue[c] EXCEPT !.filled = @ + 1, !.working = ~(R = 1)]
  <2>1. /\ venue[c].working /\ held' = [held EXCEPT ![x] = @ + side]
        /\ venue' = [venue EXCEPT ![c] = v]
    BY <1>3, <1>10 DEF Fill, Working
  <2>2. /\ x \in Symbols /\ q \in Int /\ q # 0 /\ venue[c] \in VenueRows
        /\ Sound(rows[c], fills[c], venue[c]) /\ booked(c) \in Int
    <3>1. rows[c] \in OrderRows /\ venue[c] \in VenueRows /\ Sound(rows[c], fills[c], venue[c])
          /\ fills[c] \in Seq(FillRows)
      BY OrderAt DEF BaseInv, SoundInv
    <3> QED
      BY <3>1, SummedInt DEF OrderRows, Sound, booked
  <2>3. venue'[c] = v /\ \A o \in Orders : o # c => venue'[o] = venue[o]
    <3> HIDE DEF v
    <3> QED
      BY <1>3, <2>1
  <2>4. /\ venue'[c].filled = venue[c].filled + 1 /\ venue'[c].working = ~(R = 1)
        /\ venue'[c].today = venue[c].today
    BY <2>2, <2>3 DEF VenueRows
  <2>5. R \in Int /\ R = Magnitude(q) - venue[c].filled /\ venue[c].filled \in Nat
        /\ Magnitude(q) \in Int
    BY <2>2 DEF Rest, Magnitude, VenueRows
  <2>6. Rest(c)' = R - 1 /\ booked(c)' = booked(c) /\ rows' = rows
    <3>1. Rest(c)' = Magnitude(q) - (venue[c].filled + 1)
      BY <1>1, <2>4 DEF Rest, Magnitude
    <3> HIDE DEF R, q
    <3> QED
      BY <1>1, <2>5, <3>1 DEF booked
  <2>7. ASSUME NEW s \in Symbols PROVE Claims(s)' - Claims(s) <= held'[s] - held[s]
    <3>1. \A o \in Orders : o # c => Claim(o, s)' = Claim(o, s)
      BY <1>1, <2>3 DEF Claim, Due, booked, Working, Rest
    <3>2. Claims(s)' = Claims(s) - Claim(c, s) + Claim(c, s)'
      BY <1>1, <3>1, ClaimsMove DEF SameOrders
    <3>3. /\ Claims(s) \in Nat /\ Claims(s)' \in Nat /\ held[s] \in Int
          /\ Claim(c, s) \in Nat /\ Claim(c, s)' \in Nat
      BY <1>1, ClaimTypes, ClaimTypesNext DEF ClaimFacts, BaseInv, AccountType, SameOrders
    <3>4. held \in [Symbols -> Int]
      BY DEF BaseInv, AccountType
    <3>5. CASE s # x
      <4>1. Claim(c, s)' = 0 /\ Claim(c, s) = 0
        BY <2>6, <3>5 DEF Claim
      <4>2. held'[s] = held[s]
        <5> HIDE DEF side, x
        <5> QED
          BY <2>1, <3>4, <3>5
      <4> QED
        BY <3>2, <3>3, <4>1, <4>2
    <3>6. CASE s = x /\ q > 0
      <4>1. Claim(c, s)' = Claim(c, s) + 1 \/ Claim(c, s)' = Claim(c, s)
        <5>1. Claim(c, s)' = Due(c)' /\ Claim(c, s) = Due(c)
          BY <2>6, <3>6 DEF Claim
        <5>2. venue'[c].filled = venue[c].filled + 1 /\ booked(c)' = booked(c)
          BY <2>4, <2>6
        <5>3. CASE venue[c].today
          BY <2>2, <2>4, <2>5, <5>1, <5>2, <5>3 DEF Due
        <5>4. CASE ~venue[c].today
          BY <2>4, <5>1, <5>4 DEF Due
        <5> QED
          BY <5>3, <5>4
      <4>2. side = 1
        BY <3>6
      <4>3. held'[s] = held[s] + 1
        <5> HIDE DEF side, x
        <5> QED
          BY <2>1, <2>2, <3>4, <3>6, <4>2
      <4> HIDE DEF side, x, q, R, v
      <4> QED
        BY <2>2, <2>5, <3>2, <3>3, <4>1, <4>3
    <3>7. CASE s = x /\ ~(q > 0)
      <4>1. Claim(c, s) = R
        BY <2>1, <3>7 DEF Claim, Working
      <4>2. Claim(c, s)' = IF R = 1 THEN 0 ELSE R - 1
        BY <2>4, <2>6, <3>7 DEF Claim, Working
      <4>3. side = -1
        BY <3>7
      <4>4. held'[s] = held[s] - 1
        <5> HIDE DEF side, x
        <5> QED
          BY <2>1, <2>2, <3>4, <3>7, <4>3
      <4> HIDE DEF side, x, q, R, v
      <4>5. Claim(c, s)' = R - 1
        BY <2>5, <4>2
      <4> QED
        BY <2>5, <3>2, <3>3, <4>1, <4>4, <4>5
    <3> QED
      BY <3>5, <3>6, <3>7
  <2> QED
    BY <1>4, <2>7
<1> QED
  BY <1>6, <1>8, <1>9, <1>10

(* The invariant of the two theorems about the account.                    *)
FundsInv == BaseInv /\ MemoryInv /\ QuietInv /\ ClaimInv

(* The whole invariant holds before the first launch.                      *)
LEMMA FundsInit == Init => FundsInv
<1> SUFFICES ASSUME Init PROVE FundsInv
  OBVIOUS
<1>1. BaseInv /\ MemoryInv
  BY BaseInit
<1>2. QuietInv
  BY DEF Init, QuietInv, NoSession, Trading
<1>3. ASSUME NEW s \in Symbols, NEW o \in Orders PROVE Claim(o, s) = 0
  BY OldIs DEF Claim, Due, Working
<1>4. ASSUME NEW s \in Symbols PROVE Claims(s) <= held[s]
  <2> DEFINE f == [o \in Orders |-> Claim(o, s)]
  <2>1. IsFiniteSet(Orders) /\ Claims(s) = SumFunctionOnSet(f, Orders)
    BY <1>1, ClaimTypes DEF ClaimFacts
  <2>0. \A o \in Orders : f[o] = 0
    BY <1>3
  <2> HIDE DEF f
  <2>2. Claims(s) = 0
    BY <2>0, <2>1, SumZero
  <2>3. held[s] = FirstHeld /\ FirstHeld \in Nat
    BY DeploymentAssumption DEF Init
  <2> QED
    BY <2>2, <2>3
<1>5. ClaimInv
  BY <1>4 DEF Init, ClaimInv, ClaimState, NoSession, Trading
<1> QED
  BY <1>1, <1>2, <1>5 DEF FundsInv

(* Steps after which no process is trading.                                *)
LEMMA FundsIdle ==
  ASSUME FundsInv, MemoryInv', (\E who \in Deployments, aim \in Aims : Launch(who, aim))
                     \/ EndBurst \/ SettleBooks \/ SettleEnd \/ Promote
                     \/ (Crash /\ session.phase # "calling")
  PROVE  FundsInv'
<1>0. BaseInv /\ ClaimInv
  BY DEF FundsInv
<1>1. /\ BaseInv' /\ UNCHANGED <<held, by_hand, raced>>
      /\ session'.phase \notin {"compare", "update", "burst", "calling"}
      /\ \A s \in Symbols : Claims(s)' <= Claims(s)
  <2>1. CASE \E who \in Deployments, aim \in Aims : Launch(who, aim)
    <3>1. PICK who \in Deployments, aim \in Aims : Launch(who, aim)
      BY <2>1
    <3>2. BaseInv' /\ session'.phase = "recover"
      BY <1>0, <3>1, LaunchBase
    <3>3. UNCHANGED <<rows, fills, venue, held, by_hand, raced>>
      BY <3>1 DEF Launch, accountVars
    <3>4. SameOrders
      BY <3>3 DEF SameOrders, Orders
    <3>5. ASSUME NEW s \in Symbols PROVE Claims(s)' <= Claims(s)
      <4>1. Claims(s)' = Claims(s) /\ Claims(s) \in Nat
        BY <1>0, <3>3, <3>4, ClaimsKept, ClaimTypes DEF ClaimFacts
      <4> QED
        BY <4>1
    <3> QED
      BY <3>2, <3>3, <3>5
  <2>2. CASE ~\E who \in Deployments, aim \in Aims : Launch(who, aim)
    <3>1. /\ BaseInv' /\ SameOrders /\ session'.phase \notin Owning
          /\ UNCHANGED <<venue, held, by_hand, raced>>
          /\ \/ fills' = fills
             \/ \E T \in SUBSET Orders : \E report \in ReportsOf(T) : fills' = fills_after(report)
      BY <1>0, <2>2, EndingBase
    <3>2. ASSUME NEW s \in Symbols PROVE Claims(s)' <= Claims(s)
      <4>1. CASE fills' = fills
        <5>1. Claims(s)' = Claims(s) /\ Claims(s) \in Nat
          BY <1>0, <3>1, <4>1, ClaimsKept, ClaimTypes DEF ClaimFacts
        <5> QED
          BY <5>1
      <4>2. CASE fills' # fills
        BY <1>0, <3>1, <4>2, ClaimsPolled
      <4> QED
        BY <4>1, <4>2
    <3> QED
      BY <3>1, <3>2 DEF Owning
  <2> QED
    BY <2>1, <2>2
<1>2. QuietInv'
  BY <1>1 DEF QuietInv, Trading
<1>3. ClaimInv'
  BY <1>0, <1>1, ClaimIdle
<1> QED
  BY <1>1, <1>2, <1>3 DEF FundsInv

(* Every step keeps the whole invariant.                                   *)
LEMMA FundsStep == FundsInv /\ [Next]_vars => FundsInv'
<1> SUFFICES ASSUME FundsInv, [Next]_vars PROVE FundsInv'
  OBVIOUS
<1>0. BaseInv /\ MemoryInv /\ QuietInv /\ ClaimInv
  BY DEF FundsInv
<1>1. BaseInv' /\ MemoryInv'
  BY <1>0, BaseStep, MemoryStep
<1>2. CASE (\E who \in Deployments, aim \in Aims : Launch(who, aim))
             \/ EndBurst \/ SettleRound \/ SettleEnd \/ Promote
             \/ (Crash /\ session.phase # "calling")
  BY <1>0, <1>1, <1>2, SettleIs, FundsIdle
<1>3. CASE Recover
  <2>1. session'.phase = "compare"
    BY <1>0, <1>3, RecoverBase
  <2>2. QuietInv'
    BY <2>1 DEF QuietInv, Trading
  <2> QED
    BY <1>0, <1>1, <1>3, <2>2, ClaimRecover DEF FundsInv
<1>4. CASE Compare
  BY <1>0, <1>1, <1>4, QuietCompare, ClaimCompare DEF FundsInv
<1>5. CASE Update
  BY <1>0, <1>1, <1>5, UpdateIs, QuietUpdate, ClaimUpdate DEF FundsInv
<1>6. ASSUME NEW s \in Symbols, NEW q \in Asked, Submit(s, q) PROVE FundsInv'
  BY <1>0, <1>1, <1>6, QuietSubmit, ClaimSubmit DEF FundsInv
<1>7. CASE Accepted \/ Raised \/ (Crash /\ session.phase = "calling")
  BY <1>0, <1>1, <1>7, QuietCall, ClaimCall DEF FundsInv
<1>8. CASE NewDay \/ ThrowSwitch \/ (UNCHANGED vars) \/ (\E o \in Orders : Fill(o) \/ Drop(o))
           \/ (\E s \in Symbols : TradeByHand(s))
  BY <1>0, <1>1, <1>8, QuietOutside, ClaimOutside DEF FundsInv
<1> QED
  BY <1>2, <1>3, <1>4, <1>5, <1>6, <1>7, <1>8, Zenon DEF Next, Aims

(* The whole invariant holds for ever.                                     *)
LEMMA FundsInvariant == Spec => []FundsInv
  BY FundsInit, FundsStep, PTL DEF Spec

(* For any deployments, symbols, prices and limits: a launch that finds    *)
(* the venue quiet never sends a sale that the account does not cover, nor *)
(* a purchase, until the venue has taken another purchase of the burst     *)
(* that works or has filled (_clamp_quantity on the portfolio              *)
(* seed_from_venue set).                                                   *)
THEOREM ClampCovers == Spec => []ClampedIsCovered
<1>1. FundsInv => ClampedIsCovered
  BY QuietCovers DEF FundsInv
<1> QED
  BY <1>1, FundsInvariant, PTL

(* Reconciliation never halts on an overstated holding unless somebody     *)
(* traded by hand or a launch once read the balance ahead of the reports   *)
(* or beside a working sale, whatever crashed in between (reconcile,       *)
(* _recover_open_orders).                                                  *)
THEOREM HaltsAreExplained == Spec => []HaltIsExplained
<1>1. FundsInv => HaltIsExplained
  <2> SUFFICES ASSUME FundsInv, session.phase = "compare", Overstated, ~by_hand, ~raced
               PROVE  FALSE
    BY DEF HaltIsExplained
  <2>1. PICK s \in Symbols : session.held[s] > held[s]
    BY DEF Overstated
  <2>2. session.held[s] + Claims(s) <= held[s]
    BY DEF FundsInv, ClaimInv, ClaimState
  <2>3. Claims(s) \in Nat /\ held[s] \in Int
    BY ClaimTypes DEF FundsInv, ClaimFacts, BaseInv, AccountType
  <2>4. session.held[s] \in Int
    BY RunningIs DEF FundsInv, BaseInv, Owning, RunningType, Processes
  <2> QED
    BY <2>1, <2>2, <2>3, <2>4
<1> QED
  BY <1>1, FundsInvariant, PTL

---------------------------------------------------------------------------
(* The life of a row.                                                      *)

(* What one step may make of a row r with fill rows f: s with g.  What was *)
(* asked, and by whom, stays; an intent is answered once; fills are added  *)
(* one at a time, only while the order is SUBMITTED and only with a        *)
(* quantity; a closed row never changes again.                             *)
Lives(r, f, s, g) ==
  /\ s.symbol = r.symbol /\ s.quantity = r.quantity /\ s.writer = r.writer
  /\ \/ s = r /\ g = f
     \/ r.state = "INTENT" /\ s.state \in {"SUBMITTED", "REJECTED"} /\ g = f
     \/ /\ r.state = "SUBMITTED" /\ s.state \in {"SUBMITTED", "FILLED", "STALE"}
        /\ g = f \/ (g = Append(f, Last(g)) /\ Last(g).quantity > 0)

(* Over launches, crashes and recoveries the ledger is only added to: no   *)
(* row is taken away or rewritten, and none that was closed is opened      *)
(* again or gets another fill (ledger.py, _recover_open_orders,            *)
(* _close_order).                                                          *)
RowsOnlyLive ==
  [][/\ Orders \subseteq Orders'
     /\ \A o \in Orders : Lives(rows[o], fills[o], rows'[o], fills'[o])]_vars

(* Every row on record has the shape its state promises.                   *)
ShapeInv == \A o \in Orders : RowShape(rows[o], fills[o])

(* What a process tracks is open.                                          *)
TrackedInv ==
  session.phase \in {"compare", "update", "burst", "calling", "settle"} =>
    \A o \in session.tracked : rows[o].state = "SUBMITTED"

AuditInv == ShapeInv /\ TrackedInv

(* A step that adds no order.                                              *)
Audited ==
  /\ Orders' = Orders
  /\ \A o \in Orders : /\ Lives(rows[o], fills[o], rows'[o], fills'[o])
                       /\ RowShape(rows'[o], fills'[o])

(* A row that is left alone, answered or closed.                           *)
LEMMA RowLives ==
  ASSUME NEW r \in OrderRows, NEW f, NEW s \in OrderRows, NEW g, RowShape(r, f),
         s.symbol = r.symbol, s.quantity = r.quantity, s.writer = r.writer,
         \/ s = r /\ g = f
         \/ r.state = "INTENT" /\ s.state = "SUBMITTED" /\ s.numbered /\ g = f
         \/ r.state = "INTENT" /\ s.state = "REJECTED" /\ s.numbered = r.numbered /\ g = f
         \/ /\ r.state = "SUBMITTED" /\ s.state \in {"SUBMITTED", "FILLED", "STALE"}
            /\ s.numbered = r.numbered
            /\ g = f \/ (g = Append(f, Last(g)) /\ Last(g).quantity > 0)
  PROVE  Lives(r, f, s, g) /\ RowShape(s, g)
<1>1. CASE s = r /\ g = f
  BY <1>1 DEF Lives
<1>2. CASE r.state = "INTENT" /\ s.state = "SUBMITTED" /\ s.numbered /\ g = f
  BY <1>2 DEF Lives, RowShape, OrderRows
<1>3. CASE r.state = "INTENT" /\ s.state = "REJECTED" /\ s.numbered = r.numbered /\ g = f
  BY <1>3 DEF Lives, RowShape, OrderRows
<1>4. CASE /\ r.state = "SUBMITTED" /\ s.state \in {"SUBMITTED", "FILLED", "STALE"}
           /\ s.numbered = r.numbered
           /\ g = f \/ (g = Append(f, Last(g)) /\ Last(g).quantity > 0)
  BY <1>4 DEF Lives, RowShape, OrderRows
<1> QED  BY <1>1, <1>2, <1>3, <1>4

(* An enquired order keeps its row, or is closed as FILLED; its fill rows  *)
(* stay or get one more, of what is new.                                   *)
LEMMA PolledLives ==
  ASSUME LedgerType, SoundInv, ShapeInv, NEW T \in SUBSET Orders, NEW report \in ReportsOf(T),
         \A o \in T : rows[o].state = "SUBMITTED", NEW o \in Orders, NEW s,
         \/ s = rows[o]
         \/ /\ o \in polled_done(report)
            /\ \/ s = [rows[o] EXCEPT !.state = "FILLED"]
               \/ s = [rows[o] EXCEPT !.state = "FILLED", !.note = ""]
  PROVE  /\ Lives(rows[o], fills[o], s, fills_after(report)[o])
         /\ RowShape(s, fills_after(report)[o])
<1> DEFINE r == rows[o]
           f == fills[o]
           g == fills_after(report)[o]
<1>1. /\ r \in OrderRows /\ f \in Seq(FillRows) /\ RowShape(r, f)
      /\ DOMAIN report = T /\ polled_done(report) \subseteq T /\ news(report) \subseteq T
  BY OrderAt, PollFacts DEF ShapeInv
<1>2. /\ s \in OrderRows /\ s.symbol = r.symbol /\ s.quantity = r.quantity /\ s.writer = r.writer
      /\ s.numbered = r.numbered
      /\ s = r \/ (o \in T /\ s.state = "FILLED")
  <2>1. r \in OrderRows /\ polled_done(report) \subseteq T
    BY <1>1
  <2>2. \/ s = r
        \/ /\ o \in T
           /\ s = [r EXCEPT !.state = "FILLED"] \/ s = [r EXCEPT !.state = "FILLED", !.note = ""]
    BY <2>1
  <2> HIDE DEF r
  <2>3. CASE s = r
    BY <2>1, <2>3
  <2>4. CASE o \in T /\ s = [r EXCEPT !.state = "FILLED"]
    BY <2>1, <2>4 DEF OrderRows, States
  <2>5. CASE o \in T /\ s = [r EXCEPT !.state = "FILLED", !.note = ""]
    BY <2>1, <2>5 DEF OrderRows, States, Notes
  <2> QED  BY <2>2, <2>3, <2>4, <2>5
<1>3. g = f \/ (o \in T /\ g = Append(f, Last(g)) /\ Last(g).quantity > 0)
  <2>1. CASE o \notin news(report)
    BY <2>1 DEF fills_after
  <2>2. CASE o \in news(report)
    <3> DEFINE e == row_of(o, report[o])
    <3>1. o \in T /\ report[o].filled > booked(o) /\ g = Append(f, e)
      BY <1>1, <2>2 DEF news, fills_after
    <3>2. /\ e.quantity = report[o].filled - booked(o)
          /\ e = [quantity |-> report[o].filled - booked(o), fees |-> report[o].fees - charged(o),
                  total |-> report[o].fees]
      BY DEF row_of
    <3>3. /\ report[o] \in ReportRows /\ booked(o) \in Int /\ charged(o) \in Int
      BY <1>1, <3>1, PollFacts, SummedInt DEF booked, charged
    <3>4. report[o].filled \in Nat /\ report[o].fees \in Nat
      BY <3>3 DEF ReportRows
    <3>5. e \in FillRows
      BY <3>2, <3>3, <3>4 DEF FillRows
    <3>6. e.quantity > 0
      BY <3>1, <3>2, <3>3, <3>4
    <3> HIDE DEF e, f, g
    <3>7. f \in Seq(FillRows)
      BY <1>1
    <3>8. Last(g) = e
      BY <3>1, <3>5, <3>7, SummedAppend
    <3> QED  BY <3>1, <3>6, <3>8
  <2> QED  BY <2>1, <2>2
<1>4. o \in T => r.state = "SUBMITTED"
  OBVIOUS
<1> HIDE DEF r, f, g
<1>5. \/ s = r /\ g = f
      \/ /\ r.state = "SUBMITTED" /\ s.state \in {"SUBMITTED", "FILLED", "STALE"}
         /\ s.numbered = r.numbered
         /\ g = f \/ (g = Append(f, Last(g)) /\ Last(g).quantity > 0)
  BY <1>2, <1>3, <1>4
<1>6. Lives(r, f, s, g) /\ RowShape(s, g)
  BY <1>1, <1>2, <1>5, RowLives
<1> QED  BY <1>6 DEF r, f, g

(* A round of polling.                                                     *)
LEMMA PollAudited ==
  ASSUME LedgerType, SoundInv, ShapeInv, NEW T \in SUBSET Orders, NEW report \in ReportsOf(T),
         \A o \in T : rows[o].state = "SUBMITTED", PollBooks(report), venue' = venue
  PROVE  /\ Audited
         /\ \A o \in T \ polled_done(report) : rows'[o].state = "SUBMITTED"
<1>1. Orders' = Orders
  BY PollStep DEF SameOrders
<1>2. /\ fills' = fills_after(report)
      /\ rows' = [o \in Orders |-> IF o \in polled_done(report)
                                   THEN [rows[o] EXCEPT !.state = "FILLED", !.note = ""]
                                   ELSE rows[o]]
  BY DEF PollBooks, close_rows
<1>3. ASSUME NEW o \in Orders
      PROVE  /\ Lives(rows[o], fills[o], rows'[o], fills'[o])
             /\ RowShape(rows'[o], fills'[o])
  <2> DEFINE s == rows'[o]
  <2>1. \/ s = rows[o]
        \/ o \in polled_done(report) /\ s = [rows[o] EXCEPT !.state = "FILLED", !.note = ""]
    BY <1>2
  <2> HIDE DEF s
  <2>2. /\ Lives(rows[o], fills[o], s, fills_after(report)[o])
        /\ RowShape(s, fills_after(report)[o])
    BY <2>1, PolledLives
  <2> QED  BY <1>2, <2>2 DEF s
<1>4. \A o \in T \ polled_done(report) : rows'[o] = rows[o]
  BY <1>2
<1> QED  BY <1>1, <1>3, <1>4 DEF Audited

(* Recovery answers the orphans, which are intents, and enquires the rest. *)
LEMMA AuditRecover ==
  ASSUME BaseInv, AuditInv, Recover
  PROVE  Audited /\ TrackedInv'
<1> DEFINE open == get_open_orders
           orphans == {o \in open : ~rows[o].numbered}
           T == open \ orphans
<1>1. PICK report \in ReportsOf(T) :
        /\ rows' = [o \in Orders |->
                      IF o \in orphans
                      THEN [rows[o] EXCEPT !.state = "REJECTED", !.note = "orphan"]
                      ELSE IF o \in polled_done(report)
                           THEN [rows[o] EXCEPT !.state = "FILLED"] ELSE rows[o]]
        /\ fills' = fills_after(report)
        /\ session' = [session EXCEPT !.phase = "compare", !.orphans = orphans # {},
                          !.held = change_of(report), !.tracked = T \ polled_done(report)]
  BY RecoverIs, Zenon DEF RecoverBooks
<1>2. T \in SUBSET Orders /\ orphans \subseteq Orders /\ orphans \cap T = {}
  BY DEF get_open_orders
<1>3. \A o \in Orders : rows[o] \in OrderRows /\ RowShape(rows[o], fills[o])
  BY OrderAt DEF BaseInv, AuditInv, ShapeInv
<1>4. /\ \A o \in T : rows[o].state = "SUBMITTED"
      /\ \A o \in orphans : rows[o].state = "INTENT"
  BY <1>3 DEF get_open_orders, TERMINAL_STATES, RowShape, OrderRows, States
<1>5. LedgerType /\ SoundInv /\ ShapeInv /\ Orders' = Orders
  <2>1. Orders' = Orders
    BY RecoverFacts DEF BaseInv, SameOrders
  <2> QED  BY <2>1 DEF BaseInv, AuditInv
<1>6. session'.tracked = T \ polled_done(report)
  <2>1. RunningType(session)
    BY RunningIs DEF BaseInv, Recover, Owning
  <2> HIDE DEF T, orphans
  <2> QED  BY <1>1, <2>1 DEF RunningType, Processes
<1> HIDE DEF open, orphans, T
<1>7. polled_done(report) \subseteq T /\ news(report) \subseteq T
  BY <1>2, <1>5, PollFacts
<1>8. ASSUME NEW o \in Orders
      PROVE  /\ Lives(rows[o], fills[o], rows'[o], fills'[o])
             /\ RowShape(rows'[o], fills'[o])
  <2>1. CASE o \in orphans
    <3> DEFINE r == rows[o]
               s == rows'[o]
               f == fills[o]
               g == fills'[o]
    <3>1. s = [r EXCEPT !.state = "REJECTED", !.note = "orphan"]
      BY <1>1, <2>1
    <3>2. g = f
      BY <1>1, <1>2, <1>7, <2>1 DEF fills_after
    <3>3. r \in OrderRows /\ RowShape(r, f) /\ r.state = "INTENT"
      BY <1>3, <1>4, <2>1
    <3> HIDE DEF r, s, f, g
    <3>4. /\ s \in OrderRows /\ s.symbol = r.symbol /\ s.quantity = r.quantity
          /\ s.writer = r.writer /\ s.state = "REJECTED" /\ s.numbered = r.numbered
      BY <3>1, <3>3 DEF OrderRows, States, Notes
    <3>5. Lives(r, f, s, g) /\ RowShape(s, g)
      BY <3>2, <3>3, <3>4, RowLives
    <3> QED  BY <3>5 DEF r, s, f, g
  <2>2. CASE o \notin orphans
    <3> DEFINE s == rows'[o]
    <3>1. \/ s = rows[o]
          \/ o \in polled_done(report) /\ s = [rows[o] EXCEPT !.state = "FILLED"]
      BY <1>1, <2>2
    <3> HIDE DEF s
    <3>2. /\ Lives(rows[o], fills[o], s, fills_after(report)[o])
          /\ RowShape(s, fills_after(report)[o])
      BY <1>2, <1>4, <1>5, <3>1, PolledLives
    <3> QED  BY <1>1, <3>2 DEF s
  <2> QED  BY <2>1, <2>2
<1>9. \A o \in T \ polled_done(report) : rows'[o].state = "SUBMITTED"
  <2>1. \A o \in T \ polled_done(report) : rows'[o] = rows[o]
    BY <1>1, <1>2
  <2> QED  BY <1>4, <2>1
<1> QED  BY <1>5, <1>6, <1>8, <1>9 DEF Audited, TrackedInv

(* A launch polls what it tracks (update, settle).                         *)
LEMMA AuditPoll ==
  ASSUME BaseInv, AuditInv, UpdateBooks \/ SettleBooks
  PROVE  Audited /\ TrackedInv'
<1>1. session.tracked \in SUBSET Orders /\ \A o \in session.tracked : rows[o].state = "SUBMITTED"
  <2>1. session.phase = "update" \/ session.phase = "settle"
    BY DEF UpdateBooks, SettleBooks
  <2>2. session.tracked \in SUBSET Orders
    BY <2>1, RunningIs, SettlingIs DEF BaseInv, Owning
  <2> QED  BY <2>1, <2>2 DEF AuditInv, TrackedInv
<1>2. venue' = venue
  BY DEF UpdateBooks, SettleBooks, accountVars
<1>3. PICK report \in ReportsOf(session.tracked) :
        /\ PollBooks(report)
        /\ \/ session' = NoSession
           \/ session' = Settling(session.tracked \ polled_done(report))
           \/ /\ UpdateBooks
              /\ session' = [session EXCEPT
                   !.phase = "burst", !.tracked = @ \ polled_done(report),
                   !.held = [s \in Symbols |-> @[s] + change_of(report)[s]],
                   !.cash = @ - cost_of(report)]
  BY Zenon DEF UpdateBooks, SettleBooks
<1>4. Audited /\ \A o \in session.tracked \ polled_done(report) : rows'[o].state = "SUBMITTED"
  BY <1>1, <1>2, <1>3, PollAudited DEF BaseInv, AuditInv
<1>5. session' = NoSession \/ session'.tracked = session.tracked \ polled_done(report)
  <2>1. CASE session' = Settling(session.tracked \ polled_done(report))
    BY <2>1 DEF Settling
  <2>2. CASE /\ UpdateBooks
             /\ session' = [session EXCEPT
                   !.phase = "burst", !.tracked = @ \ polled_done(report),
                   !.held = [s \in Symbols |-> @[s] + change_of(report)[s]],
                   !.cash = @ - cost_of(report)]
    <3>1. RunningType(session)
      BY <2>2, RunningIs DEF BaseInv, UpdateBooks, Owning
    <3> QED  BY <2>2, <3>1 DEF RunningType, Processes
  <2> QED  BY <1>3, <2>1, <2>2
<1> QED  BY <1>4, <1>5 DEF TrackedInv, NoSession

(* The deadline closes what is tracked, the switch leaves it.              *)
LEMMA AuditSettleEnd ==
  ASSUME BaseInv, AuditInv, SettleEnd
  PROVE  Audited /\ TrackedInv'
<1>1. /\ session.phase = "settle" /\ session' = NoSession /\ fills' = fills
      /\ rows' = rows \/ close_rows(session.tracked, "STALE", "")
  BY DEF SettleEnd, Ended
<1>2. session.tracked \in SUBSET Orders /\ \A o \in session.tracked : rows[o].state = "SUBMITTED"
  BY <1>1, SettlingIs DEF BaseInv, AuditInv, TrackedInv
<1>3. Orders' = Orders
  BY EndingBase DEF SameOrders
<1>4. ASSUME NEW o \in Orders
      PROVE  /\ Lives(rows[o], fills[o], rows'[o], fills'[o])
             /\ RowShape(rows'[o], fills'[o])
  <2> DEFINE r == rows[o]
             s == rows'[o]
             f == fills[o]
             g == fills'[o]
  <2>1. r \in OrderRows /\ RowShape(r, f) /\ g = f
    BY <1>1, OrderAt DEF BaseInv, AuditInv, ShapeInv
  <2>2. \/ s = r
        \/ r.state = "SUBMITTED" /\ s = [r EXCEPT !.state = "STALE", !.note = ""]
    BY <1>1, <1>2 DEF close_rows
  <2> HIDE DEF r, s, f, g
  <2>3. /\ s \in OrderRows /\ s.symbol = r.symbol /\ s.quantity = r.quantity
        /\ s.writer = r.writer /\ s.numbered = r.numbered
        /\ s = r \/ (r.state = "SUBMITTED" /\ s.state = "STALE")
    BY <2>1, <2>2 DEF OrderRows, States, Notes
  <2>4. Lives(r, f, s, g) /\ RowShape(s, g)
    BY <2>1, <2>3, RowLives
  <2> QED  BY <2>4 DEF r, s, f, g
<1> QED  BY <1>1, <1>3, <1>4 DEF Audited, TrackedInv, NoSession

(* The venue call comes back: the called row, an intent, is answered.      *)
LEMMA AuditCall ==
  ASSUME BaseInv, AuditInv, Accepted \/ Raised
  PROVE  Audited /\ TrackedInv'
<1> DEFINE c == Called
           r == rows[c]
           a == [r EXCEPT !.state = "SUBMITTED", !.numbered = TRUE]
           b == [r EXCEPT !.state = "REJECTED", !.note = "venue"]
<1>1. session.phase = "calling" /\ fills' = fills
  BY DEF Accepted, Raised
<1>2. c \in Orders /\ r.state = "INTENT"
  BY <1>1 DEF BaseInv, CallInv
<1>3. rows \in [Orders -> OrderRows] /\ r \in OrderRows /\ RowShape(r, fills[c])
  BY <1>2, OrderAt DEF BaseInv, AuditInv, ShapeInv
<1>4. RunningType(session) /\ session.tracked \in SUBSET Orders
  BY <1>1, RunningIs DEF BaseInv, Owning
<1>5. Orders' = Orders
  BY CallBase DEF SameOrders
<1>6. \/ /\ rows' = [rows EXCEPT ![c].state = "SUBMITTED", ![c].numbered = TRUE]
         /\ session' = [session EXCEPT !.phase = "burst", !.tracked = @ \cup {c},
                                        !.submitted = @ + 1]
      \/ /\ rows' = [rows EXCEPT ![c].state = "REJECTED", ![c].note = "venue"]
         /\ session' = [session EXCEPT !.phase = "burst"]
  BY DEF Accepted, Raised
<1> HIDE DEF c
<1>7. \/ /\ rows' = [rows EXCEPT ![c] = a] /\ session'.tracked = session.tracked \cup {c}
      \/ /\ rows' = [rows EXCEPT ![c] = b] /\ session'.tracked = session.tracked
  <2>1. /\ [rows EXCEPT ![c].state = "SUBMITTED", ![c].numbered = TRUE] = [rows EXCEPT ![c] = a]
        /\ [rows EXCEPT ![c].state = "REJECTED", ![c].note = "venue"] = [rows EXCEPT ![c] = b]
    BY <1>2, <1>3
  <2>2. "tracked" \in DOMAIN session
    BY <1>4 DEF RunningType, Processes
  <2>3. CASE rows' = [rows EXCEPT ![c].state = "SUBMITTED", ![c].numbered = TRUE]
             /\ session' = [session EXCEPT !.phase = "burst", !.tracked = @ \cup {c},
                                           !.submitted = @ + 1]
    <3>1. session'.tracked = session.tracked \cup {c}
      BY <1>4, <2>3 DEF RunningType, Processes
    <3> QED  BY <2>1, <2>3, <3>1
  <2>4. CASE rows' = [rows EXCEPT ![c].state = "REJECTED", ![c].note = "venue"]
             /\ session' = [session EXCEPT !.phase = "burst"]
    <3>1. session'.tracked = session.tracked
      BY <1>4, <2>4 DEF RunningType, Processes
    <3> QED  BY <2>1, <2>4, <3>1
  <2> QED  BY <1>6, <2>3, <2>4
<1>8. /\ a \in OrderRows /\ a.symbol = r.symbol /\ a.quantity = r.quantity /\ a.writer = r.writer
      /\ a.state = "SUBMITTED" /\ a.numbered
      /\ b \in OrderRows /\ b.symbol = r.symbol /\ b.quantity = r.quantity /\ b.writer = r.writer
      /\ b.state = "REJECTED" /\ b.numbered = r.numbered
  <2> HIDE DEF r
  <2> QED  BY <1>3 DEF OrderRows, States, Notes
<1> HIDE DEF a, b
<1>9. /\ Lives(r, fills[c], a, fills[c]) /\ RowShape(a, fills[c])
      /\ Lives(r, fills[c], b, fills[c]) /\ RowShape(b, fills[c])
  <2> HIDE DEF r
  <2>1. r.state = "INTENT" /\ r \in OrderRows /\ RowShape(r, fills[c])
    BY <1>2, <1>3
  <2>2. Lives(r, fills[c], a, fills[c]) /\ RowShape(a, fills[c])
    BY <1>8, <2>1, RowLives
  <2>3. Lives(r, fills[c], b, fills[c]) /\ RowShape(b, fills[c])
    BY <1>8, <2>1, RowLives
  <2> QED  BY <2>2, <2>3
<1>10. /\ \/ rows'[c] = a /\ session'.tracked = session.tracked \cup {c}
          \/ rows'[c] = b /\ session'.tracked = session.tracked
       /\ \A o \in Orders : o # c => rows'[o] = rows[o]
  <2> HIDE DEF r
  <2> QED  BY <1>2, <1>3, <1>7
<1>11. ASSUME NEW o \in Orders
       PROVE  /\ Lives(rows[o], fills[o], rows'[o], fills'[o])
              /\ RowShape(rows'[o], fills'[o])
  <2>1. CASE o = c
    BY <1>1, <1>9, <1>10, <2>1 DEF r
  <2>2. CASE o # c
    <3>1. rows'[o] = rows[o] /\ fills'[o] = fills[o] /\ RowShape(rows[o], fills[o])
      BY <1>1, <1>10, <2>2 DEF AuditInv, ShapeInv
    <3> QED  BY <3>1 DEF Lives
  <2> QED  BY <2>1, <2>2
<1>12. \A o \in session.tracked : rows[o].state = "SUBMITTED" /\ o \in Orders /\ o # c
  BY <1>1, <1>2, <1>4 DEF AuditInv, TrackedInv, r
<1>13. TrackedInv'
  BY <1>8, <1>10, <1>12 DEF TrackedInv
<1> QED  BY <1>5, <1>11, <1>13 DEF Audited

(* A row is added, an intent or a refusal, without a number or fills.      *)
LEMMA AuditSubmit ==
  ASSUME BaseInv, AuditInv, NEW symbol \in Symbols, NEW asked \in Asked, Submit(symbol, asked)
  PROVE  /\ AuditInv' /\ Orders \subseteq Orders'
         /\ \A o \in Orders : Lives(rows[o], fills[o], rows'[o], fills'[o])
<1>1. /\ RunningType(session) /\ session.phase = "burst"
      /\ Called' \in Orders' /\ Orders' \ {Called'} = Orders /\ fills'[Called'] = <<>>
      /\ \A o \in Orders : rows'[o] = rows[o] /\ fills'[o] = fills[o]
  BY SubmitBase
<1> DEFINE q == clamp_quantity(symbol, asked)
           m == Len(rows) + 1
<1>2. /\ \E st \in {"REJECTED", "INTENT"} : \E n \in Notes : AddRow(symbol, q, st, n)
      /\ \/ session' = NoSession
         \/ session' = [session EXCEPT !.sent = @ \cup {m}]
         \/ session' = [session EXCEPT !.phase = "calling", !.sent = @ \cup {m}]
  <2>1. /\ "REJECTED" \in {"REJECTED", "INTENT"} /\ "INTENT" \in {"REJECTED", "INTENT"}
        /\ "kill switch" \in Notes /\ "limit" \in Notes /\ "" \in Notes
    BY DEF Notes
  <2> QED  BY <2>1, Zenon DEF Submit, Ended
<1>3. PICK st \in {"REJECTED", "INTENT"}, n \in Notes : AddRow(symbol, q, st, n)
  BY <1>2
<1>4. rows' = Append(rows, NewRow(symbol, q, st, n))
  BY <1>3 DEF AddRow
<1>5. Called' = m /\ rows'[m] = NewRow(symbol, q, st, n)
  <2> DEFINE r == NewRow(symbol, q, st, n)
  <2>1. Len(rows) \in Nat /\ rows \in Seq(OrderRows \cup {r}) /\ r \in OrderRows \cup {r}
    <3>1. rows \in Seq(OrderRows)
      BY DEF BaseInv, LedgerType
    <3> HIDE DEF r
    <3> QED  BY <3>1, LenProperties
  <2> HIDE DEF r
  <2>2. Len(Append(rows, r)) = Len(rows) + 1 /\ Append(rows, r)[Len(rows) + 1] = r
    BY <2>1, AppendProperties
  <2> QED  BY <1>4, <2>2 DEF Called, r
<1> HIDE DEF q, m
<1>6. rows'[Called'].numbered = FALSE /\ rows'[Called'].state = st
  BY <1>5 DEF NewRow
<1>7. ShapeInv'
  <2> SUFFICES ASSUME NEW o \in Orders' PROVE RowShape(rows'[o], fills'[o])
    BY DEF ShapeInv
  <2>1. CASE o = Called'
    BY <1>1, <1>6, <2>1 DEF RowShape
  <2>2. CASE o # Called'
    <3>1. o \in Orders
      BY <1>1, <2>2
    <3> QED  BY <1>1, <3>1 DEF AuditInv, ShapeInv
  <2> QED  BY <2>1, <2>2
<1>8. TrackedInv'
  <2>1. \A o \in session.tracked : o \in Orders /\ rows[o].state = "SUBMITTED"
    BY <1>1, RunningIs DEF BaseInv, AuditInv, TrackedInv, Owning
  <2>2. session' = NoSession \/ session'.tracked = session.tracked
    BY <1>1, <1>2 DEF RunningType, Processes
  <2> QED  BY <1>1, <2>1, <2>2 DEF TrackedInv, NoSession
<1>9. \A o \in Orders : Lives(rows[o], fills[o], rows'[o], fills'[o])
  BY <1>1 DEF Lives
<1> QED  BY <1>1, <1>7, <1>8, <1>9 DEF AuditInv

(* The steps that leave the ledger alone.                                  *)
LEMMA AuditIdle ==
  ASSUME BaseInv, AuditInv, UNCHANGED <<rows, fills>>,
         \/ session' = NoSession \/ session' = [phase |-> "promoted"]
         \/ session'.phase = "recover"
         \/ /\ session.phase \in {"compare", "update", "burst", "calling", "settle"}
            /\ session'.tracked = session.tracked
         \/ session' = session
  PROVE  Audited /\ TrackedInv'
<1>1. Audited
  BY DEF Audited, AuditInv, ShapeInv, Lives, Orders
<1>2. TrackedInv'
  BY DEF AuditInv, TrackedInv, NoSession
<1> QED  BY <1>1, <1>2

(* One step of anything.                                                   *)
LEMMA AuditStep ==
  ASSUME BaseInv, MemoryInv, AuditInv, [Next]_vars
  PROVE  /\ AuditInv' /\ Orders \subseteq Orders'
         /\ \A o \in Orders : Lives(rows[o], fills[o], rows'[o], fills'[o])
<1>1. ASSUME Audited /\ TrackedInv'
      PROVE  /\ AuditInv' /\ Orders \subseteq Orders'
             /\ \A o \in Orders : Lives(rows[o], fills[o], rows'[o], fills'[o])
  BY <1>1 DEF Audited, AuditInv, ShapeInv
<1>2. CASE Recover
  BY <1>1, <1>2, AuditRecover
<1>3. CASE Update \/ SettleRound
  BY <1>1, <1>3, UpdateIs, SettleIs, AuditPoll
<1>4. CASE SettleEnd
  BY <1>1, <1>4, AuditSettleEnd
<1>5. CASE Accepted \/ Raised
  BY <1>1, <1>5, AuditCall
<1>6. CASE \E who \in Deployments, aim \in {"rebalance", "end_of_day"} : Launch(who, aim)
  <2>1. UNCHANGED <<rows, fills>> /\ session'.phase = "recover"
    BY <1>6 DEF Launch, NewSession
  <2> QED  BY <1>1, <2>1, AuditIdle
<1>7. CASE Compare
  <2>1. /\ session.phase = "compare" /\ UNCHANGED <<rows, fills>>
        /\ session' = NoSession \/ session'.tracked = session.tracked
    BY <1>7, CompareBase DEF Compare
  <2> QED  BY <1>1, <2>1, AuditIdle
<1>8. CASE EndBurst
  <2>1. session.phase = "burst" /\ UNCHANGED <<rows, fills>> /\ session'.tracked = session.tracked
    BY <1>8 DEF EndBurst, Settling, ledgerVars
  <2> QED  BY <1>1, <2>1, AuditIdle
<1>9. CASE Crash \/ Promote
  <2>1. /\ UNCHANGED <<rows, fills>>
        /\ session' = NoSession \/ session' = [phase |-> "promoted"]
    BY <1>9 DEF Crash, Promote, Ended, ledgerVars
  <2> QED  BY <1>1, <2>1, AuditIdle
<1>10. CASE NewDay \/ ThrowSwitch \/ (UNCHANGED vars) \/ (\E o \in Orders : Fill(o) \/ Drop(o))
            \/ (\E s \in Symbols : TradeByHand(s))
  <2>1. UNCHANGED <<rows, fills, session>>
    BY <1>10, OutsideBase
  <2> QED  BY <1>1, <2>1, AuditIdle
<1> QED
  BY <1>2, <1>3, <1>4, <1>5, <1>6, <1>7, <1>8, <1>9, <1>10, AuditSubmit, Zenon DEF Next

(* Rows keep their shape, and what a process tracks stays open.            *)
LEMMA AuditInvariant == Spec => []AuditInv
<1>1. Init => AuditInv
  <2>1. Init => ShapeInv
    BY OldIs DEF ShapeInv
  <2>2. Init => TrackedInv
    BY DEF Init, TrackedInv, NoSession
  <2> QED  BY <2>1, <2>2 DEF AuditInv
<1>2. BaseInv /\ MemoryInv /\ AuditInv /\ [Next]_vars => AuditInv'
  BY AuditStep
<1> QED  BY <1>1, <1>2, BaseInvariant, PTL DEF Spec

(* For any venue, crashes, launches and reports the ledger is an audit     *)
(* trail: rows are added and closed, never rewritten, and recovery cannot  *)
(* tell an open row from a closed one wrongly, since a number, an          *)
(* acknowledgement and a fill go together (AuditInv).                      *)
THEOREM LedgerIsAnAuditTrail == Spec => RowsOnlyLive
<1>1. BaseInv /\ MemoryInv /\ AuditInv /\ [Next]_vars =>
        [/\ Orders \subseteq Orders'
         /\ \A o \in Orders : Lives(rows[o], fills[o], rows'[o], fills'[o])]_vars
  BY AuditStep
<1> QED  BY <1>1, AuditInvariant, BaseInvariant, PTL DEF Spec, RowsOnlyLive
==============================================================================
