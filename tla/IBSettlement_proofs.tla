------------------------ MODULE IBSettlement_proofs ------------------------
(***************************************************************************)
(* Theorems about Treasury and IBSettlement, for any number of requests,   *)
(* obligations, adjustments and members of staff.                          *)
(*                                                                         *)
(* Every action of the two modules does to a request row one of the things *)
(* Moves lists; the invariants are proved from Moves, and only what links  *)
(* IB rows to their requests looks at single actions again.                *)
(***************************************************************************)
EXTENDS IBSettlement, SumLemmas, TLAPS

To(r, status) == req'[r] = [req[r] EXCEPT !.status = status]

(* The row of a new request.                                                *)
NewRequest(s, debit, amount, ref) ==
    [NoRequest EXCEPT !.status = "pending", !.debit = debit, !.amount = amount,
                      !.reference = ref, !.requested_by = s]

(* One step in the life of a request.                                       *)
Created(r) ==
    /\ Status(r) = "none" /\ tx'[r] = tx[r]
    /\ \E s \in Submitters, debit \in BOOLEAN, amount \in Amounts \cup {0}, ref \in References :
          req'[r] = NewRequest(s, debit, amount, ref)
Approved(r) ==
    /\ Status(r) = "pending" /\ tx'[r] = tx[r]
    /\ \E s \in Reviewers \ {req[r].requested_by} :
          req'[r] = [req[r] EXCEPT !.status = "approved", !.approved_by = s]
Refused(r) ==
    /\ Status(r) = "pending" /\ tx'[r] = tx[r]
    /\ To(r, "rejected") \/ To(r, "cancelled")
Started(r) ==
    /\ Status(r) = "approved" /\ tx'[r] = tx[r]
    /\ \E s \in Executors \ {req[r].requested_by, req[r].approved_by} :
          req'[r] = [req[r] EXCEPT !.status = "executing", !.executed_by = s]
Executed(r) ==
    /\ Status(r) = "executing" /\ tx[r] = 0 /\ tx'[r] = 1
    /\ To(r, "executed")
Failed(r) ==
    /\ Status(r) = "executing" /\ tx'[r] = tx[r]
    /\ To(r, "failed")

Advances(r) == Approved(r) \/ Refused(r) \/ Started(r) \/ Executed(r) \/ Failed(r)

Same(r) == req'[r] = req[r] /\ tx'[r] = tx[r]

(* Who may have done what, from the status of the row alone.                *)
Roles ==
    \A r \in Reqs :
        /\ Status(r) # "none" => req[r].requested_by \in Submitters
        /\ Status(r) \in {"approved", "executing", "executed", "failed"} =>
               req[r].approved_by \in Reviewers \ {req[r].requested_by}
        /\ Status(r) \in {"executing", "executed", "failed"} =>
               req[r].executed_by \in Executors \ {req[r].requested_by, req[r].approved_by}

(* An IB row reads CREDITED or EXECUTED only from an executed request.      *)
Settled ==
    /\ \A o \in Obligations : oblig[o].status = "credited" =>
           oblig[o].op \in Reqs /\ Status(oblig[o].op) = "executed"
    /\ \A a \in Adjustments : adj[a].status = "executed" =>
           adj[a].op \in Reqs /\ Status(adj[a].op) = "executed"
    /\ \A a \in Adjustments : adj[a].status = "none" => adj[a].op = NoOp

IInv == TypeOK /\ MovesMoneyOnce /\ Roles /\ OneRequestPerRow /\ Settled

-----------------------------------------------------------------------------
(* Treasury's own actions.                                                  *)

(* The type of a row, and what an update of some of its columns leaves.     *)
Row == [status : RequestStatus, debit : BOOLEAN, amount : Amounts \cup {0},
        reference : References, requested_by : Staff \cup {NoOne},
        approved_by : Staff \cup {NoOne}, executed_by : Staff \cup {NoOne}]

LEMMA RowUpdated ==
    ASSUME NEW row \in Row, NEW st \in RequestStatus
    PROVE  /\ [row EXCEPT !.status = st] \in Row
           /\ \A s \in Staff : [row EXCEPT !.status = st, !.approved_by = s] \in Row
           /\ \A s \in Staff : [row EXCEPT !.status = st, !.executed_by = s] \in Row
  BY DEF Row

LEMMA RowsUpdated ==
    ASSUME req \in [Reqs -> Row], NEW r \in Reqs, NEW row \in Row,
           req' = [req EXCEPT ![r] = row]
    PROVE  /\ req' \in [Reqs -> Row]
           /\ req'[r] = row
           /\ \A q \in Reqs \ {r} : req'[q] = req[q]
  OBVIOUS

LEMMA TreasuryStep ==
    ASSUME TypeOK, TreasuryNext, UNCHANGED ibVars
    PROVE  TypeOK' /\ \A q \in Reqs : Same(q) \/ Advances(q)
<1>. USE DEF Status
<1>t. /\ req \in [Reqs -> Row]
      /\ {"approved", "rejected", "cancelled", "executing", "executed", "failed"} \subseteq RequestStatus
      /\ Reviewers \subseteq Staff /\ Executors \subseteq Staff
  BY TreasuryAssumption DEF TypeOK, TreasuryTypeOK, Row, RequestStatus
<1>v. /\ tx \in [Reqs -> Nat] /\ balance \in Nat
      /\ started \in [Reqs -> BOOLEAN] /\ aged \in [Reqs -> BOOLEAN]
      /\ exec \in [Reqs -> {"idle", "auditing", "moving", "failing"}]
      /\ recovery \in [Reqs -> Staff \cup {NoOne}]
  BY DEF TypeOK, TreasuryTypeOK
<1>u. ASSUME req' \in [Reqs -> Row],
             tx' \in [Reqs -> Nat], balance' \in Nat,
             started' \in [Reqs -> BOOLEAN], aged' \in [Reqs -> BOOLEAN],
             exec' \in [Reqs -> {"idle", "auditing", "moving", "failing"}],
             recovery' \in [Reqs -> Staff \cup {NoOne}]
      PROVE  TypeOK'
  BY <1>u DEF TypeOK, TreasuryTypeOK, Row, ibVars
<1>0. PICK r \in Reqs :
        \/ \E s \in Staff : Approve(r, s) \/ Reject(r, s) \/ Cancel(r, s)
                            \/ StartExecution(r, s) \/ RecoverInspect(r, s)
        \/ RecordStarted(r) \/ MoveMoney(r) \/ StepBRaises(r) \/ MarkFailed(r) \/ Crash(r)
        \/ GrowOld(r) \/ RecoverApply(r) \/ RecoverBlocked(r)
  BY DEF TreasuryNext
<1>1. CASE \E s \in Staff : Approve(r, s)
  <2>1. PICK s \in Staff : Approve(r, s)
    BY <1>1
  <2>2. req' = [req EXCEPT ![r] = [req[r] EXCEPT !.status = "approved", !.approved_by = s]]
    BY <2>1, <1>t DEF Approve
  <2>3. TypeOK'
    BY <2>1, <2>2, <1>t, <1>v, <1>u, RowUpdated, RowsUpdated DEF Approve
  <2>4. \A q \in Reqs : Same(q) \/ Approved(q)
    <3>1. s \in Reviewers \ {req[r].requested_by} /\ Status(r) = "pending"
      BY <2>1 DEF Approve
    <3>2. tx' = tx /\ req'[r] = [req[r] EXCEPT !.status = "approved", !.approved_by = s]
      BY <2>1, <2>2, <1>t, RowUpdated, RowsUpdated DEF Approve
    <3>3. Approved(r)
      BY <3>1, <3>2 DEF Approved
    <3>. QED BY <2>2, <3>2, <3>3, <1>t DEF Same
  <2>. QED BY <2>3, <2>4 DEF Advances
<1>2. CASE \E s \in Staff : Reject(r, s) \/ Cancel(r, s)
  <2>1. PICK s \in Staff : Reject(r, s) \/ Cancel(r, s)
    BY <1>2
  <2>2. PICK st \in {"rejected", "cancelled"} : req' = [req EXCEPT ![r] = [req[r] EXCEPT !.status = st]]
    BY <2>1, <1>t DEF Reject, Cancel
  <2>3. TypeOK'
    BY <2>1, <2>2, <1>t, <1>v, <1>u, RowUpdated, RowsUpdated DEF Reject, Cancel
  <2>4. \A q \in Reqs : Same(q) \/ Refused(q)
    BY <2>1, <2>2, <1>t, RowUpdated, RowsUpdated DEF Reject, Cancel, Same, Refused, To
  <2>. QED BY <2>3, <2>4 DEF Advances
<1>3. CASE \E s \in Staff : StartExecution(r, s)
  <2>1. PICK s \in Staff : StartExecution(r, s)
    BY <1>3
  <2>2. req' = [req EXCEPT ![r] = [req[r] EXCEPT !.status = "executing", !.executed_by = s]]
    BY <2>1, <1>t DEF StartExecution
  <2>3. TypeOK'
    BY <2>1, <2>2, <1>t, <1>v, <1>u, RowUpdated, RowsUpdated DEF StartExecution
  <2>4. \A q \in Reqs : Same(q) \/ Started(q)
    <3>1. s \in Executors \ {req[r].requested_by, req[r].approved_by} /\ Status(r) = "approved"
      BY <2>1 DEF StartExecution
    <3>2. tx' = tx /\ req'[r] = [req[r] EXCEPT !.status = "executing", !.executed_by = s]
      BY <2>1, <2>2, <1>t, RowUpdated, RowsUpdated DEF StartExecution
    <3>3. Started(r)
      BY <3>1, <3>2 DEF Started
    <3>. QED BY <2>2, <3>2, <3>3, <1>t DEF Same
  <2>. QED BY <2>3, <2>4 DEF Advances
<1>4. CASE MoveMoney(r)
  <2>1. req' = [req EXCEPT ![r] = [req[r] EXCEPT !.status = "executed"]]
    BY <1>4, <1>t DEF MoveMoney
  <2>2. req[r].amount \in Nat
    <3>1. req[r].amount \in Amounts \cup {0}
      BY <1>t DEF Row
    <3>2. Amounts \cup {0} \subseteq Nat
      BY TreasuryAssumption DEF TreasuryAssumption
    <3>. QED BY <3>1, <3>2
  <2>3. balance' \in Nat
    <3>1. balance' = NewBalance(r) /\ CanPay(r)
      BY <1>4 DEF MoveMoney
    <3>2. CASE req[r].debit
      BY <3>1, <3>2, <2>2, <1>v DEF CanPay, NewBalance
    <3>3. CASE ~req[r].debit
      BY <3>1, <3>3, <2>2, <1>v DEF NewBalance
    <3>. QED BY <3>2, <3>3
  <2>4. TypeOK'
    <3>1. req' \in [Reqs -> Row]
      BY <2>1, <1>t, RowUpdated, RowsUpdated
    <3>2. /\ tx' \in [Reqs -> Nat]
          /\ exec' \in [Reqs -> {"idle", "auditing", "moving", "failing"}]
          /\ UNCHANGED <<started, aged, recovery>>
      BY <1>4, <1>v DEF MoveMoney
    <3>. QED BY <3>1, <3>2, <2>3, <1>v, <1>u
  <2>5. tx' = [tx EXCEPT ![r] = 1] /\ Status(r) = "executing" /\ tx[r] = 0
    BY <1>4, <1>v DEF MoveMoney
  <2>6. \A q \in Reqs : Same(q) \/ Executed(q)
    BY <2>1, <2>5, <1>t, <1>v, RowUpdated, RowsUpdated DEF Same, Executed, To
  <2>. QED BY <2>4, <2>6 DEF Advances
<1>5. CASE MarkFailed(r)
  <2>1. CASE Status(r) = "executing" /\ tx[r] = 0
    <3>1. req' = [req EXCEPT ![r] = [req[r] EXCEPT !.status = "failed"]]
      BY <1>5, <2>1, <1>t DEF MarkFailed
    <3>2. TypeOK'
      <4>1. req' \in [Reqs -> Row]
        BY <3>1, <1>t, RowUpdated, RowsUpdated
      <4>2. /\ exec' \in [Reqs -> {"idle", "auditing", "moving", "failing"}]
            /\ UNCHANGED <<tx, balance, started, aged, recovery>>
        BY <1>5, <1>v DEF MarkFailed
      <4>. QED BY <4>1, <4>2, <1>v, <1>u
    <3>3. \A q \in Reqs : Same(q) \/ Failed(q)
      BY <1>5, <2>1, <3>1, <1>t, RowUpdated, RowsUpdated DEF MarkFailed, Same, Failed, To
    <3>. QED BY <3>2, <3>3 DEF Advances
  <2>2. CASE ~(Status(r) = "executing" /\ tx[r] = 0)
    <3>1. req' = req
      BY <1>5, <2>2, <1>t DEF MarkFailed, Row
    <3>. QED BY <1>5, <3>1, <1>t, <1>v, <1>u DEF MarkFailed, Same
  <2>. QED BY <2>1, <2>2
<1>6. CASE RecoverApply(r)
  <2>1. req' = [req EXCEPT ![r] = [req[r] EXCEPT !.status = "failed"]]
    BY <1>6, <1>t DEF RecoverApply
  <2>2. TypeOK'
    BY <1>6, <2>1, <1>t, <1>v, <1>u, RowUpdated, RowsUpdated DEF RecoverApply
  <2>3. \A q \in Reqs : Same(q) \/ Failed(q)
    BY <1>6, <2>1, <1>t, RowUpdated, RowsUpdated DEF RecoverApply, Eligible, Same, Failed, To
  <2>. QED BY <2>2, <2>3 DEF Advances
<1>7. CASE \E s \in Staff : RecoverInspect(r, s)
  BY <1>7, <1>t, <1>v, <1>u DEF RecoverInspect, Same
<1>8. CASE RecordStarted(r)
  BY <1>8, <1>t, <1>v, <1>u DEF RecordStarted, Same
<1>9. CASE StepBRaises(r) \/ Crash(r) \/ GrowOld(r) \/ RecoverBlocked(r)
  BY <1>9, <1>t, <1>v, <1>u
     DEF StepBRaises, Crash, GrowOld, RecoverBlocked, Same
<1>. QED
  BY <1>0, <1>1, <1>2, <1>3, <1>4, <1>5, <1>6, <1>7, <1>8, <1>9

(* A request is created in the first free row, and nowhere else.            *)
LEMMA Creation ==
    ASSUME TypeOK, NEW r \in Reqs, NEW s \in Staff, NEW debit \in BOOLEAN,
           NEW amount \in Amounts \cup {0}, NEW ref \in References,
           CreateRequest(r, s, debit, amount, ref)
    PROVE  /\ TreasuryTypeOK'
           /\ Created(r)
           /\ req'[r] = NewRequest(s, debit, amount, ref)
           /\ \A q \in Reqs \ {r} : Same(q)
<1>. USE TreasuryAssumption DEF TypeOK, TreasuryTypeOK, RequestStatus, CreateRequest, IsNextKey
<1>1. TreasuryTypeOK'
  BY DEF NoRequest
<1>2. req'[r] = NewRequest(s, debit, amount, ref)
  BY DEF NewRequest
<1>3. Created(r)
  BY <1>2 DEF Created
<1>4. \A q \in Reqs \ {r} : Same(q)
  BY DEF Same
<1>. QED BY <1>1, <1>2, <1>3, <1>4

-----------------------------------------------------------------------------
(* The steps of both modules: types, and what becomes of a request.         *)

LinksNew ==
    \/ \E o \in Obligations, r \in Reqs, s \in Staff : LinkTreasuryRequest(o, r, s)
    \/ \E a \in Adjustments, r \in Reqs, s \in Staff : LinkAdjustment(a, r, s)
    \/ \E r \in Reqs, s \in Staff, debit \in BOOLEAN, amount \in Amounts :
           ManualRequest(r, s, debit, amount)

(* Actions that leave the requests alone.                                   *)
RowsOnly ==
    \/ Freeze \/ Unfreeze
    \/ \E o \in Obligations :
           \/ Hold(o) \/ Release(o) \/ ApproveObligation(o) \/ SyncObligation(o)
           \/ \E a \in Adjustments, amount \in Amounts : SubmitAdjustment(a, o, amount)
    \/ \E a \in Adjustments :
           ApproveAdjustment(a) \/ RejectAdjustment(a) \/ SyncAdjustment(a)

LEMMA NextSplit ==
    ASSUME Next
    PROVE  LinksNew \/ RowsOnly \/ (TreasuryNext /\ UNCHANGED ibVars)
  BY DEF Next, LinksNew, RowsOnly

ObligationType == [Obligations -> [status : {"pending", "approved", "credited"},
                                   is_held : BOOLEAN, op : Reqs \cup {NoOp}]]
AdjustmentType == [Adjustments -> [status : {"none", "pending", "approved", "rejected", "executed"},
                                   obligation : Obligations \cup {0}, amount : Amounts \cup {0},
                                   op : Reqs \cup {NoOp}]]

LEMMA TypeParts ==
    /\ TypeOK => TreasuryTypeOK /\ frozen \in BOOLEAN /\ oblig \in ObligationType
                 /\ adj \in AdjustmentType
    /\ (TreasuryTypeOK' /\ frozen' \in BOOLEAN /\ oblig' \in ObligationType
          /\ adj' \in AdjustmentType) => TypeOK'
  BY DEF TypeOK, ObligationType, AdjustmentType

LEMMA RowsOnlyStep ==
    ASSUME TypeOK, RowsOnly
    PROVE  TypeOK' /\ UNCHANGED treasuryVars
<1>t. frozen \in BOOLEAN /\ oblig \in ObligationType /\ adj \in AdjustmentType
  BY TypeParts
<1>1. UNCHANGED treasuryVars
  BY DEF RowsOnly, Freeze, Unfreeze, Hold, Release, ApproveObligation, SyncObligation,
         SubmitAdjustment, ApproveAdjustment, RejectAdjustment, SyncAdjustment
<1>2. TreasuryTypeOK'
  BY <1>1 DEF TypeOK, TreasuryTypeOK, treasuryVars
<1>3. frozen' \in BOOLEAN
  BY <1>t DEF RowsOnly, Freeze, Unfreeze, Hold, Release, ApproveObligation, SyncObligation,
         SubmitAdjustment, ApproveAdjustment, RejectAdjustment, SyncAdjustment
<1>4. oblig' \in ObligationType
  <2>1. CASE Freeze \/ Unfreeze
    BY <2>1, <1>t DEF Freeze, Unfreeze
  <2>2. ASSUME NEW o \in Obligations, Hold(o) \/ Release(o) PROVE oblig' \in ObligationType
    <3>1. PICK h \in BOOLEAN : oblig' = [oblig EXCEPT ![o].is_held = h]
      BY <2>2 DEF Hold, Release
    <3>. QED BY <3>1, <1>t DEF ObligationType
  <2>3. ASSUME NEW o \in Obligations, ApproveObligation(o) \/ SyncObligation(o)
        PROVE  oblig' \in ObligationType
    <3>1. PICK st \in {"approved", "credited"} : oblig' = [oblig EXCEPT ![o].status = st]
      BY <2>3 DEF ApproveObligation, SyncObligation
    <3>. QED BY <3>1, <1>t DEF ObligationType
  <2>4. ASSUME NEW o \in Obligations, NEW a \in Adjustments, NEW amount \in Amounts,
               SubmitAdjustment(a, o, amount)
        PROVE  oblig' \in ObligationType
    BY <2>4, <1>t DEF SubmitAdjustment
  <2>5. ASSUME NEW a \in Adjustments,
               ApproveAdjustment(a) \/ RejectAdjustment(a) \/ SyncAdjustment(a)
        PROVE  oblig' \in ObligationType
    BY <2>5, <1>t DEF ApproveAdjustment, RejectAdjustment, SyncAdjustment
  <2>. QED BY <2>1, <2>2, <2>3, <2>4, <2>5 DEF RowsOnly
<1>5. adj' \in AdjustmentType
  <2>1. CASE Freeze \/ Unfreeze
    BY <2>1, <1>t DEF Freeze, Unfreeze
  <2>2. ASSUME NEW o \in Obligations, Hold(o) \/ Release(o) \/ ApproveObligation(o)
               \/ SyncObligation(o)
        PROVE  adj' \in AdjustmentType
    BY <2>2, <1>t DEF Hold, Release, ApproveObligation, SyncObligation
  <2>4. ASSUME NEW o \in Obligations, NEW a \in Adjustments, NEW amount \in Amounts,
               SubmitAdjustment(a, o, amount)
        PROVE  adj' \in AdjustmentType
    BY <2>4, <1>t DEF SubmitAdjustment, AdjustmentType
  <2>5. ASSUME NEW a \in Adjustments, ApproveAdjustment(a) \/ RejectAdjustment(a)
        PROVE  adj' \in AdjustmentType
    BY <2>5, <1>t DEF ApproveAdjustment, RejectAdjustment, AdjustmentType
  <2>6. ASSUME NEW a \in Adjustments, SyncAdjustment(a)
        PROVE  adj' \in AdjustmentType
    BY <2>6, <1>t DEF SyncAdjustment, AdjustmentType
  <2>. QED BY <2>1, <2>2, <2>4, <2>5, <2>6 DEF RowsOnly
<1>. QED BY <1>1, <1>2, <1>3, <1>4, <1>5, TypeParts

(* The columns of a request as it is created.                               *)
LEMMA NewRow ==
    ASSUME NEW s, NEW debit, NEW amount, NEW ref
    PROVE  /\ NewRequest(s, debit, amount, ref).status = "pending"
           /\ NewRequest(s, debit, amount, ref).requested_by = s
           /\ NewRequest(s, debit, amount, ref).debit = debit
           /\ NewRequest(s, debit, amount, ref).amount = amount
           /\ NewRequest(s, debit, amount, ref).reference = ref
  BY DEF NewRequest, NoRequest

(* A link: one request more, about a row that had none before.              *)
LinkedObligation(o, r) ==
    /\ oblig[o].op = NoOp /\ oblig[o].status = "approved"
    /\ oblig' = [oblig EXCEPT ![o].op = r]
    /\ req'[r].reference = About("obligation", o)
    /\ req'[r].amount = Calculated[o] /\ req'[r].debit = FALSE
    /\ UNCHANGED <<frozen, adj>>
LinkedAdjustment(a, r) ==
    /\ adj[a].op = NoOp /\ adj[a].status = "approved"
    /\ adj' = [adj EXCEPT ![a].op = r]
    /\ req'[r].reference = About("adjustment", a)
    /\ req'[r].amount = adj[a].amount /\ req'[r].debit = TRUE
    /\ UNCHANGED <<frozen, oblig>>
ByHand(r) == req'[r].reference = Manual /\ UNCHANGED ibVars

LEMMA LinksNewStep ==
    ASSUME TypeOK, LinksNew
    PROVE  /\ TypeOK'
           /\ \E r \in Reqs :
                 /\ Created(r)
                 /\ \A q \in Reqs \ {r} : Same(q)
                 /\ \/ \E o \in Obligations : LinkedObligation(o, r)
                    \/ \E a \in Adjustments : LinkedAdjustment(a, r)
                    \/ ByHand(r)
<1>. DEFINE Goal == /\ TypeOK'
                    /\ \E r \in Reqs :
                          /\ Created(r)
                          /\ \A q \in Reqs \ {r} : Same(q)
                          /\ \/ \E o \in Obligations : LinkedObligation(o, r)
                             \/ \E a \in Adjustments : LinkedAdjustment(a, r)
                             \/ ByHand(r)
<1>t. frozen \in BOOLEAN /\ oblig \in ObligationType /\ adj \in AdjustmentType
  BY TypeParts
<1>1. ASSUME NEW o \in Obligations, NEW r \in Reqs, NEW s \in Staff, LinkTreasuryRequest(o, r, s)
      PROVE  Goal
  <2>1. /\ CreateRequest(r, s, FALSE, Calculated[o], About("obligation", o))
        /\ oblig[o].op = NoOp /\ oblig[o].status = "approved"
        /\ oblig' = [oblig EXCEPT ![o].op = r] /\ UNCHANGED <<frozen, adj>>
    BY <1>1 DEF LinkTreasuryRequest
  <2>2. Calculated[o] \in Amounts \cup {0} /\ About("obligation", o) \in References
    BY SettlementAssumption DEF SettlementAssumption
  <2>3. /\ TreasuryTypeOK' /\ Created(r)
        /\ req'[r] = NewRequest(s, FALSE, Calculated[o], About("obligation", o))
        /\ \A q \in Reqs \ {r} : Same(q)
    <3>1. \A debit \in BOOLEAN :
             CreateRequest(r, s, debit, Calculated[o], About("obligation", o)) =>
                /\ TreasuryTypeOK' /\ Created(r)
                /\ req'[r] = NewRequest(s, debit, Calculated[o], About("obligation", o))
                /\ \A q \in Reqs \ {r} : Same(q)
      BY <2>2, Creation
    <3>2. FALSE \in BOOLEAN
      OBVIOUS
    <3>. QED BY <3>1, <3>2, <2>1, Zenon
  <2>4. LinkedObligation(o, r)
    <3>1. req'[r] = NewRequest(s, FALSE, Calculated[o], About("obligation", o))
      BY <2>3
    <3>2. req'[r].reference = About("obligation", o) /\ req'[r].amount = Calculated[o]
      BY <3>1 DEF NewRequest, NoRequest
    <3>3. req'[r].debit = FALSE
      BY <3>1 DEF NewRequest, NoRequest
    <3>. QED BY <2>1, <3>2, <3>3 DEF LinkedObligation
  <2>5. oblig' \in ObligationType
    BY <2>1, <1>t DEF ObligationType
  <2>. QED BY <2>1, <2>3, <2>4, <2>5, <1>t, TypeParts
<1>2. ASSUME NEW a \in Adjustments, NEW r \in Reqs, NEW s \in Staff, LinkAdjustment(a, r, s)
      PROVE  Goal
  <2>1. /\ CreateRequest(r, s, TRUE, adj[a].amount, About("adjustment", a))
        /\ adj[a].op = NoOp /\ adj[a].status = "approved"
        /\ adj' = [adj EXCEPT ![a].op = r] /\ UNCHANGED <<frozen, oblig>>
    BY <1>2 DEF LinkAdjustment
  <2>2. adj[a].amount \in Amounts \cup {0} /\ About("adjustment", a) \in References
    BY <1>t, SettlementAssumption DEF SettlementAssumption, AdjustmentType
  <2>3. /\ TreasuryTypeOK' /\ Created(r)
        /\ req'[r] = NewRequest(s, TRUE, adj[a].amount, About("adjustment", a))
        /\ \A q \in Reqs \ {r} : Same(q)
    <3>1. \A debit \in BOOLEAN :
             CreateRequest(r, s, debit, adj[a].amount, About("adjustment", a)) =>
                /\ TreasuryTypeOK' /\ Created(r)
                /\ req'[r] = NewRequest(s, debit, adj[a].amount, About("adjustment", a))
                /\ \A q \in Reqs \ {r} : Same(q)
      BY <2>2, Creation
    <3>2. TRUE \in BOOLEAN
      OBVIOUS
    <3>. QED BY <3>1, <3>2, <2>1, Zenon
  <2>4. LinkedAdjustment(a, r)
    <3>1. req'[r] = NewRequest(s, TRUE, adj[a].amount, About("adjustment", a))
      BY <2>3
    <3>2. req'[r].reference = About("adjustment", a) /\ req'[r].amount = adj[a].amount
      BY <3>1 DEF NewRequest, NoRequest
    <3>3. req'[r].debit = TRUE
      BY <3>1 DEF NewRequest, NoRequest
    <3>. QED BY <2>1, <3>2, <3>3 DEF LinkedAdjustment
  <2>5. adj' \in AdjustmentType
    BY <2>1, <1>t DEF AdjustmentType
  <2>. QED BY <2>1, <2>3, <2>4, <2>5, <1>t, TypeParts
<1>3. ASSUME NEW r \in Reqs, NEW s \in Staff, NEW debit \in BOOLEAN, NEW amount \in Amounts,
             ManualRequest(r, s, debit, amount)
      PROVE  Goal
  <2>1. CreateRequest(r, s, debit, amount, Manual) /\ UNCHANGED ibVars
    BY <1>3 DEF ManualRequest
  <2>2. Manual \in References
    BY TreasuryAssumption DEF TreasuryAssumption
  <2>3. /\ TreasuryTypeOK' /\ Created(r)
        /\ req'[r] = NewRequest(s, debit, amount, Manual)
        /\ \A q \in Reqs \ {r} : Same(q)
    BY <2>1, <2>2, Creation
  <2>4. ByHand(r)
    BY <2>1, <2>3, NewRow DEF ByHand
  <2>. QED BY <2>1, <2>3, <2>4, <1>t, TypeParts DEF ibVars
<1>. QED BY <1>1, <1>2, <1>3 DEF LinksNew

(* So a request is the same as before, is created, or goes one step on.     *)
LEMMA NextStep ==
    ASSUME TypeOK, [Next]_vars
    PROVE  TypeOK' /\ \A q \in Reqs : Same(q) \/ Created(q) \/ Advances(q)
<1>1. CASE LinksNew
  <2>1. PICK r \in Reqs : Created(r) /\ \A q \in Reqs \ {r} : Same(q)
    BY <1>1, LinksNewStep
  <2>. QED BY <2>1, <1>1, LinksNewStep
<1>2. CASE RowsOnly
  BY <1>2, RowsOnlyStep DEF treasuryVars, Same
<1>3. CASE TreasuryNext /\ UNCHANGED ibVars
  BY <1>3, TreasuryStep
<1>4. CASE UNCHANGED vars
  <2>1. TypeOK'
    BY <1>4 DEF vars, treasuryVars, ibVars, TypeOK, TreasuryTypeOK
  <2>. QED BY <1>4, <2>1 DEF vars, treasuryVars, Same
<1>. QED BY <1>1, <1>2, <1>3, <1>4, NextSplit

-----------------------------------------------------------------------------
(* The invariant.                                                           *)

LEMMA InvInit == Init => IInv
<1>. SUFFICES ASSUME Init PROVE IInv
  OBVIOUS
<1>1. \A r \in Reqs : Status(r) = "none" /\ tx[r] = 0
  BY DEF Init, TreasuryInit, NoRequest, Status
<1>2. TypeOK
  <2>1. TreasuryTypeOK
    BY TreasuryAssumption DEF Init, TreasuryInit, TreasuryTypeOK, NoRequest, RequestStatus
  <2>2. oblig \in ObligationType /\ adj \in AdjustmentType /\ frozen \in BOOLEAN
    BY DEF Init, ObligationType, AdjustmentType, NoAdjustment
  <2>. QED BY <2>1, <2>2 DEF TypeOK, ObligationType, AdjustmentType
<1>3. MovesMoneyOnce /\ Roles /\ OneRequestPerRow
  BY <1>1 DEF MovesMoneyOnce, Roles, OneRequestPerRow
<1>4. Settled
  BY DEF Init, NoAdjustment, Settled
<1>. QED BY <1>2, <1>3, <1>4 DEF IInv

LEMMA MoneyStep ==
    ASSUME TypeOK, MovesMoneyOnce,
           \A q \in Reqs : Same(q) \/ Created(q) \/ Advances(q)
    PROVE  MovesMoneyOnce'
<1>1. SUFFICES ASSUME NEW r \in Reqs
               PROVE  tx'[r] = IF req'[r].status = "executed" THEN 1 ELSE 0
  BY DEF MovesMoneyOnce, Status
<1>2. tx[r] = IF req[r].status = "executed" THEN 1 ELSE 0
  BY DEF MovesMoneyOnce, Status
<1>t. req[r] \in Row
  BY DEF TypeOK, TreasuryTypeOK, Row
<1>3. CASE Same(r)
  BY <1>3, <1>2 DEF Same
<1>4. CASE Created(r)
  <2>1. req'[r].status = "pending"
    BY <1>4, NewRow DEF Created
  <2>. QED BY <1>4, <2>1, <1>2 DEF Created, Status
<1>5. CASE Approved(r) \/ Refused(r) \/ Started(r)
  <2>1. req'[r].status \in {"approved", "rejected", "cancelled", "executing"}
    BY <1>5, <1>t DEF Approved, Refused, Started, To, Row
  <2>. QED BY <1>5, <2>1, <1>2 DEF Approved, Refused, Started, Status
<1>6. CASE Executed(r) \/ Failed(r)
  BY <1>6, <1>t, <1>2 DEF Executed, Failed, To, Row, Status
<1>. QED BY <1>3, <1>4, <1>5, <1>6 DEF Advances

LEMMA RolesStep ==
    ASSUME TypeOK, Roles, \A q \in Reqs : Same(q) \/ Created(q) \/ Advances(q)
    PROVE  Roles'
<1>. DEFINE OK(row) ==
        /\ row.status # "none" => row.requested_by \in Submitters
        /\ row.status \in {"approved", "executing", "executed", "failed"} =>
               row.approved_by \in Reviewers \ {row.requested_by}
        /\ row.status \in {"executing", "executed", "failed"} =>
               row.executed_by \in Executors \ {row.requested_by, row.approved_by}
<1>1. SUFFICES ASSUME NEW r \in Reqs PROVE OK(req'[r])
  BY DEF Roles, Status
<1>2. OK(req[r])
  BY DEF Roles, Status
<1>t. req[r] \in Row
  BY DEF TypeOK, TreasuryTypeOK, Row
<1>3. CASE Same(r)
  BY <1>3, <1>2 DEF Same
<1>4. CASE Created(r)
  <2>1. req'[r].status = "pending" /\ req'[r].requested_by \in Submitters
    BY <1>4, NewRow DEF Created
  <2>. QED BY <2>1
<1>5. CASE Approved(r)
  <2>1. PICK s \in Reviewers \ {req[r].requested_by} :
          req'[r] = [req[r] EXCEPT !.status = "approved", !.approved_by = s]
    BY <1>5 DEF Approved
  <2>. QED BY <1>5, <2>1, <1>2, <1>t DEF Row, Approved, Status
<1>6. CASE Started(r)
  <2>1. PICK s \in Executors \ {req[r].requested_by, req[r].approved_by} :
          req'[r] = [req[r] EXCEPT !.status = "executing", !.executed_by = s]
    BY <1>6 DEF Started
  <2>. QED BY <1>6, <2>1, <1>2, <1>t DEF Row, Started, Status
<1>7. CASE Refused(r) \/ Executed(r) \/ Failed(r)
  BY <1>7, <1>2, <1>t DEF Row, Refused, Executed, Failed, To, Status
<1>. QED BY <1>3, <1>4, <1>5, <1>6, <1>7 DEF Advances

(* Once a request exists nothing changes what it is about, and once it is   *)
(* executed it stays so.                                                    *)
LEMMA RowStays ==
    ASSUME TypeOK, NEW r \in Reqs, Same(r) \/ Advances(r)
    PROVE  /\ req'[r].reference = req[r].reference /\ req'[r].amount = req[r].amount
           /\ req'[r].debit = req[r].debit
           /\ req'[r].status = "none" <=> req[r].status = "none"
           /\ req[r].status = "executed" => req'[r].status = "executed"
<1>t. req[r] \in Row
  BY DEF TypeOK, TreasuryTypeOK, Row
<1>1. CASE Same(r)
  BY <1>1 DEF Same
<1>2. CASE Approved(r) \/ Started(r)
  BY <1>2, <1>t DEF Row, Approved, Started, Status
<1>3. CASE Refused(r) \/ Executed(r) \/ Failed(r)
  BY <1>3, <1>t DEF Row, Refused, Executed, Failed, To, Status
<1>. QED BY <1>1, <1>2, <1>3 DEF Advances

LEMMA AboutInjective ==
    /\ \A x, y : About("obligation", x) = About("obligation", y) => x = y
    /\ \A x, y : About("adjustment", x) = About("adjustment", y) => x = y
    /\ \A x, y : About("obligation", x) # About("adjustment", y)
  BY DEF About

(* What the IB rows may do without a new request.                           *)
LEMMA IBRowsStep ==
    ASSUME TypeOK, Settled, RowsOnly
    PROVE  /\ \A o \in Obligations :
                 /\ oblig'[o].op = oblig[o].op
                 /\ oblig'[o].status = "credited" =>
                       \/ oblig[o].status = "credited"
                       \/ oblig[o].op \in Reqs /\ Status(oblig[o].op) = "executed"
           /\ \A a \in Adjustments :
                 /\ adj'[a].op = adj[a].op
                 /\ adj[a].status # "none" => adj'[a].amount = adj[a].amount
                 /\ adj'[a].status = "none" => adj[a].status = "none"
                 /\ adj'[a].status = "executed" =>
                       \/ adj[a].status = "executed"
                       \/ adj[a].op \in Reqs /\ Status(adj[a].op) = "executed"
<1>. DEFINE GoalO == \A o \in Obligations :
                 /\ oblig'[o].op = oblig[o].op
                 /\ oblig'[o].status = "credited" =>
                       \/ oblig[o].status = "credited"
                       \/ oblig[o].op \in Reqs /\ Status(oblig[o].op) = "executed"
            GoalA == \A a \in Adjustments :
                 /\ adj'[a].op = adj[a].op
                 /\ adj[a].status # "none" => adj'[a].amount = adj[a].amount
                 /\ adj'[a].status = "none" => adj[a].status = "none"
                 /\ adj'[a].status = "executed" =>
                       \/ adj[a].status = "executed"
                       \/ adj[a].op \in Reqs /\ Status(adj[a].op) = "executed"
<1>t. oblig \in ObligationType /\ adj \in AdjustmentType
  BY TypeParts
<1>1. CASE Freeze \/ Unfreeze
  BY <1>1 DEF Freeze, Unfreeze
<1>2. ASSUME NEW o \in Obligations, Hold(o) \/ Release(o) \/ ApproveObligation(o)
      PROVE  GoalO /\ GoalA
  <2>1. GoalO
    BY <1>2, <1>t DEF Hold, Release, ApproveObligation, ObligationType
  <2>. QED BY <2>1, <1>2 DEF Hold, Release, ApproveObligation
<1>3. ASSUME NEW o \in Obligations, SyncObligation(o)
      PROVE  GoalO /\ GoalA
  <2>1. oblig[o].op # NoOp /\ Status(oblig[o].op) = "executed"
    BY <1>3 DEF SyncObligation, FirstRows
  <2>2. oblig[o].op \in Reqs
    BY <2>1, <1>t DEF ObligationType
  <2>3. oblig' = [oblig EXCEPT ![o].status = "credited"] /\ adj' = adj
    BY <1>3 DEF SyncObligation
  <2>4. GoalO
    BY <2>1, <2>2, <2>3, <1>t DEF ObligationType
  <2>. QED BY <2>3, <2>4
<1>4. ASSUME NEW o \in Obligations, NEW a \in Adjustments, NEW amount \in Amounts,
             SubmitAdjustment(a, o, amount)
      PROVE  GoalO /\ GoalA
  <2>1. adj[a].status = "none" /\ adj[a].op = NoOp
    BY <1>4 DEF SubmitAdjustment, Settled
  <2>2. /\ adj' = [adj EXCEPT ![a] = [status |-> "pending", obligation |-> o,
                                     amount |-> amount, op |-> NoOp]]
        /\ oblig' = oblig
    BY <1>4 DEF SubmitAdjustment
  <2>3. GoalA
    BY <2>1, <2>2, <1>t DEF AdjustmentType
  <2>. QED BY <2>2, <2>3
<1>5. ASSUME NEW a \in Adjustments, ApproveAdjustment(a) \/ RejectAdjustment(a)
      PROVE  GoalO /\ GoalA
  <2>1. PICK st \in {"approved", "rejected"} : adj' = [adj EXCEPT ![a].status = st]
    BY <1>5 DEF ApproveAdjustment, RejectAdjustment
  <2>2. GoalA
    BY <2>1, <1>t DEF AdjustmentType
  <2>. QED BY <2>2, <1>5 DEF ApproveAdjustment, RejectAdjustment
<1>6. ASSUME NEW a \in Adjustments, SyncAdjustment(a)
      PROVE  GoalO /\ GoalA
  <2>1. adj[a].op # NoOp /\ Status(adj[a].op) = "executed"
    BY <1>6 DEF SyncAdjustment, FirstRows
  <2>2. adj[a].op \in Reqs
    BY <2>1, <1>t DEF AdjustmentType
  <2>3. adj' = [adj EXCEPT ![a].status = "executed"] /\ oblig' = oblig
    BY <1>6 DEF SyncAdjustment
  <2>4. GoalA
    BY <2>1, <2>2, <2>3, <1>t DEF AdjustmentType
  <2>. QED BY <2>3, <2>4
<1>. QED BY <1>1, <1>2, <1>3, <1>4, <1>5, <1>6 DEF RowsOnly

(* Requests that are no newer than the step keep the links they have.       *)
LEMMA OldRequestsMatch ==
    ASSUME TypeOK, OneRequestPerRow, Settled, NEW r \in Reqs,
           Same(r) \/ Advances(r), req'[r].status # "none",
           \A o \in Obligations : oblig[o].op = r => oblig'[o].op = r,
           \A a \in Adjustments : adj[a].op = r =>
               adj'[a].op = r /\ (adj[a].status # "none" => adj'[a].amount = adj[a].amount)
    PROVE  /\ \A o \in Obligations : req'[r].reference = About("obligation", o) =>
                 oblig'[o].op = r /\ req'[r].amount = Calculated[o] /\ ~req'[r].debit
           /\ \A a \in Adjustments : req'[r].reference = About("adjustment", a) =>
                 adj'[a].op = r /\ req'[r].amount = adj'[a].amount /\ req'[r].debit
<1>1. /\ req'[r].reference = req[r].reference /\ req'[r].amount = req[r].amount
      /\ req'[r].debit = req[r].debit /\ req[r].status # "none"
  BY RowStays
<1>2. ASSUME NEW o \in Obligations, req'[r].reference = About("obligation", o)
      PROVE  oblig'[o].op = r /\ req'[r].amount = Calculated[o] /\ ~req'[r].debit
  BY <1>1, <1>2 DEF OneRequestPerRow, Status
<1>3. ASSUME NEW a \in Adjustments, req'[r].reference = About("adjustment", a)
      PROVE  adj'[a].op = r /\ req'[r].amount = adj'[a].amount /\ req'[r].debit
  <2>1. adj[a].op = r /\ req[r].amount = adj[a].amount /\ req[r].debit
    <3>1. req[r].reference = About("adjustment", a) /\ Status(r) # "none"
      BY <1>1, <1>3 DEF Status
    <3>. QED BY <3>1, Zenon DEF OneRequestPerRow
  <2>2. adj[a].status # "none"
    BY <2>1, SettlementAssumption DEF SettlementAssumption, Settled
  <2>. QED BY <1>1, <2>1, <2>2
<1>. QED BY <1>2, <1>3

(* ... and so do the settled rows.                                          *)
LEMMA ExecutedStays ==
    ASSUME TypeOK, NEW r \in Reqs, Status(r) = "executed",
           Same(r) \/ Created(r) \/ Advances(r)
    PROVE  req'[r].status = "executed"
  BY RowStays DEF Created, Status

LEMMA QuietStep ==
    ASSUME IInv, RowsOnly \/ UNCHANGED ibVars,
           \A q \in Reqs : Same(q) \/ Advances(q)
    PROVE  OneRequestPerRow' /\ Settled'
<1>i. TypeOK /\ OneRequestPerRow /\ Settled
  BY DEF IInv
<1>1. /\ \A o \in Obligations :
            /\ oblig'[o].op = oblig[o].op
            /\ oblig'[o].status = "credited" =>
                  \/ oblig[o].status = "credited"
                  \/ oblig[o].op \in Reqs /\ Status(oblig[o].op) = "executed"
      /\ \A a \in Adjustments :
            /\ adj'[a].op = adj[a].op
            /\ adj[a].status # "none" => adj'[a].amount = adj[a].amount
            /\ adj'[a].status = "none" => adj[a].status = "none"
            /\ adj'[a].status = "executed" =>
                  \/ adj[a].status = "executed"
                  \/ adj[a].op \in Reqs /\ Status(adj[a].op) = "executed"
  <2>1. CASE RowsOnly
    BY <2>1, <1>i, IBRowsStep
  <2>2. CASE UNCHANGED ibVars
    BY <2>2 DEF ibVars
  <2>. QED BY <2>1, <2>2
<1>2. OneRequestPerRow'
  BY <1>i, <1>1, OldRequestsMatch DEF OneRequestPerRow, Status
<1>3. Settled'
  <2>1. \A o \in Obligations : oblig'[o].status = "credited" =>
           oblig'[o].op \in Reqs /\ req'[oblig'[o].op].status = "executed"
    BY <1>i, <1>1, ExecutedStays DEF Settled, Status
  <2>2. \A a \in Adjustments : adj'[a].status = "executed" =>
           adj'[a].op \in Reqs /\ req'[adj'[a].op].status = "executed"
    BY <1>i, <1>1, ExecutedStays DEF Settled, Status
  <2>3. \A a \in Adjustments : adj'[a].status = "none" => adj'[a].op = NoOp
    BY <1>i, <1>1 DEF Settled
  <2>. QED BY <2>1, <2>2, <2>3 DEF Settled, Status
<1>. QED BY <1>2, <1>3

(* A new link is the first one of its row: a row that had a request keeps   *)
(* it.                                                                      *)
LEMMA LinkStep ==
    ASSUME IInv, LinksNew
    PROVE  OneRequestPerRow' /\ Settled'
<1>i. TypeOK /\ OneRequestPerRow /\ Settled
  BY DEF IInv
<1>t. oblig \in ObligationType /\ adj \in AdjustmentType
  BY <1>i, TypeParts
<1>0. PICK r \in Reqs :
        /\ Created(r)
        /\ \A q \in Reqs \ {r} : Same(q)
        /\ \/ \E o \in Obligations : LinkedObligation(o, r)
           \/ \E a \in Adjustments : LinkedAdjustment(a, r)
           \/ ByHand(r)
  BY <1>i, LinksNewStep
<1>n. r # NoOp /\ Status(r) = "none"
  BY <1>0, SettlementAssumption DEF SettlementAssumption, Created
<1>1. /\ \A o \in Obligations :
            /\ oblig'[o].status = oblig[o].status
            /\ oblig'[o].op = oblig[o].op \/ (oblig[o].op = NoOp /\ oblig[o].status = "approved")
      /\ \A a \in Adjustments :
            /\ adj'[a].status = adj[a].status
            /\ adj'[a].op = adj[a].op \/ (adj[a].op = NoOp /\ adj[a].status = "approved")
            /\ adj'[a].amount = adj[a].amount
  <2>1. CASE \E o \in Obligations : LinkedObligation(o, r)
    BY <2>1, <1>t DEF LinkedObligation, ObligationType
  <2>2. CASE \E a \in Adjustments : LinkedAdjustment(a, r)
    BY <2>2, <1>t DEF LinkedAdjustment, AdjustmentType
  <2>3. CASE ByHand(r)
    BY <2>3 DEF ByHand, ibVars
  <2>. QED BY <1>0, <2>1, <2>2, <2>3
<1>2. ASSUME NEW q \in Reqs \ {r}, req'[q].status # "none"
      PROVE  /\ \A o \in Obligations : req'[q].reference = About("obligation", o) =>
                   oblig'[o].op = q /\ req'[q].amount = Calculated[o] /\ ~req'[q].debit
             /\ \A a \in Adjustments : req'[q].reference = About("adjustment", a) =>
                   adj'[a].op = q /\ req'[q].amount = adj'[a].amount /\ req'[q].debit
  <2>1. q # NoOp /\ Same(q)
    BY <1>0, SettlementAssumption DEF SettlementAssumption
  <2>2. /\ \A o \in Obligations : oblig[o].op = q => oblig'[o].op = q
        /\ \A a \in Adjustments : adj[a].op = q => adj'[a].op = q /\ adj'[a].amount = adj[a].amount
    BY <1>1, <2>1
  <2>. QED BY <1>i, <1>2, <2>1, <2>2, OldRequestsMatch
<1>3. /\ \A o \in Obligations : req'[r].reference = About("obligation", o) =>
            oblig'[o].op = r /\ req'[r].amount = Calculated[o] /\ ~req'[r].debit
      /\ \A a \in Adjustments : req'[r].reference = About("adjustment", a) =>
            adj'[a].op = r /\ req'[r].amount = adj'[a].amount /\ req'[r].debit
  <2>1. ASSUME NEW p \in Obligations, LinkedObligation(p, r)
        PROVE  <1>3
    <3>1. /\ req'[r].reference = About("obligation", p) /\ req'[r].amount = Calculated[p]
          /\ oblig'[p].op = r
      BY <2>1, <1>t DEF LinkedObligation, ObligationType
    <3>2. ~req'[r].debit
      BY <2>1 DEF LinkedObligation
    <3>. QED BY <3>1, <3>2, AboutInjective
  <2>2. ASSUME NEW p \in Adjustments, LinkedAdjustment(p, r)
        PROVE  <1>3
    <3>1. /\ req'[r].reference = About("adjustment", p) /\ req'[r].amount = adj'[p].amount
          /\ adj'[p].op = r
      BY <2>2, <1>t DEF LinkedAdjustment, AdjustmentType
    <3>2. req'[r].debit
      BY <2>2 DEF LinkedAdjustment
    <3>. QED BY <3>1, <3>2, AboutInjective
  <2>3. CASE ByHand(r)
    <3>1. req'[r].reference = Manual
      BY <2>3 DEF ByHand
    <3>2. /\ \A o \in Obligations : About("obligation", o) # Manual
          /\ \A a \in Adjustments : About("adjustment", a) # Manual
      BY SettlementAssumption DEF SettlementAssumption
    <3>. QED BY <3>1, <3>2
  <2>. QED BY <1>0, <2>1, <2>2, <2>3
<1>4. OneRequestPerRow'
  BY <1>2, <1>3 DEF OneRequestPerRow, Status
<1>5. Settled'
  <2>e. \A q \in Reqs : Status(q) = "executed" => req'[q].status = "executed"
    BY <1>0, <1>n DEF Same, Status
  <2>1. \A o \in Obligations : oblig'[o].status = "credited" =>
           oblig'[o].op \in Reqs /\ req'[oblig'[o].op].status = "executed"
    BY <1>i, <1>1, <2>e DEF Settled
  <2>2. \A a \in Adjustments : adj'[a].status = "executed" =>
           adj'[a].op \in Reqs /\ req'[adj'[a].op].status = "executed"
    BY <1>i, <1>1, <2>e DEF Settled
  <2>3. \A a \in Adjustments : adj'[a].status = "none" => adj'[a].op = NoOp
    BY <1>i, <1>1 DEF Settled
  <2>. QED BY <2>1, <2>2, <2>3 DEF Settled, Status
<1>. QED BY <1>4, <1>5

LEMMA InvStep == IInv /\ [Next]_vars => IInv'
<1>. SUFFICES ASSUME IInv, [Next]_vars PROVE IInv'
  OBVIOUS
<1>1. TypeOK' /\ \A q \in Reqs : Same(q) \/ Created(q) \/ Advances(q)
  BY NextStep DEF IInv
<1>2. MovesMoneyOnce' /\ Roles'
  BY <1>1, MoneyStep, RolesStep DEF IInv
<1>3. OneRequestPerRow' /\ Settled'
  <2>1. CASE LinksNew
    BY <2>1, LinkStep
  <2>2. CASE RowsOnly
    <3>1. \A q \in Reqs : Same(q)
      BY <2>2, RowsOnlyStep DEF IInv, treasuryVars, Same
    <3>. QED BY <2>2, <3>1, QuietStep
  <2>3. CASE TreasuryNext /\ UNCHANGED ibVars
    BY <2>3, TreasuryStep, QuietStep DEF IInv
  <2>4. CASE UNCHANGED vars
    <3>1. UNCHANGED ibVars /\ \A q \in Reqs : Same(q)
      BY <2>4 DEF vars, treasuryVars, ibVars, Same
    <3>. QED BY <3>1, QuietStep
  <2>. QED BY <2>1, <2>2, <2>3, <2>4, NextSplit
<1>. QED BY <1>1, <1>2, <1>3 DEF IInv

THEOREM Invariant == Spec => []IInv
  BY InvInit, InvStep, PTL DEF Spec

-----------------------------------------------------------------------------
(* Every column of a request, every counter and the wallet of the broker    *)
(* keep to their types; debit_wallet never overdraws it.                    *)
THEOREM TypeCorrect == Spec => []TypeOK
  BY Invariant, PTL DEF IInv

(* Whatever the executing thread, its crash and the recovery service do, an *)
(* executed request has moved money once, any other one never.              *)
THEOREM MoneyMovesOnce == Spec => []MovesMoneyOnce
  BY Invariant, PTL DEF IInv

(* The three roles of a request are held by three people.                   *)
THEOREM ThreePeople == Spec => []SegregationOfDuties
<1>1. IInv => SegregationOfDuties
  BY DEF IInv, Roles, SegregationOfDuties
<1>. QED BY <1>1, Invariant, PTL

(* An IB row has one request, of its own amount, and reads CREDITED or      *)
(* EXECUTED only when that request has moved the money.                     *)
THEOREM RowsMatch == Spec => []RowsMatchTheirRequests
<1>1. IInv => RowsMatchTheirRequests
  BY DEF IInv, Settled, MovesMoneyOnce, RowsMatchTheirRequests, SettledMeansPaid
<1>. QED BY <1>1, Invariant, PTL

(* A request that was rejected, cancelled or failed stays so and moves no   *)
(* money, even if its thread is only slow.                                  *)
THEOREM EndedStays == Spec => EndedForGood
<1>1. ASSUME TypeOK, [Next]_vars, NEW r \in Reqs, Status(r) \in TERMINAL_NON_SUCCESS
      PROVE  Status(r)' = Status(r) /\ tx[r]' = tx[r]
  <2>1. Same(r) \/ Created(r) \/ Advances(r)
    BY <1>1, NextStep
  <2>. QED BY <2>1, <1>1 DEF TERMINAL_NON_SUCCESS, Same, Created, Advances, Approved, Refused,
                             Started, Executed, Failed, Status
<1>2. TypeOK /\ [Next]_vars =>
        [\A r \in Reqs : Status(r) \in TERMINAL_NON_SUCCESS =>
            Status(r)' = Status(r) /\ tx[r]' = tx[r]]_vars
  BY <1>1
<1>. QED BY <1>2, TypeCorrect, PTL DEF Spec, EndedForGood

-----------------------------------------------------------------------------
(* The links in both directions.                                            *)

(* An obligation's request is about it; an adjustment is about a commission *)
(* that was credited, and has a request only once it cannot be rejected.    *)
Links ==
    /\ \A o \in Obligations : oblig[o].op # NoOp =>
           Status(oblig[o].op) # "none" /\ req[oblig[o].op].reference = About("obligation", o)
    /\ \A a \in Adjustments :
           /\ adj[a].status = "none" => adj[a] = NoAdjustment
           /\ adj[a].status # "none" =>
                 /\ adj[a].obligation \in Obligations /\ adj[a].amount \in Amounts
                 /\ oblig[adj[a].obligation].status = "credited"
           /\ adj[a].op # NoOp => adj[a].status \in {"approved", "executed"}

(* One step in the life of an adjustment.                                   *)
Submitted(a) ==
    /\ adj[a].status = "none"
    /\ \E o \in Obligations, amount \in Amounts :
          /\ adj'[a] = [status |-> "pending", obligation |-> o, amount |-> amount, op |-> NoOp]
          /\ oblig[o].status = "credited"
          /\ amount <= Calculated[o] - Reserved(o)
Reviewed(a) ==
    /\ adj[a].status = "pending"
    /\ \E st \in {"approved", "rejected"} : adj'[a] = [adj[a] EXCEPT !.status = st]
Synced(a) ==
    /\ adj[a].status = "approved"
    /\ adj'[a] = [adj[a] EXCEPT !.status = "executed"]
GotRequest(a) ==
    /\ adj[a].status = "approved"
    /\ \E r \in Reqs : adj'[a] = [adj[a] EXCEPT !.op = r]

LEMMA AdjustmentStep ==
    ASSUME TypeOK, [Next]_vars
    PROVE  \/ UNCHANGED adj
           \/ \E a \in Adjustments :
                 /\ Submitted(a) \/ Reviewed(a) \/ Synced(a) \/ GotRequest(a)
                 /\ \A b \in Adjustments \ {a} : adj'[b] = adj[b]
<1>. DEFINE Goal == \/ UNCHANGED adj
                    \/ \E a \in Adjustments :
                          /\ Submitted(a) \/ Reviewed(a) \/ Synced(a) \/ GotRequest(a)
                          /\ \A b \in Adjustments \ {a} : adj'[b] = adj[b]
<1>t. adj \in AdjustmentType
  BY TypeParts
<1>1. CASE LinksNew
  <2>1. PICK r \in Reqs : \/ \E o \in Obligations : LinkedObligation(o, r)
                          \/ \E a \in Adjustments : LinkedAdjustment(a, r)
                          \/ ByHand(r)
    BY <1>1, LinksNewStep
  <2>2. ASSUME NEW a \in Adjustments, LinkedAdjustment(a, r) PROVE Goal
    <3>1. GotRequest(a) /\ \A b \in Adjustments \ {a} : adj'[b] = adj[b]
      BY <2>2, <1>t DEF LinkedAdjustment, GotRequest, AdjustmentType
    <3>. QED BY <3>1
  <2>. QED BY <2>1, <2>2 DEF LinkedObligation, ByHand, ibVars
<1>2. ASSUME NEW a \in Adjustments, NEW o \in Obligations, NEW amount \in Amounts,
             SubmitAdjustment(a, o, amount)
      PROVE  Goal
  <2>1. Submitted(a) /\ \A b \in Adjustments \ {a} : adj'[b] = adj[b]
    BY <1>2, <1>t DEF SubmitAdjustment, Submitted, AdjustmentType
  <2>. QED BY <2>1
<1>3. ASSUME NEW a \in Adjustments, ApproveAdjustment(a) \/ RejectAdjustment(a)
      PROVE  Goal
  <2>1. Reviewed(a) /\ \A b \in Adjustments \ {a} : adj'[b] = adj[b]
    BY <1>3, <1>t DEF ApproveAdjustment, RejectAdjustment, Reviewed, AdjustmentType
  <2>. QED BY <2>1
<1>4. ASSUME NEW a \in Adjustments, SyncAdjustment(a) PROVE Goal
  <2>1. Synced(a) /\ \A b \in Adjustments \ {a} : adj'[b] = adj[b]
    BY <1>4, <1>t DEF SyncAdjustment, FirstRows, Synced, AdjustmentType
  <2>. QED BY <2>1
<1>5. CASE RowsOnly
  <2>1. ASSUME NEW o \in Obligations, Hold(o) \/ Release(o) \/ ApproveObligation(o) \/ SyncObligation(o)
        PROVE  UNCHANGED adj
    BY <2>1 DEF Hold, Release, ApproveObligation, SyncObligation
  <2>2. CASE Freeze \/ Unfreeze
    BY <2>2 DEF Freeze, Unfreeze
  <2>. QED BY <1>5, <1>2, <1>3, <1>4, <2>1, <2>2 DEF RowsOnly
<1>6. CASE (TreasuryNext /\ UNCHANGED ibVars) \/ UNCHANGED vars
  BY <1>6 DEF ibVars, vars
<1>. QED BY <1>1, <1>5, <1>6, NextSplit

(* A credited obligation stays so; a link is new or the same.               *)
LEMMA ObligationStep ==
    ASSUME TypeOK, Settled, [Next]_vars, NEW o \in Obligations
    PROVE  /\ oblig[o].status = "credited" => oblig'[o].status = "credited"
           /\ \/ oblig'[o].op = oblig[o].op
              \/ \E r \in Reqs : /\ Created(r) /\ oblig'[o].op = r
                                 /\ req'[r].reference = About("obligation", o)
<1>t. oblig \in ObligationType
  BY TypeParts
<1>1. CASE LinksNew
  <2>1. PICK r \in Reqs : /\ Created(r)
                          /\ \/ \E p \in Obligations : LinkedObligation(p, r)
                             \/ \E a \in Adjustments : LinkedAdjustment(a, r)
                             \/ ByHand(r)
    BY <1>1, LinksNewStep
  <2>2. ASSUME NEW p \in Obligations, LinkedObligation(p, r)
        PROVE  /\ oblig'[o].status = oblig[o].status
               /\ oblig'[o].op = oblig[o].op \/ (o = p /\ oblig'[o].op = r)
    BY <2>2, <1>t DEF LinkedObligation, ObligationType
  <2>3. CASE oblig' = oblig
    BY <2>3
  <2>. QED BY <2>1, <2>2, <2>3 DEF LinkedObligation, LinkedAdjustment, ByHand, ibVars
<1>2. CASE RowsOnly
  <2>1. oblig'[o].op = oblig[o].op
    BY <1>2, IBRowsStep
  <2>2. ASSUME NEW p \in Obligations, Hold(p) \/ Release(p)
        PROVE  oblig'[o].status = oblig[o].status
    BY <2>2, <1>t DEF Hold, Release, ObligationType
  <2>3. ASSUME NEW p \in Obligations, ApproveObligation(p) \/ SyncObligation(p)
        PROVE  oblig[o].status = "credited" => oblig'[o].status = "credited"
    BY <2>3, <1>t DEF ApproveObligation, SyncObligation, ObligationType
  <2>4. CASE oblig' = oblig
    BY <2>4
  <2>5. \/ oblig' = oblig
        \/ \E p \in Obligations : Hold(p) \/ Release(p) \/ ApproveObligation(p) \/ SyncObligation(p)
    BY <1>2 DEF RowsOnly, Freeze, Unfreeze, SubmitAdjustment, ApproveAdjustment,
                RejectAdjustment, SyncAdjustment
  <2>. QED BY <2>1, <2>2, <2>3, <2>4, <2>5
<1>3. CASE oblig' = oblig
  BY <1>3
<1>. QED BY <1>1, <1>2, <1>3, NextSplit DEF ibVars, vars

LEMMA LinksStep ==
    ASSUME IInv, Links, [Next]_vars
    PROVE  Links'
<1>i. TypeOK /\ Settled
  BY DEF IInv
<1>q. \A q \in Reqs : Status(q) # "none" =>
         req'[q].status # "none" /\ req'[q].reference = req[q].reference
  <2>1. \A q \in Reqs : Same(q) \/ Created(q) \/ Advances(q)
    BY <1>i, NextStep
  <2>. QED BY <1>i, <2>1, RowStays DEF Created, Status
<1>1. ASSUME NEW o \in Obligations, oblig'[o].op # NoOp
      PROVE  /\ req'[oblig'[o].op].status # "none"
             /\ req'[oblig'[o].op].reference = About("obligation", o)
  <2>1. CASE oblig'[o].op = oblig[o].op
    <3>1. oblig[o].op \in Reqs
      BY <1>i, <1>1, <2>1, TypeParts DEF ObligationType
    <3>. QED BY <1>1, <2>1, <3>1, <1>q DEF Links
  <2>2. ASSUME NEW r \in Reqs, Created(r), oblig'[o].op = r,
               req'[r].reference = About("obligation", o)
        PROVE  /\ req'[oblig'[o].op].status # "none"
               /\ req'[oblig'[o].op].reference = About("obligation", o)
    <3>1. req'[r].status = "pending"
      BY <2>2, NewRow DEF Created
    <3>. QED BY <2>2, <3>1
  <2>. QED BY <1>i, <2>1, <2>2, ObligationStep
<1>2. ASSUME NEW a \in Adjustments
      PROVE  /\ adj'[a].status = "none" => adj'[a] = NoAdjustment
             /\ adj'[a].status # "none" =>
                   /\ adj'[a].obligation \in Obligations /\ adj'[a].amount \in Amounts
                   /\ oblig'[adj'[a].obligation].status = "credited"
             /\ adj'[a].op # NoOp => adj'[a].status \in {"approved", "executed"}
  <2>c. \A o \in Obligations : oblig[o].status = "credited" => oblig'[o].status = "credited"
    BY <1>i, ObligationStep
  <2>t. adj[a] \in [status : {"none", "pending", "approved", "rejected", "executed"},
                    obligation : Obligations \cup {0}, amount : Amounts \cup {0},
                    op : Reqs \cup {NoOp}]
    BY <1>i, TypeParts DEF AdjustmentType
  <2>1. CASE adj'[a] = adj[a]
    BY <2>1, <2>c DEF Links
  <2>2. CASE Submitted(a)
    BY <2>2, <2>c DEF Submitted
  <2>3. CASE Reviewed(a)
    <3>1. adj[a].op = NoOp /\ adj[a].status # "none"
      BY <2>3 DEF Reviewed, Links
    <3>2. PICK st \in {"approved", "rejected"} : adj'[a] = [adj[a] EXCEPT !.status = st]
      BY <2>3 DEF Reviewed
    <3>3. /\ adj'[a].status \in {"approved", "rejected"} /\ adj'[a].op = NoOp
          /\ adj'[a].obligation = adj[a].obligation /\ adj'[a].amount = adj[a].amount
      BY <3>1, <3>2, <2>t
    <3>. QED BY <3>1, <3>3, <2>c DEF Links
  <2>4. CASE Synced(a) \/ GotRequest(a)
    <3>1. /\ adj'[a].status \in {"approved", "executed"}
          /\ adj'[a].obligation = adj[a].obligation /\ adj'[a].amount = adj[a].amount
      BY <2>4, <2>t DEF Synced, GotRequest
    <3>2. adj[a].status # "none"
      BY <2>4 DEF Synced, GotRequest
    <3>. QED BY <3>1, <3>2, <2>c DEF Links
  <2>. QED BY <1>i, <2>1, <2>2, <2>3, <2>4, AdjustmentStep
<1>. QED BY <1>1, <1>2 DEF Links, Status

-----------------------------------------------------------------------------
(* What adjustments take of a commission.                                   *)

Live(o) == {a \in Adjustments : adj[a].obligation = o /\ adj[a].status # "rejected"}

LEMMA NoOpIsNoRequest == NoOp \notin Reqs
  BY SettlementAssumption DEF SettlementAssumption

LEMMA AmountsNat == Amounts \cup {0} \subseteq Nat
  BY TreasuryAssumption DEF TreasuryAssumption

LEMMA CalculatedNat == \A o \in Obligations : Calculated[o] \in Nat
<1>1. Calculated \in [Obligations -> Amounts \cup {0}]
  BY SettlementAssumption DEF SettlementAssumption
<1>. QED BY <1>1, AmountsNat

LEMMA LiveReserved ==
    ASSUME TypeOK, Links, NEW o \in Obligations
    PROVE  Reserved(o) = SumFunctionOnSet(AdjustmentAmount, Live(o))
<1>1. \A a \in Adjustments : adj[a].obligation = o => adj[a].status # "none"
  BY SettlementAssumption DEF SettlementAssumption, Links, NoAdjustment
<1>2. {a \in Adjustments : /\ adj[a].obligation = o
                           /\ adj[a].status \in {"pending", "approved", "executed"}} = Live(o)
  BY <1>1 DEF Live, TypeOK
<1>. QED BY <1>2, Zenon DEF Reserved

LEMMA LiveSums ==
    ASSUME TypeOK, NEW o
    PROVE  /\ IsFiniteSet(Live(o)) /\ \A a \in Adjustments : AdjustmentAmount[a] \in Nat
           /\ \A T \in SUBSET Adjustments : SumFunctionOnSet(AdjustmentAmount, T) \in Nat
<1>1. IsFiniteSet(Adjustments) /\ Amounts \subseteq Nat
  BY SettlementAssumption, TreasuryAssumption DEF SettlementAssumption, TreasuryAssumption
<1>2. IsFiniteSet(Live(o))
  BY <1>1, FS_Subset DEF Live
<1>3. \A a \in Adjustments : AdjustmentAmount[a] \in Nat
  <2>1. adj \in AdjustmentType
    BY TypeParts
  <2>2. \A a \in Adjustments : adj[a].amount \in Amounts \cup {0}
    BY <2>1 DEF AdjustmentType
  <2>3. \A a \in Adjustments : adj[a].amount \in Nat
    BY <2>2, AmountsNat, Zenon
  <2>. QED BY <2>3, Zenon DEF AdjustmentAmount
<1>. QED BY <1>1, <1>2, <1>3, SumNat

LEMMA ReversalsStep ==
    ASSUME IInv, IInv', Links, ReversalsWithinCommission, [Next]_vars
    PROVE  ReversalsWithinCommission'
<1>. SUFFICES ASSUME NEW o \in Obligations
              PROVE  SumFunctionOnSet(AdjustmentAmount', Live(o)') <= Calculated[o]
  BY DEF ReversalsWithinCommission, Live
<1>i. TypeOK /\ TypeOK' /\ adj \in AdjustmentType
  BY TypeParts DEF IInv
<1>b. SumFunctionOnSet(AdjustmentAmount, Live(o)) <= Calculated[o]
  BY DEF ReversalsWithinCommission, Live
<1>n. /\ Calculated[o] \in Nat
      /\ SumFunctionOnSet(AdjustmentAmount, Live(o)) \in Nat
      /\ IsFiniteSet(Live(o)) /\ \A a \in Adjustments : AdjustmentAmount[a] \in Nat
  <2>1. Calculated[o] \in Nat
    BY CalculatedNat
  <2>2. Live(o) \in SUBSET Adjustments
    BY DEF Live
  <2>. QED BY <1>i, <2>1, <2>2, LiveSums
<1>1. ASSUME \A a \in Live(o)' : a \in Live(o) /\ AdjustmentAmount'[a] = AdjustmentAmount[a]
      PROVE  SumFunctionOnSet(AdjustmentAmount', Live(o)') <= Calculated[o]
  <2>1. Live(o)' \in SUBSET Live(o)
    BY <1>1
  <2>2. \A a \in Live(o) : AdjustmentAmount[a] \in Nat
    BY <1>n DEF Live
  <2>3. /\ SumFunctionOnSet(AdjustmentAmount, Live(o)') <= SumFunctionOnSet(AdjustmentAmount, Live(o))
        /\ SumFunctionOnSet(AdjustmentAmount, Live(o)') \in Nat
    BY <1>n, <2>1, <2>2, SumPart
  <2>4. IsFiniteSet(Live(o)')
    BY <1>n, <2>1, FS_Subset
  <2>5. SumFunctionOnSet(AdjustmentAmount', Live(o)') = SumFunctionOnSet(AdjustmentAmount, Live(o)')
    BY <1>1, <2>4, SumAgree
  <2>. QED BY <1>b, <1>n, <2>3, <2>5
<1>2. ASSUME NEW a \in Adjustments, Submitted(a),
             \A b \in Adjustments \ {a} : adj'[b] = adj[b]
      PROVE  SumFunctionOnSet(AdjustmentAmount', Live(o)') <= Calculated[o]
  <2>1. PICK p \in Obligations, amount \in Amounts :
          /\ adj'[a] = [status |-> "pending", obligation |-> p, amount |-> amount, op |-> NoOp]
          /\ amount <= Calculated[p] - Reserved(p)
    BY <1>2 DEF Submitted
  <2>2. a \notin Live(o)
    BY <1>2, SettlementAssumption DEF Submitted, Links, NoAdjustment, Live, SettlementAssumption
  <2>3. \A b \in Adjustments \ {a} : AdjustmentAmount'[b] = AdjustmentAmount[b]
    BY <1>2 DEF AdjustmentAmount
  <2>4. CASE p # o
    <3>1. Live(o)' = Live(o)
      BY <1>2, <2>1, <2>2, <2>4 DEF Live
    <3>. QED BY <1>1, <2>2, <2>3, <3>1 DEF Live
  <2>5. CASE p = o
    <3>1. Live(o)' = Live(o) \cup {a}
      BY <1>2, <2>1, <2>2, <2>5 DEF Live
    <3>2. AdjustmentAmount'[a] = amount /\ amount \in Nat
      BY <2>1, TreasuryAssumption DEF AdjustmentAmount, TreasuryAssumption
    <3>3. \A b \in Live(o) \cup {a} : AdjustmentAmount'[b] \in Int
      BY <1>n, <2>3, <3>2 DEF Live
    <3>4. SumFunctionOnSet(AdjustmentAmount', Live(o) \cup {a})
            = SumFunctionOnSet(AdjustmentAmount', Live(o)) + AdjustmentAmount'[a]
      BY <1>n, <2>2, <3>3, SumInsert
    <3>5. SumFunctionOnSet(AdjustmentAmount', Live(o)) = SumFunctionOnSet(AdjustmentAmount, Live(o))
      <4>1. \A b \in Live(o) : AdjustmentAmount'[b] = AdjustmentAmount[b]
        BY <2>2, <2>3 DEF Live
      <4>. QED BY <1>n, <4>1, SumAgree
    <3>6. amount <= Calculated[o] - SumFunctionOnSet(AdjustmentAmount, Live(o))
      BY <1>i, <2>1, <2>5, LiveReserved
    <3>7. SumFunctionOnSet(AdjustmentAmount', Live(o)')
            = SumFunctionOnSet(AdjustmentAmount, Live(o)) + amount
      BY <3>1, <3>2, <3>4, <3>5, Zenon
    <3>. QED BY <1>n, <3>2, <3>6, <3>7
  <2>. QED BY <2>4, <2>5
<1>3. ASSUME NEW a \in Adjustments, Reviewed(a) \/ Synced(a) \/ GotRequest(a),
             \A b \in Adjustments \ {a} : adj'[b] = adj[b]
      PROVE  SumFunctionOnSet(AdjustmentAmount', Live(o)') <= Calculated[o]
  <2>1. /\ adj'[a].obligation = adj[a].obligation /\ adj'[a].amount = adj[a].amount
        /\ adj[a].status # "rejected"
    BY <1>3, <1>i DEF Reviewed, Synced, GotRequest, AdjustmentType
  <2>. QED BY <1>1, <1>3, <2>1 DEF Live, AdjustmentAmount
<1>4. CASE UNCHANGED adj
  BY <1>1, <1>4 DEF Live, AdjustmentAmount
<1>. QED BY <1>i, <1>2, <1>3, <1>4, AdjustmentStep

LEMMA LinksInit == Init => Links /\ ReversalsWithinCommission
<1>. SUFFICES ASSUME Init PROVE Links /\ ReversalsWithinCommission
  OBVIOUS
<1>1. Links
  BY DEF Init, Links, NoAdjustment, NoOp
<1>2. ASSUME NEW o \in Obligations
      PROVE  SumFunctionOnSet(AdjustmentAmount, Live(o)) <= Calculated[o]
  <2>1. Live(o) = {}
    BY SettlementAssumption DEF SettlementAssumption, Init, NoAdjustment, Live
  <2>2. SumFunctionOnSet(AdjustmentAmount, Live(o)) = 0
    BY <2>1, SumEmpty, Zenon
  <2>3. Calculated[o] \in Nat
    BY CalculatedNat
  <2>. QED BY <2>2, <2>3
<1>. QED BY <1>1, <1>2 DEF ReversalsWithinCommission, Live

LEMMA LinkInvariant == Spec => [](Links /\ ReversalsWithinCommission)
<1>1. IInv /\ IInv' /\ Links /\ ReversalsWithinCommission /\ [Next]_vars
        => (Links /\ ReversalsWithinCommission)'
  BY LinksStep, ReversalsStep
<1>. QED BY <1>1, LinksInit, Invariant, PTL DEF Spec

(* Adjustments that are asked for at the same time share the commission:    *)
(* together they never take back more than it.                              *)
THEOREM ReversalsShare == Spec => []ReversalsWithinCommission
  BY LinkInvariant, PTL

-----------------------------------------------------------------------------
(* The commission promise.  What an obligation has moved is what its        *)
(* executed requests have.                                                  *)

PaidRows(o) == {r \in Reqs : Status(r) = "executed" /\ req[r].reference = About("obligation", o)}
BackRows(o) == {r \in Reqs : /\ Status(r) = "executed"
                             /\ \E a \in Adjustments : /\ adj[a].obligation = o
                                                       /\ req[r].reference = About("adjustment", a)}

MovedTotals ==
    /\ \A r \in Reqs : Moved[r] \in Nat /\ (Status(r) = "executed" => Moved[r] = req[r].amount)
    /\ Paid = [o \in Obligations |-> IF PaidRows(o) = {} THEN 0 ELSE Calculated[o]]
    /\ TakenBack = [o \in Obligations |-> SumFunctionOnSet(Moved, BackRows(o))]

LEMMA TotalsKnown == IInv => MovedTotals
<1>. SUFFICES ASSUME IInv PROVE MovedTotals
  OBVIOUS
<1>f. IsFiniteSet(Reqs)
  BY SettlementAssumption DEF SettlementAssumption
<1>1. ASSUME NEW r \in Reqs
      PROVE  /\ Moved[r] \in Nat
             /\ Moved[r] = IF Status(r) = "executed" THEN req[r].amount ELSE 0
  <2>1. req[r].amount \in Nat
    <3>1. req[r] \in Row
      BY DEF IInv, TypeOK, TreasuryTypeOK, Row
    <3>2. req[r].amount \in Amounts \cup {0}
      BY <3>1 DEF Row
    <3>. QED BY <3>2, AmountsNat
  <2>2. tx[r] = IF Status(r) = "executed" THEN 1 ELSE 0
    BY DEF IInv, MovesMoneyOnce
  <2>. QED BY <2>1, <2>2 DEF Moved
<1>2. ASSUME NEW o \in Obligations
      PROVE  SumFunctionOnSet(Moved, {r \in Reqs : req[r].reference = About("obligation", o)})
                = IF PaidRows(o) = {} THEN 0 ELSE Calculated[o]
  <2>. DEFINE S == {r \in Reqs : req[r].reference = About("obligation", o)}
  <2>1. IsFiniteSet(S) /\ PaidRows(o) \in SUBSET S /\ \A r \in S : Moved[r] \in Int
    BY <1>f, <1>1, FS_Subset DEF PaidRows
  <2>2. \A r \in S \ PaidRows(o) : Moved[r] = 0
    BY <1>1 DEF PaidRows
  <2>3. SumFunctionOnSet(Moved, S) = SumFunctionOnSet(Moved, PaidRows(o))
    BY <2>1, <2>2, SumSupport
  <2>4. CASE PaidRows(o) = {}
    <3>1. SumFunctionOnSet(Moved, PaidRows(o)) = 0
      BY <2>4, SumEmpty, Zenon
    <3>. QED BY <2>3, <2>4, <3>1
  <2>5. ASSUME NEW r \in PaidRows(o)
        PROVE  SumFunctionOnSet(Moved, PaidRows(o)) = Calculated[o]
    <3>1. \A q \in PaidRows(o) : oblig[o].op = q /\ req[q].amount = Calculated[o]
      BY DEF PaidRows, IInv, OneRequestPerRow
    <3>2. PaidRows(o) = {r}
      BY <3>1
    <3>3. Moved[r] = Calculated[o] /\ Moved[r] \in Int
      BY <1>1, <3>1 DEF PaidRows
    <3>4. SumFunctionOnSet(Moved, {r}) = Moved[r]
      BY <3>3, SumOne
    <3>. QED BY <3>2, <3>3, <3>4, Zenon
  <2>. QED BY <2>3, <2>4, <2>5
<1>3. ASSUME NEW o \in Obligations
      PROVE  SumFunctionOnSet(Moved, {r \in Reqs : \E a \in Adjustments :
                 adj[a].obligation = o /\ req[r].reference = About("adjustment", a)})
                = SumFunctionOnSet(Moved, BackRows(o))
  <2>. DEFINE S == {r \in Reqs : \E a \in Adjustments :
                 adj[a].obligation = o /\ req[r].reference = About("adjustment", a)}
  <2>1. IsFiniteSet(S) /\ BackRows(o) \in SUBSET S /\ \A r \in S : Moved[r] \in Int
    BY <1>f, <1>1, FS_Subset DEF BackRows
  <2>2. \A r \in S \ BackRows(o) : Moved[r] = 0
    BY <1>1 DEF BackRows
  <2>. QED BY <2>1, <2>2, SumSupport
<1>. QED BY <1>1, <1>2, <1>3 DEF MovedTotals, Paid, TakenBack

(* No more is taken back than adjustments that are not rejected reserve,    *)
(* and nothing of a commission that was not paid.                           *)
BackWithinPaid == \A o \in Obligations : TakenBack[o] <= Paid[o]

LEMMA BackBounded == IInv /\ Links /\ ReversalsWithinCommission => BackWithinPaid
<1>. SUFFICES ASSUME IInv, Links, ReversalsWithinCommission, NEW o \in Obligations
              PROVE  TakenBack[o] <= Paid[o]
  BY DEF BackWithinPaid
<1>1. MovedTotals
  BY TotalsKnown
<1>2. CASE BackRows(o) = {}
  <2>1. SumFunctionOnSet(Moved, BackRows(o)) = 0
    BY <1>2, SumEmpty, Zenon
  <2>. QED BY <1>1, <2>1, CalculatedNat DEF MovedTotals
<1>3. ASSUME NEW q \in BackRows(o) PROVE TakenBack[o] <= Paid[o]
  <2>. DEFINE Of(r) == {a \in Adjustments : adj[a].obligation = o
                                            /\ req[r].reference = About("adjustment", a)}
              g == [r \in BackRows(o) |-> CHOOSE a \in Adjustments : a \in Of(r)]
  <2>1. \A r \in BackRows(o) : g[r] \in Of(r)
    BY DEF BackRows
  <2>g. DOMAIN g = BackRows(o) /\ g = [r \in BackRows(o) |-> g[r]]
    OBVIOUS
  <2>. HIDE DEF g
  <2>2. ASSUME NEW r \in BackRows(o)
        PROVE  /\ g[r] \in Live(o) /\ adj[g[r]].op = r /\ Moved[r] = adj[g[r]].amount
               /\ adj[g[r]].status # "none"
    <3>1. /\ g[r] \in Adjustments /\ adj[g[r]].obligation = o
          /\ req[r].reference = About("adjustment", g[r])
      BY <2>1, <2>2
    <3>2. r \in Reqs /\ Status(r) = "executed"
      BY <2>2 DEF BackRows
    <3>3. adj[g[r]].op = r /\ req[r].amount = adj[g[r]].amount
      BY <3>1, <3>2 DEF IInv, OneRequestPerRow
    <3>4. adj[g[r]].status \in {"approved", "executed"}
      BY <3>1, <3>2, <3>3, NoOpIsNoRequest DEF Links
    <3>. QED BY <1>1, <3>1, <3>2, <3>3, <3>4 DEF Live, MovedTotals
  <2>3. Paid[o] = Calculated[o]
    <3>1. g[q] \in Adjustments /\ adj[g[q]].obligation = o /\ adj[g[q]].status # "none"
      BY <1>3, <2>2 DEF Live
    <3>2. oblig[o].status = "credited"
      BY <3>1 DEF Links
    <3>3. oblig[o].op \in Reqs /\ Status(oblig[o].op) = "executed"
      BY <3>2 DEF IInv, Settled
    <3>4. oblig[o].op \in PaidRows(o)
      BY <3>3, NoOpIsNoRequest DEF Links, PaidRows
    <3>. QED BY <1>1, <3>4 DEF MovedTotals
  <2>4. SumFunctionOnSet(Moved, BackRows(o)) <= SumFunctionOnSet(AdjustmentAmount, Live(o))
    <3>1. IsFiniteSet(BackRows(o)) /\ \A r \in BackRows(o) : Moved[r] \in Int
      <4>1. BackRows(o) \subseteq Reqs /\ IsFiniteSet(Reqs)
        BY SettlementAssumption DEF SettlementAssumption, BackRows
      <4>. QED BY <1>1, <4>1, FS_Subset DEF MovedTotals
    <3>2. IsFiniteSet(Live(o)) /\ \A a \in Live(o) : AdjustmentAmount[a] \in Nat
      BY LiveSums DEF IInv, Live
    <3>3. g \in [BackRows(o) -> Live(o)]
      BY <2>2, <2>g
    <3>4. \A x, y \in BackRows(o) : g[x] = g[y] => x = y
      BY <2>2
    <3>5. \A r \in BackRows(o) : Moved[r] <= AdjustmentAmount[g[r]]
      <4>. SUFFICES ASSUME NEW r \in BackRows(o) PROVE Moved[r] <= AdjustmentAmount[g[r]]
        OBVIOUS
      <4>1. AdjustmentAmount[g[r]] = Moved[r]
        BY <2>2 DEF Live, AdjustmentAmount
      <4>. QED BY <3>1, <4>1
    <3>. QED BY <3>1, <3>2, <3>3, <3>4, <3>5, SumCovered
  <2>5. SumFunctionOnSet(AdjustmentAmount, Live(o)) <= Calculated[o]
    BY DEF ReversalsWithinCommission, Live
  <2>6. /\ SumFunctionOnSet(Moved, BackRows(o)) \in Int
        /\ SumFunctionOnSet(AdjustmentAmount, Live(o)) \in Int
    <3>1. Live(o) \in SUBSET Adjustments /\ BackRows(o) \in SUBSET Reqs /\ IsFiniteSet(Reqs)
      BY SettlementAssumption DEF SettlementAssumption, Live, BackRows
    <3>2. \A r \in Reqs : Moved[r] \in Int
      BY <1>1 DEF MovedTotals
    <3>. QED BY <3>1, <3>2, LiveSums, SumType DEF IInv
  <2>7. TakenBack[o] = SumFunctionOnSet(Moved, BackRows(o))
    BY <1>1 DEF MovedTotals
  <2>. QED BY <2>3, <2>4, <2>5, <2>6, <2>7, CalculatedNat
<1>. QED BY <1>2, <1>3

(* The same in the next state.                                              *)
LEMMA NextTotals ==
    /\ IInv' => MovedTotals'
    /\ (IInv /\ Links /\ ReversalsWithinCommission)' => BackWithinPaid'
<1>1. IInv' => MovedTotals'
  BY TotalsKnown, PTL
<1>2. (IInv /\ Links /\ ReversalsWithinCommission)' => BackWithinPaid'
  BY BackBounded, PTL
<1>. QED BY <1>1, <1>2

(* At most one request is executed at a time, and nothing else changes.     *)
LEMMA OneExecuted ==
    ASSUME TypeOK, [Next]_vars
    PROVE  \/ \A q \in Reqs : ~Executed(q)
           \/ \E r \in Reqs : /\ Executed(r) /\ UNCHANGED ibVars
                              /\ \A q \in Reqs \ {r} : Same(q)
<1>t. /\ req \in [Reqs -> Row] /\ tx \in [Reqs -> Nat]
  BY DEF TypeOK, TreasuryTypeOK, Row
<1>1. CASE tx' = tx
  BY <1>1, <1>t DEF Executed
<1>2. CASE LinksNew
  <2>1. PICK r \in Reqs : Created(r) /\ \A q \in Reqs \ {r} : Same(q)
    BY <1>2, LinksNewStep
  <2>. QED BY <2>1 DEF Created, Same, Executed
<1>3. CASE RowsOnly \/ UNCHANGED vars
  <2>1. tx' = tx
    BY <1>3, RowsOnlyStep DEF vars, treasuryVars
  <2>. QED BY <1>1, <2>1
<1>4. CASE TreasuryNext /\ UNCHANGED ibVars
  <2>1. CASE \E r \in Reqs : MoveMoney(r)
    <3>1. PICK r \in Reqs : MoveMoney(r)
      BY <2>1
    <3>2. /\ Status(r) = "executing" /\ tx[r] = 0
          /\ tx' = [tx EXCEPT ![r] = @ + 1]
          /\ req' = [req EXCEPT ![r] = [req[r] EXCEPT !.status = "executed"]]
      BY <3>1, <1>t DEF MoveMoney
    <3>3. Executed(r) /\ \A q \in Reqs \ {r} : Same(q)
      BY <3>2, <1>t DEF Executed, To, Same
    <3>. QED BY <1>4, <3>3
  <2>2. CASE ~ \E r \in Reqs : MoveMoney(r)
    <3>1. tx' = tx
      BY <1>4, <2>2 DEF TreasuryNext, Approve, Reject, Cancel, StartExecution, RecoverInspect,
            RecordStarted, StepBRaises, MarkFailed, Crash, GrowOld, RecoverApply, RecoverBlocked
    <3>. QED BY <1>1, <3>1
  <2>. QED BY <2>1, <2>2
<1>. QED BY <1>2, <1>3, <1>4, NextSplit

(* Nothing is executed: nothing that counts changes.                        *)
LEMMA TotalsStay ==
    ASSUME IInv, IInv', Links, [Next]_vars, \A q \in Reqs : ~Executed(q)
    PROVE  Paid' = Paid /\ TakenBack' = TakenBack
<1>i. TypeOK /\ MovedTotals /\ MovedTotals'
  BY TotalsKnown, NextTotals DEF IInv
<1>1. ASSUME NEW q \in Reqs
      PROVE  /\ req'[q].status = "executed" <=> Status(q) = "executed"
             /\ Status(q) = "executed" => Same(q)
  <2>1. Same(q) \/ Created(q) \/ Advances(q)
    BY <1>i, NextStep
  <2>2. CASE Same(q)
    BY <2>2 DEF Same, Status
  <2>3. CASE Created(q)
    BY <2>3, NewRow DEF Created
  <2>t. req[q] \in Row
    BY <1>i DEF TypeOK, TreasuryTypeOK, Row
  <2>4. CASE Approved(q) \/ Refused(q) \/ Started(q) \/ Failed(q)
    BY <2>4, <2>t DEF Approved, Refused, Started, Failed, To, Row, Status
  <2>. QED BY <2>1, <2>2, <2>3, <2>4 DEF Advances
<1>2. ASSUME NEW a \in Adjustments, adj[a].op # NoOp
      PROVE  adj'[a].obligation = adj[a].obligation
  <2>t. adj[a] \in [status : {"none", "pending", "approved", "rejected", "executed"},
                    obligation : Obligations \cup {0}, amount : Amounts \cup {0},
                    op : Reqs \cup {NoOp}]
    BY <1>i, TypeParts DEF AdjustmentType
  <2>1. ~Submitted(a)
    BY <1>2 DEF Links, Submitted, NoAdjustment
  <2>2. CASE Reviewed(a) \/ Synced(a) \/ GotRequest(a)
    BY <2>2, <2>t DEF Reviewed, Synced, GotRequest
  <2>. QED BY <1>i, <2>1, <2>2, AdjustmentStep
<1>3. \A q \in Reqs, a \in Adjustments :
         Status(q) = "executed" /\ req[q].reference = About("adjustment", a) => adj[a].op # NoOp
  BY NoOpIsNoRequest DEF IInv, OneRequestPerRow
<1>4. ASSUME NEW o \in Obligations
      PROVE  PaidRows(o)' = PaidRows(o) /\ BackRows(o)' = BackRows(o)
  <2>1. PaidRows(o)' = PaidRows(o)
    BY <1>1 DEF PaidRows, Same, Status
  <2>2. \A q \in Reqs : q \in BackRows(o)' <=> q \in BackRows(o)
    BY <1>1, <1>2, <1>3 DEF BackRows, Same, Status
  <2>3. BackRows(o)' \subseteq Reqs /\ BackRows(o) \subseteq Reqs
    BY DEF BackRows
  <2>. QED BY <2>1, <2>2, <2>3
<1>5. ASSUME NEW o \in Obligations
      PROVE  SumFunctionOnSet(Moved', BackRows(o)) = SumFunctionOnSet(Moved, BackRows(o))
  <2>1. IsFiniteSet(BackRows(o))
    <3>1. BackRows(o) \subseteq Reqs /\ IsFiniteSet(Reqs)
      BY SettlementAssumption DEF SettlementAssumption, BackRows
    <3>. QED BY <3>1, FS_Subset
  <2>2. \A q \in BackRows(o) : Moved'[q] = Moved[q]
    BY <1>1 DEF BackRows, Moved, Same
  <2>. QED BY <2>1, <2>2, SumAgree
<1>6. Paid' = Paid
  BY <1>i, <1>4 DEF MovedTotals
<1>7. TakenBack' = TakenBack
  <2>1. \A o \in Obligations : SumFunctionOnSet(Moved', BackRows(o)')
                                 = SumFunctionOnSet(Moved, BackRows(o))
    BY <1>4, <1>5, Zenon
  <2>. QED BY <1>i, <2>1 DEF MovedTotals
<1>. QED BY <1>6, <1>7

(* Request r is executed: either it pays an obligation, or it takes back a  *)
(* part of one, or it is about something else.                              *)
LEMMA ExecutedMoves ==
    ASSUME IInv, IInv', Links, BackWithinPaid', NEW r \in Reqs, Executed(r), UNCHANGED ibVars,
           \A q \in Reqs \ {r} : Same(q)
    PROVE  [Promise!PromiseNext]_(Promise!promise)
<1>i. TypeOK /\ MovedTotals /\ MovedTotals'
  BY TotalsKnown, NextTotals DEF IInv
<1>a. adj' = adj
  BY DEF ibVars
<1>f. IsFiniteSet(Reqs) /\ \A o : BackRows(o) \subseteq Reqs
  BY SettlementAssumption DEF SettlementAssumption, BackRows
<1>1. /\ Status(r) = "executing" /\ req'[r].status = "executed"
      /\ req'[r].reference = req[r].reference /\ req'[r].amount = req[r].amount
  BY <1>i DEF TypeOK, TreasuryTypeOK, Executed, To
<1>2. /\ \A o \in Obligations : req[r].reference = About("obligation", o) =>
            oblig[o].op = r /\ req[r].amount = Calculated[o] /\ ~req[r].debit
      /\ \A a \in Adjustments : req[r].reference = About("adjustment", a) =>
            adj[a].op = r /\ req[r].amount = adj[a].amount /\ req[r].debit
  BY <1>1 DEF IInv, OneRequestPerRow
<1>3. ASSUME NEW o \in Obligations, req[r].reference # About("obligation", o)
      PROVE  Paid'[o] = Paid[o]
  <2>1. PaidRows(o)' = PaidRows(o)
    BY <1>1, <1>3 DEF PaidRows, Same, Status
  <2>. QED BY <1>i, <2>1 DEF MovedTotals
<1>m. \A q \in Reqs \ {r} : Moved'[q] = Moved[q]
  BY DEF Moved, Same
<1>4. ASSUME NEW o \in Obligations,
             \A a \in Adjustments : adj[a].obligation = o => req[r].reference # About("adjustment", a)
      PROVE  TakenBack'[o] = TakenBack[o]
  <2>1. BackRows(o)' = BackRows(o) /\ r \notin BackRows(o)
    BY <1>1, <1>4, <1>a DEF BackRows, Same, Status
  <2>2. IsFiniteSet(BackRows(o)) /\ \A q \in BackRows(o) : Moved'[q] = Moved[q]
    BY <1>f, <1>m, <2>1, FS_Subset
  <2>3. SumFunctionOnSet(Moved', BackRows(o)) = SumFunctionOnSet(Moved, BackRows(o))
    BY <2>2, SumAgree
  <2>4. SumFunctionOnSet(Moved', BackRows(o)') = SumFunctionOnSet(Moved, BackRows(o))
    BY <2>1, <2>3, Zenon
  <2>. QED BY <1>i, <2>4 DEF MovedTotals
<1>d. /\ Paid = [o \in Obligations |-> Paid[o]] /\ Paid' = [o \in Obligations |-> Paid'[o]]
      /\ TakenBack = [o \in Obligations |-> TakenBack[o]]
      /\ TakenBack' = [o \in Obligations |-> TakenBack'[o]]
  BY DEF Paid, TakenBack
<1>5. ASSUME NEW o \in Obligations, req[r].reference = About("obligation", o)
      PROVE  Promise!Pay(o)
  <2>1. \A p \in Obligations \ {o} : Paid'[p] = Paid[p]
    BY <1>3, <1>5, AboutInjective
  <2>2. TakenBack' = TakenBack
    <3>1. \A p \in Obligations : TakenBack'[p] = TakenBack[p]
      BY <1>4, <1>5, AboutInjective
    <3>. QED BY <1>d, <3>1
  <2>3. Paid[o] = 0
    <3>1. \A q \in PaidRows(o) : q = r
      BY <1>2, <1>5 DEF PaidRows, IInv, OneRequestPerRow
    <3>2. PaidRows(o) = {}
      BY <1>1, <3>1 DEF PaidRows
    <3>. QED BY <1>i, <3>2 DEF MovedTotals
  <2>4. Paid'[o] = Calculated[o]
    <3>1. r \in PaidRows(o)'
      BY <1>1, <1>5 DEF PaidRows, Status
    <3>. QED BY <1>i, <3>1 DEF MovedTotals
  <2>5. Paid' = [Paid EXCEPT ![o] = Calculated[o]]
    BY <1>d, <2>1, <2>4
  <2>. QED BY <2>2, <2>3, <2>5 DEF Promise!Pay
<1>6. ASSUME NEW a \in Adjustments, req[r].reference = About("adjustment", a)
      PROVE  \E o \in Obligations : Promise!TakeBack(o)
  <2>1. adj[a].op = r /\ req[r].amount = adj[a].amount /\ adj[a].status \in {"approved", "executed"}
    BY <1>2, <1>6, NoOpIsNoRequest DEF Links
  <2>o. adj[a].obligation \in Obligations /\ adj[a].amount \in Amounts
    BY <2>1 DEF Links
  <2>2. PICK o \in Obligations : o = adj[a].obligation
    BY <2>o
  <2>3. Paid' = Paid
    <3>1. \A p \in Obligations : Paid'[p] = Paid[p]
      BY <1>3, <1>6, AboutInjective
    <3>. QED BY <1>d, <3>1
  <2>4. \A p \in Obligations \ {o} : TakenBack'[p] = TakenBack[p]
    <3>1. \A b \in Adjustments : req[r].reference = About("adjustment", b) => b = a
      BY <1>6, AboutInjective
    <3>. QED BY <1>4, <2>2, <3>1
  <2>5. BackRows(o)' = BackRows(o) \cup {r} /\ r \notin BackRows(o)
    BY <1>1, <1>6, <1>a, <2>2 DEF BackRows, Same, Status
  <2>6. /\ IsFiniteSet(BackRows(o)) /\ \A q \in BackRows(o) : Moved'[q] = Moved[q]
        /\ \A q \in BackRows(o) \cup {r} : Moved'[q] \in Int
    BY <1>i, <1>f, <1>m, <2>5, FS_Subset DEF MovedTotals
  <2>7. SumFunctionOnSet(Moved', BackRows(o) \cup {r}) = SumFunctionOnSet(Moved', BackRows(o)) + Moved'[r]
    BY <2>5, <2>6, SumInsert
  <2>8. SumFunctionOnSet(Moved', BackRows(o)) = SumFunctionOnSet(Moved, BackRows(o))
    BY <2>6, SumAgree
  <2>9. Moved'[r] = adj[a].amount
    BY <1>i, <1>1, <2>1 DEF MovedTotals, Status
  <2>10. SumFunctionOnSet(Moved', BackRows(o)') = SumFunctionOnSet(Moved, BackRows(o)) + adj[a].amount
    BY <2>5, <2>7, <2>8, <2>9, Zenon
  <2>11. TakenBack'[o] = TakenBack[o] + adj[a].amount
    BY <1>i, <2>2, <2>10 DEF MovedTotals
  <2>12. TakenBack[o] \in Int /\ Paid[o] \in Int /\ adj[a].amount \in Nat \ {0}
    <3>1. SumFunctionOnSet(Moved, BackRows(o)) \in Int
      <4>1. BackRows(o) \in SUBSET Reqs /\ \A q \in Reqs : Moved[q] \in Int
        BY <1>i, <1>f DEF MovedTotals
      <4>. QED BY <1>f, <4>1, SumType
    <3>2. TakenBack[o] \in Int
      BY <1>i, <2>2, <3>1 DEF MovedTotals
    <3>3. Paid[o] \in Int
      BY <1>i, <2>2, CalculatedNat DEF MovedTotals
    <3>4. adj[a].amount \in Nat \ {0}
      BY <2>o, TreasuryAssumption DEF TreasuryAssumption
    <3>. QED BY <3>2, <3>3, <3>4
  <2>13. TakenBack'[o] <= Paid[o]
    BY <2>2, <2>3 DEF BackWithinPaid
  <2>14. adj[a].amount \in 1 .. Paid[o] - TakenBack[o]
    BY <2>11, <2>12, <2>13
  <2>15. TakenBack' = [TakenBack EXCEPT ![o] = @ + adj[a].amount]
    BY <1>d, <2>4, <2>11
  <2>16. Promise!TakeBack(o)
    BY <2>3, <2>14, <2>15 DEF Promise!TakeBack
  <2>. QED BY <2>2, <2>16
<1>7. CASE /\ \A o \in Obligations : req[r].reference # About("obligation", o)
           /\ \A a \in Adjustments : req[r].reference # About("adjustment", a)
  <2>1. \A o \in Obligations : Paid'[o] = Paid[o] /\ TakenBack'[o] = TakenBack[o]
    BY <1>3, <1>4, <1>7
  <2>2. Paid' = Paid /\ TakenBack' = TakenBack
    BY <1>d, <2>1
  <2>. QED BY <2>2 DEF Promise!promise
<1>. QED BY <1>5, <1>6, <1>7 DEF Promise!PromiseNext

(* Settlement implements the promise: a commission is paid once and in      *)
(* full, and adjustments never take back more than was paid.                *)
THEOREM CommissionPromiseKept == Spec => KeepsCommissionPromise
<1>1. Init => Promise!PromiseInit
  <2>. SUFFICES ASSUME Init PROVE Promise!PromiseInit
    OBVIOUS
  <2>1. MovedTotals
    BY InvInit, TotalsKnown
  <2>2. \A o : PaidRows(o) = {} /\ BackRows(o) = {}
    BY DEF Init, TreasuryInit, NoRequest, Status, PaidRows, BackRows
  <2>3. \A o : SumFunctionOnSet(Moved, BackRows(o)) = 0
    BY <2>2, SumEmpty, Zenon
  <2>. QED BY <2>1, <2>2, <2>3 DEF MovedTotals, Promise!PromiseInit
<1>2. /\ IInv /\ IInv' /\ (Links /\ ReversalsWithinCommission)
      /\ (Links /\ ReversalsWithinCommission)' /\ [Next]_vars
      => [Promise!PromiseNext]_(Promise!promise)
  <2>. SUFFICES ASSUME IInv, IInv', Links, (Links /\ ReversalsWithinCommission)', [Next]_vars
                PROVE  [Promise!PromiseNext]_(Promise!promise)
    OBVIOUS
  <2>1. CASE \A q \in Reqs : ~Executed(q)
    BY <2>1, TotalsStay DEF Promise!promise
  <2>2. BackWithinPaid'
    BY NextTotals
  <2>3. ASSUME NEW r \in Reqs, Executed(r), UNCHANGED ibVars, \A q \in Reqs \ {r} : Same(q)
        PROVE  [Promise!PromiseNext]_(Promise!promise)
    BY <2>2, <2>3, ExecutedMoves
  <2>. QED BY <2>1, <2>3, OneExecuted DEF IInv
<1>. QED BY <1>1, <1>2, Invariant, LinkInvariant, PTL
         DEF Spec, KeepsCommissionPromise, Promise!PromiseSpec
=============================================================================
