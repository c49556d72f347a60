--------------------------- MODULE Trading_proofs ---------------------------
(***************************************************************************)
(* Theorems about Trading, for any number of positions, orders, panels and *)
(* symbols, and any limits.  What closes lots, what opens them and what    *)
(* brings them back is told apart by its effect on one position's counters;*)
(* money plays no part in it.  The balance is then followed by the four    *)
(* ways in which a step moves money.                                       *)
(***************************************************************************)
EXTENDS Trading, SumLemmas, TLAPS

OrderRow == [status : OrderStatus, qty : Nat, symbol : Symbols, lapsed : BOOLEAN, fills : Nat]
EditRow == [pk : Positions, qty : Nat]

LotsTyped ==
    /\ qty \in [Positions -> Nat] /\ opened \in [Positions -> Nat]
    /\ traded \in [Positions -> Nat] /\ revived \in [Positions -> Int]
OrdersTyped == order \in [Orders -> OrderRow]
EditsTyped == edit \in [Conns -> {NoEdit} \cup EditRow]

IInv == /\ LotsTyped /\ OrdersTyped /\ EditsTyped
        /\ status \in Statuses
        /\ LotsConserved /\ OrderFillsOnce

-----------------------------------------------------------------------------
(* The ways a step may treat the lots.                                      *)

LotsSame == UNCHANGED <<qty, opened, traded, revived>>

Opens == /\ status = "Activo"
         /\ \E p \in Positions, q \in Nat :
               /\ qty' = [qty EXCEPT ![p] = @ + q]
               /\ opened' = [opened EXCEPT ![p] = @ + q]
         /\ UNCHANGED <<traded, revived, status>>

Closes == /\ \E p \in Positions, q \in Nat :
                /\ q <= qty[p]
                /\ qty' = [qty EXCEPT ![p] = @ - q]
                /\ traded' = [traded EXCEPT ![p] = @ + q]
          /\ UNCHANGED <<opened, revived>>

Revives == /\ \E p \in Positions, q \in Nat :
                 /\ \E c \in Conns : edit[c] # NoEdit /\ edit[c].pk = p
                 /\ qty' = [qty EXCEPT ![p] = q]
                 /\ revived' = [revived EXCEPT ![p] = @ + q - qty[p]]
           /\ UNCHANGED <<opened, traded>>

Clears == /\ \E gone \in SUBSET Positions :
                /\ qty' = [p \in Positions |-> IF p \in gone THEN 0 ELSE qty[p]]
                /\ traded' = [p \in Positions |-> IF p \in gone THEN traded[p] + qty[p]
                                                  ELSE traded[p]]
          /\ UNCHANGED <<opened, revived>>

LotsStep == LotsSame \/ Opens \/ Closes \/ Revives \/ Clears

(* The account is suspended, keeps its status, or is found in breach.       *)
StatusStep == \/ status' = status \/ status' = "Suspendido"
              \/ status = "Activo" /\ status' = "Violado"

(* An edit reads a row that is there, or is over.                           *)
EditsStep ==
    \/ UNCHANGED edit
    \/ \E c \in Conns : edit' = [edit EXCEPT ![c] = NoEdit]
    \/ \E c \in Conns, p \in Rows : edit' = [edit EXCEPT ![c] = [pk |-> p, qty |-> qty[p]]]

Kept == LotsStep /\ StatusStep /\ EditsStep /\ OrdersTyped' /\ OrderFillsOnce'

LEMMA LotsKept == ASSUME IInv, LotsStep PROVE LotsTyped' /\ LotsConserved'
<1>t. /\ qty \in [Positions -> Nat] /\ opened \in [Positions -> Nat]
      /\ traded \in [Positions -> Nat] /\ revived \in [Positions -> Int]
      /\ \A p \in Positions : opened[p] + revived[p] = traded[p] + qty[p]
  BY DEF IInv, LotsTyped, LotsConserved
<1>1. CASE LotsSame
  BY <1>t, <1>1 DEF LotsSame, LotsTyped, LotsConserved
<1>2. CASE Opens
  BY <1>t, <1>2 DEF Opens, LotsTyped, LotsConserved
<1>3. CASE Closes
  BY <1>t, <1>3 DEF Closes, LotsTyped, LotsConserved
<1>4. CASE Revives
  BY <1>t, <1>4 DEF Revives, LotsTyped, LotsConserved
<1>5. CASE Clears
  BY <1>t, <1>5 DEF Clears, LotsTyped, LotsConserved
<1>. QED BY <1>1, <1>2, <1>3, <1>4, <1>5 DEF LotsStep

LEMMA InvInit == Init => IInv
<1>. SUFFICES ASSUME Init PROVE IInv
  OBVIOUS
<1>1. LotsTyped /\ LotsConserved
  BY DEF Init, LotsTyped, LotsConserved
<1>2. OrderFillsOnce
  BY DEF Init, OrderFillsOnce
<1>3. EditsTyped /\ status \in Statuses
  BY DEF Init, EditsTyped, Statuses
<1>4. (CHOOSE s \in Symbols : TRUE) \in Symbols
  BY TradingAssumption DEF TradingAssumption
<1>5. OrdersTyped
  BY <1>4 DEF Init, OrdersTyped, OrderRow, OrderStatus
<1>. QED BY <1>1, <1>2, <1>3, <1>5 DEF IInv

-----------------------------------------------------------------------------
(* Rows of pending orders.                                                  *)

LEMMA FillsKept ==
    ASSUME IInv, NEW o \in Orders, order' \in [Orders -> OrderRow],
           \A q \in Orders \ {o} : order'[q] = order[q],
           \/ /\ order'[o].fills = order[o].fills
              /\ order[o].status # "TRIGGERED" /\ order'[o].status # "TRIGGERED"
           \/ /\ order'[o].fills = order[o].fills
              /\ order'[o].status = order[o].status
           \/ /\ order'[o].fills = order[o].fills + 1
              /\ order[o].status # "TRIGGERED" /\ order'[o].status = "TRIGGERED"
    PROVE  OrdersTyped' /\ OrderFillsOnce'
  BY DEF IInv, OrdersTyped, OrderFillsOnce

LEMMA OrderTyped ==
    ASSUME IInv, NEW o \in Orders
    PROVE  order[o] \in OrderRow /\ order[o].qty \in Nat /\ order[o].fills \in Nat
           /\ order[o].symbol \in Symbols
  BY DEF IInv, OrdersTyped, OrderRow

(* A change of status that fills nothing.                                   *)
LEMMA StatusChange ==
    ASSUME IInv, NEW o \in Orders, order[o].status # "TRIGGERED",
           NEW st \in OrderStatus \ {"TRIGGERED"},
           order' = [order EXCEPT ![o].status = st]
    PROVE  OrdersTyped' /\ OrderFillsOnce'
<1>1. order \in [Orders -> OrderRow] /\ st \in OrderStatus
  BY DEF IInv, OrdersTyped
<1>2. order' \in [Orders -> OrderRow]
  BY <1>1, Zenon DEF OrderRow
<1>3. order'[o].fills = order[o].fills /\ order'[o].status = st
  BY <1>1 DEF OrderRow
<1>4. \A q \in Orders \ {o} : order'[q] = order[q]
  BY <1>1
<1>. QED BY <1>2, <1>3, <1>4, FillsKept

LEMMA OrdersSame == ASSUME IInv, UNCHANGED order PROVE OrdersTyped' /\ OrderFillsOnce'
  BY DEF IInv, OrdersTyped, OrderFillsOnce

LEMMA EditsKept == ASSUME IInv, EditsStep PROVE EditsTyped'
<1>t. edit \in [Conns -> {NoEdit} \cup EditRow] /\ qty \in [Positions -> Nat]
  BY DEF IInv, EditsTyped, LotsTyped
<1>1. CASE UNCHANGED edit
  BY <1>t, <1>1 DEF EditsTyped
<1>2. CASE \E c \in Conns : edit' = [edit EXCEPT ![c] = NoEdit]
  BY <1>t, <1>2, Zenon DEF EditsTyped
<1>3. CASE \E c \in Conns, p \in Rows : edit' = [edit EXCEPT ![c] = [pk |-> p, qty |-> qty[p]]]
  <2>1. PICK c \in Conns, p \in Rows : edit' = [edit EXCEPT ![c] = [pk |-> p, qty |-> qty[p]]]
    BY <1>3
  <2>2. [pk |-> p, qty |-> qty[p]] \in {NoEdit} \cup EditRow
    BY <1>t DEF EditRow, Rows
  <2>. QED BY <1>t, <2>1, <2>2 DEF EditsTyped
<1>. QED BY <1>1, <1>2, <1>3 DEF EditsStep

LEMMA PositionsSame == ASSUME UNCHANGED positions PROVE LotsStep
  BY DEF positions, LotsStep, LotsSame

(* A step that leaves positions, orders and edits alone.                    *)
LEMMA Elsewhere ==
    ASSUME IInv, UNCHANGED <<positions, order, edit>>, StatusStep
    PROVE  Kept
<1>1. LotsStep
  BY PositionsSame
<1>2. EditsStep
  BY DEF EditsStep
<1>. QED BY <1>1, <1>2, OrdersSame DEF Kept

(* A close of q lots, or of a row that is gone.                             *)
LEMMA CloseLotsStep ==
    ASSUME IInv, NEW p \in Positions, NEW q \in Nat, NEW px, CloseLots(p, q, px)
    PROVE  LotsStep /\ StatusStep
<1>1. LotsStep
  BY Zenon DEF CloseLots, LotsStep, Closes
<1>2. StatusStep
  BY Zenon DEF CloseLots, Settle, StatusStep
<1>. QED BY <1>1, <1>2

LEMMA CloseWholeStep ==
    ASSUME IInv, NEW p \in Positions, NEW px, CloseWhole(p, px)
    PROVE  LotsStep /\ StatusStep
<1>1. CASE CloseLots(p, qty[p], px)
  <2>1. qty[p] \in Nat
    BY DEF IInv, LotsTyped
  <2>. QED BY <1>1, <2>1, CloseLotsStep
<1>2. CASE UNCHANGED <<account, positions>>
  BY <1>2, PositionsSame DEF account, StatusStep
<1>. QED BY <1>1, <1>2 DEF CloseWhole

LEMMA OpenLotsStep ==
    ASSUME IInv, NEW s, NEW q \in Nat, MayOpen(s, q), \E p \in Positions : OpenLots(p, s, q)
    PROVE  LotsStep /\ StatusStep
<1>1. status = "Activo"
  BY DEF MayOpen
<1>. QED BY <1>1, Zenon DEF OpenLots, LotsStep, Opens, StatusStep

-----------------------------------------------------------------------------
(* The actions.                                                             *)

LEMMA LotsNat == Lots \subseteq Nat
  BY TradingAssumption DEF TradingAssumption, Lots

LEMMA OpeningStep ==
    ASSUME IInv, NEW c \in Conns, NEW s \in Symbols, NEW q \in Lots, OrderNew(c, s, q)
    PROVE  Kept
<1>1. MayOpen(s, q) /\ (\E p \in Positions : OpenLots(p, s, q)) /\ UNCHANGED <<order, edit>>
  BY DEF OrderNew
<1>2. LotsStep /\ StatusStep
  BY <1>1, LotsNat, OpenLotsStep
<1>3. EditsStep
  BY <1>1 DEF EditsStep
<1>. QED BY <1>1, <1>2, <1>3, OrdersSame DEF Kept

LEMMA PanelCloseStep ==
    ASSUME IInv, NEW c \in Conns, NEW p \in Positions,
           \/ \E q \in Lots : OrderClose(c, p, q)
           \/ CheckTpSl(c, p) \/ StopoutClose(c, p)
    PROVE  Kept
<1>1. UNCHANGED <<order, edit>>
  BY Zenon DEF OrderClose, CheckTpSl, StopoutClose
<1>2. CASE \E q \in Lots : OrderClose(c, p, q)
  <2>1. PICK q \in Lots : OrderClose(c, p, q)
    BY <1>2
  <2>2. CloseLots(p, q, mark) \/ UNCHANGED <<account, positions>>
    BY <2>1 DEF OrderClose
  <2>3. UNCHANGED <<account, positions>> => LotsStep /\ StatusStep
    BY PositionsSame DEF account, StatusStep
  <2>4. LotsStep /\ StatusStep
    BY <2>2, <2>3, LotsNat, CloseLotsStep
  <2>. QED BY <1>1, <2>4, OrdersSame DEF Kept, EditsStep
<1>3. CASE CheckTpSl(c, p) \/ StopoutClose(c, p)
  <2>1. LotsStep /\ StatusStep
    BY <1>3, CloseWholeStep DEF CheckTpSl, StopoutClose
  <2>. QED BY <1>1, <2>1, OrdersSame DEF Kept, EditsStep
<1>. QED BY <1>2, <1>3

LEMMA EditStep ==
    ASSUME IInv, NEW c \in Conns,
           (\E p \in Positions : ReadForEdit(c, p)) \/ SaveEdit(c)
    PROVE  Kept
<1>1. CASE \E p \in Positions : ReadForEdit(c, p)
  <2>1. PICK p \in Positions : ReadForEdit(c, p)
    BY <1>1
  <2>2. UNCHANGED <<account, positions, order>> /\ edit' = [edit EXCEPT ![c] = [pk |-> p, qty |-> qty[p]]]
    BY <2>1 DEF ReadForEdit
  <2>3. p \in Rows
    BY <2>1 DEF ReadForEdit, Rows
  <2>4. EditsStep
    BY <2>2, <2>3 DEF EditsStep
  <2>5. StatusStep
    BY <2>2 DEF account, StatusStep
  <2>. QED BY <2>2, <2>4, <2>5, PositionsSame, OrdersSame DEF Kept
<1>2. CASE SaveEdit(c)
  <2>1. edit[c].pk \in Positions /\ edit[c].qty \in Nat
    BY <1>2 DEF SaveEdit, IInv, EditsTyped, EditRow
  <2>2. /\ qty' = [qty EXCEPT ![edit[c].pk] = edit[c].qty]
        /\ revived' = [revived EXCEPT ![edit[c].pk] = @ + edit[c].qty - qty[edit[c].pk]]
        /\ UNCHANGED <<account, opened, traded, order>>
        /\ edit[c] # NoEdit /\ edit' = [edit EXCEPT ![c] = NoEdit]
    BY <1>2 DEF SaveEdit
  <2>3. LotsStep
    BY <2>1, <2>2, Zenon DEF LotsStep, Revives
  <2>4. EditsStep
    BY <2>2 DEF EditsStep
  <2>5. StatusStep
    BY <2>2 DEF account, StatusStep
  <2>. QED BY <2>2, <2>3, <2>4, <2>5, OrdersSame DEF Kept
<1>. QED BY <1>1, <1>2

LEMMA PanelStep == ASSUME IInv, NEW c \in Conns, PanelNext(c) PROVE Kept
<1>1. CASE (\E p \in Positions : StopoutSkip(c, p)) \/ BeginStopout(c)
           \/ (\E s \in Statuses : PositionChanged(c, s)) \/ RefreshPositions(c)
  <2>1. UNCHANGED <<account, positions, order, edit>>
    BY <1>1, Zenon DEF StopoutSkip, BeginStopout, PositionChanged, RefreshPositions
  <2>2. StatusStep
    BY <2>1 DEF account, StatusStep
  <2>. QED BY <2>1, <2>2, Elsewhere
<1>2. CASE EndStopout(c)
  <2>1. UNCHANGED <<positions, order, edit>>
    BY <1>2, Zenon DEF EndStopout
  <2>2. StatusStep
    BY <1>2, Zenon DEF EndStopout, StatusStep
  <2>. QED BY <2>1, <2>2, Elsewhere
<1>3. CASE \E s \in Symbols : RefuseOrder(c, s)
  <2>1. UNCHANGED <<positions, order, edit>>
    BY <1>3, Zenon DEF RefuseOrder
  <2>2. StatusStep
    BY <1>3, Zenon DEF RefuseOrder, StatusStep
  <2>. QED BY <2>1, <2>2, Elsewhere
<1>4. CASE Reconnect(c)
  <2>1. UNCHANGED <<account, positions, order>> /\ edit' = [edit EXCEPT ![c] = NoEdit]
    BY <1>4 DEF Reconnect
  <2>2. EditsStep
    BY <2>1 DEF EditsStep
  <2>3. StatusStep
    BY <2>1 DEF account, StatusStep
  <2>. QED BY <2>1, <2>2, <2>3, PositionsSame, OrdersSame DEF Kept
<1>. QED BY <1>1, <1>2, <1>3, <1>4, OpeningStep, PanelCloseStep, EditStep DEF PanelNext

LEMMA PendingStep == ASSUME IInv, NEW o \in Orders, OrderNext(o) PROVE Kept
<1>e. UNCHANGED edit
  BY Zenon DEF OrderNext, CreatePending, UpdatePending, CancelPending, Lapse, ExpirePending,
               RejectPending, TriggerPending, pendingUnchanged, panels
<1>t. order \in [Orders -> OrderRow]
  BY DEF IInv, OrdersTyped
<1>q. ASSUME UNCHANGED <<account, positions>>, OrdersTyped' /\ OrderFillsOnce' PROVE Kept
  <2>1. StatusStep
    BY <1>q DEF account, StatusStep
  <2>. QED BY <1>e, <1>q, <2>1, PositionsSame DEF Kept, EditsStep
<1>1. ASSUME NEW s \in Symbols, NEW q \in Lots, CreatePending(o, s, q) PROVE Kept
  <2>1. /\ order[o].status = "none" /\ UNCHANGED <<account, positions>>
        /\ order' = [order EXCEPT ![o] = [@ EXCEPT !.status = "PENDING", !.symbol = s, !.qty = q]]
    BY <1>1 DEF CreatePending
  <2>2. q \in Nat /\ "PENDING" \in OrderStatus
    BY LotsNat DEF OrderStatus
  <2>3. order' \in [Orders -> OrderRow]
    BY <1>t, <2>1, <2>2, Zenon DEF OrderRow
  <2>4. order'[o].fills = order[o].fills /\ order'[o].status = "PENDING"
    BY <1>t, <2>1 DEF OrderRow
  <2>5. \A k \in Orders \ {o} : order'[k] = order[k]
    BY <1>t, <2>1
  <2>. QED BY <1>q, <2>1, <2>3, <2>4, <2>5, FillsKept
<1>2. ASSUME NEW q \in Lots, UpdatePending(o, q) PROVE Kept
  <2>1. order' = [order EXCEPT ![o].qty = q] /\ UNCHANGED <<account, positions>>
    BY <1>2 DEF UpdatePending
  <2>2. q \in Nat
    BY LotsNat
  <2>3. order' \in [Orders -> OrderRow]
    BY <1>t, <2>1, <2>2, Zenon DEF OrderRow
  <2>4. order'[o].fills = order[o].fills /\ order'[o].status = order[o].status
    BY <1>t, <2>1 DEF OrderRow
  <2>5. \A k \in Orders \ {o} : order'[k] = order[k]
    BY <1>t, <2>1
  <2>. QED BY <1>q, <2>1, <2>3, <2>4, <2>5, FillsKept
<1>3. CASE CancelPending(o) \/ ExpirePending(o) \/ RejectPending(o)
  <2>1. /\ order[o].status = "PENDING" /\ UNCHANGED <<account, positions>>
        /\ \E st \in {"CANCELLED", "EXPIRED", "REJECTED"} : order' = [order EXCEPT ![o].status = st]
    BY <1>3 DEF CancelPending, ExpirePending, RejectPending
  <2>2. {"CANCELLED", "EXPIRED", "REJECTED"} \subseteq OrderStatus \ {"TRIGGERED"}
    BY DEF OrderStatus
  <2>3. OrdersTyped' /\ OrderFillsOnce'
    BY <2>1, <2>2, StatusChange
  <2>. QED BY <1>q, <2>1, <2>3
<1>4. CASE Lapse(o)
  <2>1. order' = [order EXCEPT ![o].lapsed = TRUE] /\ UNCHANGED <<account, positions>>
    BY <1>4 DEF Lapse
  <2>2. TRUE \in BOOLEAN
    OBVIOUS
  <2>3. order' \in [Orders -> OrderRow]
    BY <1>t, <2>1, <2>2, Zenon DEF OrderRow
  <2>4. order'[o].fills = order[o].fills /\ order'[o].status = order[o].status
    BY <1>t, <2>1 DEF OrderRow
  <2>5. \A k \in Orders \ {o} : order'[k] = order[k]
    BY <1>t, <2>1
  <2>. QED BY <1>q, <2>1, <2>3, <2>4, <2>5, FillsKept
<1>5. CASE TriggerPending(o)
  <2>1. /\ order[o].status = "PENDING"
        /\ MayOpen(order[o].symbol, order[o].qty)
        /\ \E p \in Positions : OpenLots(p, order[o].symbol, order[o].qty)
        /\ order' = [order EXCEPT ![o].status = "TRIGGERED", ![o].fills = @ + 1]
    BY <1>5 DEF TriggerPending
  <2>2. LotsStep /\ StatusStep
    BY <2>1, OrderTyped, OpenLotsStep
  <2>3. "TRIGGERED" \in OrderStatus /\ order[o].fills + 1 \in Nat
    BY OrderTyped DEF OrderStatus
  <2>4. order' \in [Orders -> OrderRow]
    BY <1>t, <2>1, <2>3, Zenon DEF OrderRow
  <2>5. order'[o].fills = order[o].fills + 1 /\ order'[o].status = "TRIGGERED"
    BY <1>t, <2>1 DEF OrderRow
  <2>6. \A k \in Orders \ {o} : order'[k] = order[k]
    BY <1>t, <2>1
  <2>7. OrdersTyped' /\ OrderFillsOnce'
    BY <2>1, <2>4, <2>5, <2>6, FillsKept
  <2>. QED BY <1>e, <2>2, <2>7 DEF Kept, EditsStep
<1>. QED BY <1>1, <1>2, <1>3, <1>4, <1>5 DEF OrderNext

LEMMA DaemonStep == ASSUME IInv, DaemonNext PROVE Kept
<1>1. UNCHANGED <<order, edit>>
  BY Zenon DEF DaemonNext, DaemonScan, DaemonEnd, DaemonStops, DaemonClose, DaemonSkip, panels
<1>2. CASE DaemonScan \/ DaemonStops \/ \E p \in Positions : DaemonSkip(p)
  <2>1. UNCHANGED <<account, positions>>
    BY <1>2, Zenon DEF DaemonScan, DaemonStops, DaemonSkip
  <2>2. StatusStep
    BY <2>1 DEF account, StatusStep
  <2>. QED BY <1>1, <2>1, <2>2, Elsewhere
<1>3. CASE DaemonEnd
  <2>1. UNCHANGED positions
    BY <1>3, Zenon DEF DaemonEnd
  <2>2. StatusStep
    BY <1>3, Zenon DEF DaemonEnd, StatusStep
  <2>. QED BY <1>1, <2>1, <2>2, Elsewhere
<1>4. ASSUME NEW p \in Positions, DaemonClose(p) PROVE Kept
  <2>1. LotsStep /\ StatusStep
    BY <1>4, CloseWholeStep DEF DaemonClose
  <2>. QED BY <1>1, <2>1, OrdersSame DEF Kept, EditsStep
<1>. QED BY <1>2, <1>3, <1>4 DEF DaemonNext

LEMMA ForceCloseStep ==
    ASSUME IInv, NEW ss \in SUBSET Symbols, NEW m, ForceClose(ss, m)
    PROVE  Kept
<1>. DEFINE gone == {p \in Rows : symbolOf[p] \in ss}
<1>1. /\ qty' = [p \in Positions |-> IF p \in gone THEN 0 ELSE qty[p]]
      /\ traded' = [p \in Positions |-> IF p \in gone THEN traded[p] + qty[p] ELSE traded[p]]
      /\ UNCHANGED <<opened, revived, status, order>> /\ UNCHANGED edit
  BY Zenon DEF ForceClose, panels
<1>2. gone \in SUBSET Positions
  BY DEF Rows
<1>3. LotsStep
  BY <1>1, <1>2, Zenon DEF LotsStep, Clears
<1>. QED BY <1>1, <1>3, OrdersSame DEF Kept, EditsStep, StatusStep

LEMMA NextStep == ASSUME IInv, [Next]_vars PROVE Kept
<1>1. CASE \E s \in Symbols : Tick(s)
  <2>1. UNCHANGED <<account, positions, order, edit>>
    BY <1>1, Zenon DEF Tick, panels
  <2>2. StatusStep
    BY <2>1 DEF account, StatusStep
  <2>. QED BY <2>1, <2>2, Elsewhere
<1>2. CASE UNCHANGED vars
  <2>1. UNCHANGED <<account, positions, order, edit>>
    BY <1>2, Zenon DEF vars, panels
  <2>2. StatusStep
    BY <2>1 DEF account, StatusStep
  <2>. QED BY <2>1, <2>2, Elsewhere
<1>. QED BY <1>1, <1>2, PanelStep, PendingStep, DaemonStep, ForceCloseStep DEF Next

THEOREM Invariant == Spec => []IInv
<1>1. IInv /\ [Next]_vars => IInv'
  BY NextStep, LotsKept, EditsKept DEF IInv, Kept, StatusStep, Statuses
<1>. QED BY <1>1, InvInit, PTL DEF Spec

-----------------------------------------------------------------------------
(* Money.  What a close books is an amount only if the price it uses is one:*)
(* each position that a scan has still to close had a price when the scan   *)
(* read them, and its symbol is the same since, because a row that was ever *)
(* opened keeps its symbol.                                                 *)

Quotes == [Symbols -> Marks \cup {Unpriced}]

LedgerTyped == /\ balance \in Int
               /\ ledger \in [realized : Int, charged : Nat, shortfall : Nat]

QuotesTyped ==
    /\ symbolOf \in [Positions -> Symbols] /\ mark \in Quotes
    /\ daemon \in [mode : {"idle", "stopout", "tpsl"}, todo : SUBSET Positions, px : Quotes]

EverOpened == /\ \A p \in Positions : qty[p] > 0 => opened[p] > 0
              /\ \A c \in Conns : edit[c] # NoEdit => opened[edit[c].pk] > 0

TodoPriced == \A p \in daemon.todo : opened[p] > 0 /\ daemon.px[symbolOf[p]] # Unpriced

QInv == QuotesTyped /\ EverOpened /\ TodoPriced
MInv == LedgerTyped /\ QInv /\ BalanceIsLedger

(* The ways a step may treat the money.                                     *)
MoneySame == UNCHANGED <<balance, ledger>>

Charges == /\ balance' = balance - Commission
           /\ ledger' = [ledger EXCEPT !.charged = @ + Commission]

Settles == \E pnl \in Int :
              /\ balance' = Max({balance + pnl, 0})
              /\ ledger' = [ledger EXCEPT !.realized = @ + pnl,
                                          !.shortfall = @ + Max({-(balance + pnl), 0})]

Forces == \E pnl \in Int :
             /\ balance' = balance + pnl
             /\ ledger' = [ledger EXCEPT !.realized = @ + pnl]

MoneyStep == MoneySame \/ Charges \/ Settles \/ Forces

LEMMA MaxOfTwo ==
    ASSUME NEW a \in Int, NEW b \in Int
    PROVE  Max({a, b}) = IF a >= b THEN a ELSE b
<1>1. \E x \in {a, b} : \A y \in {a, b} : x >= y
  OBVIOUS
<1>2. Max({a, b}) \in {a, b} /\ \A y \in {a, b} : Max({a, b}) >= y
  BY <1>1 DEF Max
<1>. QED BY <1>2

(* The floor of a close and the shortfall it records make up its result.    *)
LEMMA FloorAndShortfall ==
    ASSUME NEW b \in Int
    PROVE  /\ Max({b, 0}) \in Int /\ Max({-b, 0}) \in Nat
           /\ Max({b, 0}) = b + Max({-b, 0})
<1>1. Max({b, 0}) = IF b >= 0 THEN b ELSE 0
  BY MaxOfTwo
<1>2. Max({-b, 0}) = IF -b >= 0 THEN -b ELSE 0
  BY MaxOfTwo
<1>. QED BY <1>1, <1>2

LEMMA MoneyKept ==
    ASSUME LedgerTyped, BalanceIsLedger, MoneyStep
    PROVE  LedgerTyped' /\ BalanceIsLedger'
<1>t. /\ balance \in Int
      /\ ledger \in [realized : Int, charged : Nat, shortfall : Nat]
      /\ ledger.realized \in Int /\ ledger.charged \in Nat /\ ledger.shortfall \in Nat
      /\ balance = InitialBalance + ledger.realized - ledger.charged + ledger.shortfall
  BY DEF LedgerTyped, BalanceIsLedger
<1>c. InitialBalance \in Nat /\ Commission \in Nat
  BY TradingAssumption DEF TradingAssumption
<1>. SUFFICES /\ balance' \in Int
              /\ ledger' \in [realized : Int, charged : Nat, shortfall : Nat]
              /\ balance' = InitialBalance + ledger'.realized - ledger'.charged + ledger'.shortfall
  BY DEF LedgerTyped, BalanceIsLedger
<1>1. CASE MoneySame
  BY <1>t, <1>1 DEF MoneySame
<1>2. CASE Charges
  BY <1>t, <1>c, <1>2 DEF Charges
<1>3. CASE Settles
  <2>1. PICK pnl \in Int :
           /\ balance' = Max({balance + pnl, 0})
           /\ ledger' = [ledger EXCEPT !.realized = @ + pnl,
                                       !.shortfall = @ + Max({-(balance + pnl), 0})]
    BY <1>3 DEF Settles
  <2>2. balance + pnl \in Int
    BY <1>t
  <2>3. PICK short \in Nat : short = Max({-(balance + pnl), 0})
    BY <2>2, FloorAndShortfall
  <2>4. balance' \in Int /\ balance' = balance + pnl + short
    BY <2>1, <2>2, <2>3, FloorAndShortfall
  <2>5. ledger' = [ledger EXCEPT !.realized = @ + pnl, !.shortfall = @ + short]
    BY <2>1, <2>3
  <2>a. PICK r \in Int, f \in Nat : r = ledger.realized + pnl /\ f = ledger.shortfall + short
    BY <1>t
  <2>b. ledger' = [ledger EXCEPT !.realized = r, !.shortfall = f]
    BY <2>5, <2>a, Zenon
  <2>6. /\ ledger' \in [realized : Int, charged : Nat, shortfall : Nat]
        /\ ledger'.realized = ledger.realized + pnl
        /\ ledger'.charged = ledger.charged
        /\ ledger'.shortfall = ledger.shortfall + short
    BY <1>t, <2>a, <2>b
  <2>7. balance + pnl + short
          = InitialBalance + (ledger.realized + pnl) - ledger.charged + (ledger.shortfall + short)
    BY <1>t, <1>c
  <2>. QED BY <2>4, <2>6, <2>7
<1>4. CASE Forces
  BY <1>t, <1>c, <1>4 DEF Forces
<1>. QED BY <1>1, <1>2, <1>3, <1>4 DEF MoneyStep

(* The ways a step may treat what amounts are told by.                      *)
SymbolsStep == /\ symbolOf' \in [Positions -> Symbols]
               /\ \A p \in Positions : opened[p] > 0 => symbolOf'[p] = symbolOf[p]

ScanStep ==
    /\ daemon' \in [mode : {"idle", "stopout", "tpsl"}, todo : SUBSET Positions, px : Quotes]
    /\ \/ daemon'.todo \subseteq daemon.todo /\ daemon'.px = daemon.px
       \/ daemon'.todo \subseteq Rows /\ Priced(daemon'.px, daemon'.todo)

Booked == MoneyStep /\ SymbolsStep /\ ScanStep /\ mark' \in Quotes

LEMMA OpenedStays ==
    ASSUME IInv, LotsStep PROVE \A p \in Positions : opened[p] > 0 => opened'[p] > 0
  BY DEF IInv, LotsTyped, LotsStep, LotsSame, Opens, Closes, Revives, Clears

LEMMA OpenedKept ==
    ASSUME IInv, EverOpened, LotsStep, EditsStep PROVE EverOpened'
<1>t. /\ qty \in [Positions -> Nat] /\ opened \in [Positions -> Nat]
      /\ edit \in [Conns -> {NoEdit} \cup EditRow]
      /\ \A c \in Conns : edit[c] # NoEdit => edit[c].pk \in Positions /\ opened[edit[c].pk] > 0
      /\ \A p \in Positions : qty[p] > 0 => opened[p] > 0
  BY DEF IInv, LotsTyped, EditsTyped, EditRow, EverOpened
<1>o. \A p \in Positions : opened[p] > 0 => opened'[p] > 0
  BY OpenedStays
<1>e. ASSUME NEW c \in Conns, edit'[c] # NoEdit PROVE opened'[edit'[c].pk] > 0
  <2>1. CASE edit'[c] = edit[c]
    BY <1>t, <1>o, <1>e, <2>1
  <2>2. CASE \E p \in Rows : edit'[c] = [pk |-> p, qty |-> qty[p]]
    BY <1>t, <1>o, <2>2 DEF Rows
  <2>3. edit'[c] = edit[c] \/ \E p \in Rows : edit'[c] = [pk |-> p, qty |-> qty[p]]
    BY <1>t, <1>e, Zenon DEF EditsStep
  <2>. QED BY <2>1, <2>2, <2>3
<1>r. \A p \in Positions : qty'[p] > 0 => opened'[p] > 0
  <2>1. CASE LotsSame
    BY <1>t, <2>1 DEF LotsSame
  <2>2. CASE Opens
    BY <1>t, <2>2 DEF Opens
  <2>3. CASE Closes
    BY <1>t, <2>3 DEF Closes
  <2>4. CASE Revives
    BY <1>t, <2>4 DEF Revives
  <2>5. CASE Clears
    BY <1>t, <2>5 DEF Clears
  <2>. QED BY <2>1, <2>2, <2>3, <2>4, <2>5 DEF LotsStep
<1>. QED BY <1>e, <1>r DEF EverOpened

LEMMA TodoKept ==
    ASSUME IInv, QInv, LotsStep, SymbolsStep, ScanStep PROVE TodoPriced'
<1>t. /\ opened \in [Positions -> Nat] /\ daemon.todo \subseteq Positions
      /\ \A p \in Positions : qty[p] > 0 => opened[p] > 0
      /\ \A p \in daemon.todo : opened[p] > 0 /\ daemon.px[symbolOf[p]] # Unpriced
  BY DEF IInv, LotsTyped, QInv, EverOpened, TodoPriced, QuotesTyped
<1>o. \A p \in Positions : opened[p] > 0 => opened'[p] > 0
  BY OpenedStays
<1>s. \A p \in Positions : opened[p] > 0 => symbolOf'[p] = symbolOf[p]
  BY DEF SymbolsStep
<1>1. CASE daemon'.todo \subseteq daemon.todo /\ daemon'.px = daemon.px
  BY <1>t, <1>o, <1>s, <1>1 DEF TodoPriced
<1>2. CASE daemon'.todo \subseteq Rows /\ Priced(daemon'.px, daemon'.todo)
  BY <1>t, <1>o, <1>s, <1>2 DEF TodoPriced, Rows, Priced
<1>. QED BY <1>1, <1>2 DEF ScanStep

LEMMA MoneyInvKept == ASSUME IInv, MInv, LotsStep, EditsStep, Booked PROVE MInv'
<1>1. LedgerTyped' /\ BalanceIsLedger'
  BY MoneyKept DEF MInv, Booked
<1>2. EverOpened' /\ TodoPriced'
  BY OpenedKept, TodoKept DEF MInv, QInv, Booked
<1>3. QuotesTyped'
  BY DEF Booked, SymbolsStep, ScanStep, QuotesTyped
<1>. QED BY <1>1, <1>2, <1>3 DEF MInv, QInv

-----------------------------------------------------------------------------
(* What opens and what closes lots.                                         *)

LEMMA SymbolsSame == ASSUME QInv, UNCHANGED symbolOf PROVE SymbolsStep
  BY DEF QInv, QuotesTyped, SymbolsStep

LEMMA ScanSame == ASSUME QInv, UNCHANGED daemon PROVE ScanStep
  BY DEF QInv, QuotesTyped, ScanStep

(* New lots go to a row never used before, or to one of their symbol.       *)
LEMMA OpenLotsMoney ==
    ASSUME IInv, QInv, NEW s \in Symbols, NEW q, NEW p \in Positions, OpenLots(p, s, q)
    PROVE  MoneyStep /\ SymbolsStep
<1>1. symbolOf' = [symbolOf EXCEPT ![p] = s] /\ GoesTo(s, p)
  BY DEF OpenLots
<1>2. opened[p] = 0 \/ symbolOf[p] = s
  BY <1>1 DEF GoesTo, IsNextKey, Existing
<1>3. SymbolsStep
  BY <1>1, <1>2 DEF SymbolsStep, QInv, QuotesTyped
<1>4. MoneyStep
  BY DEF OpenLots, MoneyStep, Charges
<1>. QED BY <1>3, <1>4

LEMMA CloseLotsMoney ==
    ASSUME QInv, NEW p \in Positions, NEW q \in Nat, NEW px, px[symbolOf[p]] \in Int,
           CloseLots(p, q, px)
    PROVE  MoneyStep /\ SymbolsStep
<1>1. PICK pnl \in Int : pnl = q * px[symbolOf[p]]
  OBVIOUS
<1>2. Settle(pnl) /\ UNCHANGED symbolOf
  BY <1>1 DEF CloseLots
<1>3. MoneyStep
  BY <1>2, Zenon DEF Settle, MoneyStep, Settles
<1>. QED BY <1>2, <1>3, SymbolsSame

LEMMA CloseWholeMoney ==
    ASSUME IInv, QInv, NEW p \in Positions, NEW px, px[symbolOf[p]] \in Int, CloseWhole(p, px)
    PROVE  MoneyStep /\ SymbolsStep
<1>1. CASE CloseLots(p, qty[p], px)
  <2>1. qty[p] \in Nat
    BY DEF IInv, LotsTyped
  <2>. QED BY <1>1, <2>1, CloseLotsMoney
<1>2. CASE UNCHANGED <<account, positions>>
  BY <1>2, SymbolsSame DEF account, positions, MoneyStep, MoneySame
<1>. QED BY <1>1, <1>2 DEF CloseWhole

(* A price that is there is an integer.                                     *)
LEMMA PriceInt ==
    ASSUME QInv, NEW p \in Positions, NEW px \in Quotes, px[symbolOf[p]] # Unpriced
    PROVE  px[symbolOf[p]] \in Int
<1>1. px[symbolOf[p]] \in Marks \cup {Unpriced}
  BY DEF QInv, QuotesTyped, Quotes
<1>. QED BY <1>1, TradingAssumption DEF TradingAssumption

LEMMA MarkIsQuotes == QInv => mark \in Quotes
  BY DEF QInv, QuotesTyped

-----------------------------------------------------------------------------
(* The actions, for the money.                                              *)

LEMMA NothingBooked ==
    ASSUME QInv, UNCHANGED <<balance, ledger, symbolOf>>, ScanStep, mark' \in Quotes
    PROVE  Booked
  BY SymbolsSame DEF Booked, MoneyStep, MoneySame

LEMMA CloseByPanel ==
    ASSUME IInv, QInv, NEW c \in Conns, NEW p \in Positions,
           \/ \E q \in Lots : OrderClose(c, p, q)
           \/ CheckTpSl(c, p) \/ StopoutClose(c, p)
    PROVE  Booked
<1>1. UNCHANGED <<daemon, mark>> /\ mark[symbolOf[p]] # Unpriced
  BY Zenon DEF OrderClose, CheckTpSl, StopoutClose
<1>2. mark[symbolOf[p]] \in Int
  BY <1>1, MarkIsQuotes, PriceInt
<1>3. MoneyStep /\ SymbolsStep
  <2>1. CASE \E q \in Lots : OrderClose(c, p, q)
    <3>1. PICK q \in Lots : OrderClose(c, p, q)
      BY <2>1
    <3>2. CloseLots(p, q, mark) \/ UNCHANGED <<account, positions>>
      BY <3>1 DEF OrderClose
    <3>3. UNCHANGED <<account, positions>> => MoneyStep /\ SymbolsStep
      BY SymbolsSame DEF account, positions, MoneyStep, MoneySame
    <3>. QED BY <1>2, <3>2, <3>3, LotsNat, CloseLotsMoney
  <2>2. CASE CheckTpSl(c, p) \/ StopoutClose(c, p)
    BY <1>2, <2>2, CloseWholeMoney DEF CheckTpSl, StopoutClose
  <2>. QED BY <2>1, <2>2
<1>. QED BY <1>1, <1>3, ScanSame, MarkIsQuotes DEF Booked

LEMMA EditMoney ==
    ASSUME QInv, NEW c \in Conns,
           (\E p \in Positions : ReadForEdit(c, p)) \/ SaveEdit(c) \/ Reconnect(c)
    PROVE  Booked
<1>1. UNCHANGED <<account, symbolOf, mark, daemon>>
  BY Zenon DEF ReadForEdit, SaveEdit, Reconnect, positions
<1>2. MoneyStep
  BY <1>1 DEF account, MoneyStep, MoneySame
<1>. QED BY <1>1, <1>2, SymbolsSame, ScanSame, MarkIsQuotes DEF Booked

LEMMA PanelMoney == ASSUME IInv, QInv, NEW c \in Conns, PanelNext(c) PROVE Booked
<1>1. CASE \/ \E p \in Positions : StopoutSkip(c, p)
           \/ BeginStopout(c) \/ EndStopout(c)
           \/ \E s \in Statuses : PositionChanged(c, s)
           \/ RefreshPositions(c)
           \/ \E s \in Symbols : RefuseOrder(c, s)
  <2>1. UNCHANGED <<balance, ledger, symbolOf, mark, daemon>>
    BY <1>1, Zenon DEF RefuseOrder, StopoutSkip, BeginStopout, EndStopout, PositionChanged, RefreshPositions,
                       account, positions
  <2>. QED BY <2>1, ScanSame, MarkIsQuotes, NothingBooked
<1>2. ASSUME NEW s \in Symbols, NEW q \in Lots, OrderNew(c, s, q) PROVE Booked
  <2>1. PICK p \in Positions : OpenLots(p, s, q)
    BY <1>2 DEF OrderNew
  <2>2. UNCHANGED <<mark, daemon>>
    BY <1>2 DEF OrderNew
  <2>. QED BY <2>1, <2>2, OpenLotsMoney, ScanSame, MarkIsQuotes DEF Booked
<1>. QED BY <1>1, <1>2, CloseByPanel, EditMoney DEF PanelNext

LEMMA PendingMoney == ASSUME IInv, QInv, NEW o \in Orders, OrderNext(o) PROVE Booked
<1>1. UNCHANGED <<mark, daemon>>
  BY Zenon DEF OrderNext, CreatePending, UpdatePending, CancelPending, Lapse, ExpirePending,
               RejectPending, TriggerPending, pendingUnchanged, panels
<1>2. CASE TriggerPending(o)
  <2>1. PICK p \in Positions : OpenLots(p, order[o].symbol, order[o].qty)
    BY <1>2 DEF TriggerPending
  <2>2. MoneyStep /\ SymbolsStep
    BY <2>1, OrderTyped, OpenLotsMoney
  <2>. QED BY <1>1, <2>2, ScanSame, MarkIsQuotes DEF Booked
<1>3. CASE ~ TriggerPending(o)
  <2>1. UNCHANGED <<account, positions>>
    BY <1>3, Zenon DEF OrderNext, CreatePending, UpdatePending, CancelPending, Lapse,
                       ExpirePending, RejectPending
  <2>2. UNCHANGED <<balance, ledger, symbolOf>>
    BY <2>1 DEF account, positions
  <2>. QED BY <1>1, <2>2, ScanSame, MarkIsQuotes, NothingBooked
<1>. QED BY <1>2, <1>3

LEMMA DaemonMoney == ASSUME IInv, QInv, DaemonNext PROVE Booked
<1>t. /\ daemon \in [mode : {"idle", "stopout", "tpsl"}, todo : SUBSET Positions, px : Quotes]
      /\ mark \in Quotes
  BY DEF QInv, QuotesTyped
<1>1. UNCHANGED mark
  BY Zenon DEF DaemonNext, DaemonScan, DaemonEnd, DaemonStops, DaemonClose, DaemonSkip, panels
<1>2. CASE DaemonScan
  <2>1. UNCHANGED <<balance, ledger, symbolOf>>
    BY <1>2 DEF DaemonScan, account, positions
  <2>2. \E md \in {"stopout", "tpsl"}, ps \in SUBSET Rows :
           Priced(mark, ps) /\ daemon' = [mode |-> md, todo |-> ps, px |-> mark]
    <3>1. CASE Priced(mark, Rows) /\ Underwater(qty, mark)
      BY <1>2, <3>1 DEF DaemonScan
    <3>2. CASE ~(Priced(mark, Rows) /\ Underwater(qty, mark))
      BY <1>2, <3>2 DEF DaemonScan, Priced
    <3>. QED BY <3>1, <3>2
  <2>3. Rows \subseteq Positions
    BY DEF Rows
  <2>4. ScanStep
    BY <1>t, <2>2, <2>3 DEF ScanStep
  <2>. QED BY <1>t, <1>1, <2>1, <2>4, NothingBooked
<1>3. CASE DaemonEnd \/ DaemonStops
  <2>1. UNCHANGED <<balance, ledger, symbolOf>> /\ daemon' = Idle
    BY <1>3 DEF DaemonEnd, DaemonStops, account, positions
  <2>2. Idle.px \in Quotes /\ Idle.todo = {} /\ Idle.mode = "idle"
    BY DEF Idle, Quotes
  <2>3. ScanStep
    BY <2>1, <2>2 DEF ScanStep, Idle, Priced
  <2>. QED BY <1>t, <1>1, <2>1, <2>3, NothingBooked
<1>4. ASSUME NEW p \in Positions, DaemonClose(p) \/ DaemonSkip(p) PROVE Booked
  <2>1. daemon' = [daemon EXCEPT !.todo = @ \ {p}] /\ p \in daemon.todo
    BY <1>4 DEF DaemonClose, DaemonSkip, First
  <2>2. ScanStep
    BY <1>t, <2>1 DEF ScanStep
  <2>3. MoneyStep /\ SymbolsStep
    <3>1. CASE DaemonClose(p)
      <4>1. daemon.px \in Quotes /\ daemon.px[symbolOf[p]] # Unpriced
        BY <1>t, <2>1 DEF QInv, TodoPriced
      <4>2. daemon.px[symbolOf[p]] \in Int
        BY <4>1, PriceInt
      <4>. QED BY <3>1, <4>2, CloseWholeMoney DEF DaemonClose
    <3>2. CASE DaemonSkip(p)
      BY <3>2, SymbolsSame DEF DaemonSkip, account, positions, MoneyStep, MoneySame
    <3>. QED BY <1>4, <3>1, <3>2
  <2>. QED BY <1>t, <1>1, <2>2, <2>3 DEF Booked
<1>. QED BY <1>2, <1>3, <1>4 DEF DaemonNext

LEMMA ForceCloseMoney ==
    ASSUME IInv, QInv, NEW ss \in SUBSET Symbols, NEW m \in Marks \cup {0}, ForceClose(ss, m)
    PROVE  Booked
<1>. DEFINE gone == {p \in Rows : symbolOf[p] \in ss}
            f == [p \in Positions |-> qty[p] * m]
            pnl == SumFunctionOnSet(f, gone)
<1>1. /\ balance' = balance + pnl /\ ledger' = [ledger EXCEPT !.realized = @ + pnl]
      /\ UNCHANGED <<symbolOf, mark, daemon>>
  BY Zenon DEF ForceClose, panels
<1>2. m \in Int /\ qty \in [Positions -> Nat] /\ IsFiniteSet(Positions)
  BY TradingAssumption DEF TradingAssumption, IInv, LotsTyped
<1>3. \A p \in Positions : f[p] \in Int
  BY <1>2
<1>4. gone \in SUBSET Positions
  BY DEF Rows
<1>5. pnl \in Int
  <2>. HIDE DEF f, gone
  <2>. QED BY <1>2, <1>3, <1>4, SumType
<1>6. MoneyStep
  BY <1>1, <1>5, Zenon DEF MoneyStep, Forces
<1>. QED BY <1>1, <1>6, SymbolsSame, ScanSame, MarkIsQuotes DEF Booked

LEMMA NextMoney == ASSUME IInv, QInv, [Next]_vars PROVE Booked
<1>1. CASE \E s \in Symbols : Tick(s)
  <2>1. PICK s \in Symbols : Tick(s)
    BY <1>1
  <2>2. UNCHANGED <<balance, ledger, symbolOf, daemon>>
    BY <2>1 DEF Tick, account, positions, panels
  <2>3. mark' \in Quotes
    BY <2>1, MarkIsQuotes DEF Tick, Quotes
  <2>. QED BY <2>2, <2>3, ScanSame, NothingBooked
<1>2. CASE UNCHANGED vars
  <2>1. UNCHANGED <<balance, ledger, symbolOf, daemon, mark>>
    BY <1>2 DEF vars, account, positions, panels
  <2>. QED BY <2>1, ScanSame, MarkIsQuotes, NothingBooked
<1>. QED BY <1>1, <1>2, PanelMoney, PendingMoney, DaemonMoney, ForceCloseMoney DEF Next

LEMMA MoneyInit == Init => MInv
<1>. SUFFICES ASSUME Init PROVE MInv
  OBVIOUS
<1>1. LedgerTyped /\ BalanceIsLedger
  BY TradingAssumption DEF Init, LedgerTyped, BalanceIsLedger, TradingAssumption
<1>2. (CHOOSE s \in Symbols : TRUE) \in Symbols
  BY TradingAssumption DEF TradingAssumption
<1>3. QuotesTyped
  BY <1>2 DEF Init, QuotesTyped, Quotes, Idle
<1>4. EverOpened /\ TodoPriced
  BY DEF Init, EverOpened, TodoPriced, Idle
<1>. QED BY <1>1, <1>3, <1>4 DEF MInv, QInv

THEOREM MoneyInvariant == Spec => []MInv
<1>1. IInv /\ MInv /\ [Next]_vars => MInv'
  <2>. SUFFICES ASSUME IInv, MInv, [Next]_vars PROVE MInv'
    OBVIOUS
  <2>. QED BY NextStep, NextMoney, MoneyInvKept DEF MInv, Kept
<1>. QED BY <1>1, MoneyInit, Invariant, PTL DEF Spec

-----------------------------------------------------------------------------
(* However panels, the daemon and the dealing desk race, each lot is open   *)
(* or was realised in one Trade, up to what stale saves have put back.      *)
THEOREM LotsAreConserved == Spec => []LotsConserved
  BY Invariant, PTL DEF IInv

(* The balance is what the ledger says, whoever closes, opens or forces.    *)
THEOREM LedgerBalances == Spec => []BalanceIsLedger
  BY MoneyInvariant, PTL DEF MInv

(* A pending order that several threads attempt opens its lots once.        *)
THEOREM FilledOnce == Spec => []OrderFillsOnce
  BY Invariant, PTL DEF IInv

(* A suspended account opens no lot and stays suspended.                    *)
THEOREM SuspendedStays == Spec => SuspendedOpensNothing
<1>1. IInv /\ [Next]_vars =>
        [status = "Suspendido" => opened' = opened /\ status' = status]_vars
  <2>. SUFFICES ASSUME IInv, [Next]_vars, status = "Suspendido"
                PROVE  opened' = opened /\ status' = status
    OBVIOUS
  <2>1. LotsStep /\ StatusStep
    BY NextStep DEF Kept
  <2>. QED BY <2>1 DEF LotsStep, LotsSame, Opens, Closes, Revives, Clears, StatusStep
<1>. QED BY <1>1, Invariant, PTL DEF Spec, SuspendedOpensNothing

-----------------------------------------------------------------------------
(* The copies that panels keep: whatever the order in which a panel re-reads*)
(* rows, hears of a status, loops over a stop-out or reconnects, they are   *)
(* quantities of positions and a status of the account.                     *)

PanelRow == [known : [Positions -> Nat], status : Statuses]
LoopRow == [todo : SUBSET Positions, failed : SUBSET Positions, on : BOOLEAN]

CopiesTyped == /\ panel \in [Conns -> PanelRow]
               /\ inbox \in [Conns -> SUBSET Statuses]
               /\ stopout \in [Conns -> LoopRow]
               /\ peak \in Int

RowsAndStatus == qty \in [Positions -> Nat] /\ status \in Statuses /\ balance \in Int

LEMMA RowsAndStatusTyped == IInv /\ MInv => RowsAndStatus
  BY DEF IInv, LotsTyped, MInv, LedgerTyped, RowsAndStatus

(* The ways a step may treat them.                                          *)
PanelRead == \/ UNCHANGED panel
             \/ \E c \in Conns, row \in PanelRow : panel' = [panel EXCEPT ![c] = row]
Told == \/ UNCHANGED inbox
        \/ \E s \in Statuses : Publish(s)
        \/ \E c \in Conns, heard \in SUBSET Statuses : inbox' = [inbox EXCEPT ![c] = heard]
Looped == \/ UNCHANGED stopout
          \/ \E c \in Conns, row \in LoopRow : stopout' = [stopout EXCEPT ![c] = row]
PeakMoved == UNCHANGED peak \/ peak' = Max({peak, balance'})

CopiesStep == PanelRead /\ Told /\ Looped /\ PeakMoved

LEMMA CopiesKept == ASSUME CopiesTyped, CopiesStep, RowsAndStatus' PROVE CopiesTyped'
<1>t. /\ panel \in [Conns -> PanelRow] /\ inbox \in [Conns -> SUBSET Statuses]
      /\ stopout \in [Conns -> LoopRow] /\ peak \in Int
  BY DEF CopiesTyped
<1>1. panel' \in [Conns -> PanelRow]
  BY <1>t, Zenon DEF CopiesStep, PanelRead
<1>2. inbox' \in [Conns -> SUBSET Statuses]
  <2>1. CASE \E s \in Statuses : Publish(s)
    BY <1>t, <2>1 DEF Publish
  <2>2. CASE \E c \in Conns, heard \in SUBSET Statuses : inbox' = [inbox EXCEPT ![c] = heard]
    BY <1>t, <2>2, Zenon
  <2>. QED BY <1>t, <2>1, <2>2 DEF CopiesStep, Told
<1>3. stopout' \in [Conns -> LoopRow]
  BY <1>t, Zenon DEF CopiesStep, Looped
<1>4. peak' \in Int
  <2>1. balance' \in Int
    BY DEF RowsAndStatus
  <2>. QED BY <1>t, <2>1, MaxOfTwo DEF CopiesStep, PeakMoved
<1>. QED BY <1>1, <1>2, <1>3, <1>4 DEF CopiesTyped

LEMMA CopiesSame == ASSUME UNCHANGED <<panel, inbox, stopout, peak>> PROVE CopiesStep
  BY DEF CopiesStep, PanelRead, Told, Looped, PeakMoved

LEMMA PanelRereads ==
    ASSUME RowsAndStatus', CopiesTyped, NEW c \in Conns, Refreshed(c, panel[c].status)
    PROVE  PanelRead
<1>1. [known |-> qty', status |-> panel[c].status] \in PanelRow
  BY DEF RowsAndStatus, CopiesTyped, PanelRow
<1>. QED BY <1>1, Zenon DEF Refreshed, PanelRead

(* A close, or nothing when the row is gone.                                *)
LEMMA CloseTold ==
    ASSUME RowsAndStatus', NEW p, NEW px, CloseWhole(p, px)
    PROVE  Told /\ PeakMoved
<1>1. CASE CloseLots(p, qty[p], px) /\ Publish(status')
  <2>1. status' \in Statuses
    BY DEF RowsAndStatus
  <2>2. Told
    BY <1>1, <2>1, Zenon DEF Told
  <2>3. PeakMoved
    BY <1>1, Zenon DEF CloseLots, Settle, PeakMoved
  <2>. QED BY <2>2, <2>3
<1>2. CASE UNCHANGED <<account, positions, inbox>>
  BY <1>2 DEF account, Told, PeakMoved
<1>. QED BY <1>1, <1>2, Zenon DEF CloseWhole

LEMMA OrderCloseCopies ==
    ASSUME RowsAndStatus', CopiesTyped, NEW c \in Conns, NEW p \in Positions, NEW q,
           OrderClose(c, p, q)
    PROVE  CopiesStep
<1>t. panel[c] \in PanelRow /\ panel \in [Conns -> PanelRow]
      /\ qty' \in [Positions -> Nat] /\ status' \in Statuses
  BY DEF CopiesTyped, RowsAndStatus
<1>s. Looped
  BY DEF OrderClose, Looped
<1>1. CASE /\ CloseLots(p, q, mark) /\ Publish(status')
           /\ panel' = [panel EXCEPT ![c].known[p] = qty'[p], ![c].status = status']
  <2>1. PICK row : row = [panel[c] EXCEPT !.known[p] = qty'[p], !.status = status']
    OBVIOUS
  <2>2. row \in PanelRow
    BY <1>t, <2>1 DEF PanelRow
  <2>3. panel' = [panel EXCEPT ![c] = row]
    BY <1>1, <1>t, <2>1
  <2>4. PanelRead
    BY <2>2, <2>3, Zenon DEF PanelRead
  <2>5. Told /\ PeakMoved
    BY <1>1, <1>t, Zenon DEF CloseLots, Settle, Told, PeakMoved
  <2>. QED BY <1>s, <2>4, <2>5 DEF CopiesStep
<1>2. CASE /\ panel' = [panel EXCEPT ![c].known[p] = 0]
           /\ UNCHANGED <<account, positions, inbox>>
  <2>1. PICK row : row = [panel[c] EXCEPT !.known[p] = 0]
    OBVIOUS
  <2>2. row \in PanelRow
    BY <1>t, <2>1 DEF PanelRow
  <2>3. panel' = [panel EXCEPT ![c] = row]
    BY <1>2, <1>t, <2>1
  <2>4. PanelRead
    BY <2>2, <2>3, Zenon DEF PanelRead
  <2>. QED BY <1>s, <1>2, <2>4 DEF account, CopiesStep, Told, PeakMoved
<1>. QED BY <1>1, <1>2, Zenon DEF OrderClose

LEMMA NoLoopIsOne == NoLoop \in LoopRow
  BY DEF NoLoop, LoopRow

LEMMA StopoutCopies ==
    ASSUME RowsAndStatus, RowsAndStatus', CopiesTyped, NEW c \in Conns,
           \/ BeginStopout(c) \/ EndStopout(c)
           \/ \E p \in Positions : StopoutClose(c, p) \/ StopoutSkip(c, p)
    PROVE  CopiesStep
<1>t. stopout \in [Conns -> LoopRow] /\ stopout[c] \in LoopRow /\ panel[c] \in PanelRow
  BY DEF CopiesTyped
<1>1. CASE BeginStopout(c)
  <2>1. [todo |-> Known(c), failed |-> {}, on |-> TRUE] \in LoopRow
    BY DEF Known, LoopRow
  <2>2. Looped
    BY <1>1, <2>1, Zenon DEF BeginStopout, Looped
  <2>. QED BY <1>1, <2>2 DEF BeginStopout, account, CopiesStep, PanelRead, Told, PeakMoved
<1>2. CASE EndStopout(c)
  <2>1. PICK st \in Statuses :
            panel' = [panel EXCEPT ![c] = [known |-> qty, status |-> st]]
    <3>1. panel' = [panel EXCEPT ![c] = [known |-> qty,
                       status |-> IF stopout[c].failed = {} THEN "Suspendido" ELSE panel[c].status]]
      BY <1>2, <1>t DEF EndStopout, CopiesTyped
    <3>2. (IF stopout[c].failed = {} THEN "Suspendido" ELSE panel[c].status) \in Statuses
      BY <1>t DEF PanelRow, Statuses
    <3>. QED BY <3>1, <3>2, Zenon
  <2>2. [known |-> qty, status |-> st] \in PanelRow
    BY DEF RowsAndStatus, PanelRow
  <2>3. PanelRead
    BY <2>1, <2>2, Zenon DEF PanelRead
  <2>4. Looped
    BY <1>2, NoLoopIsOne, Zenon DEF EndStopout, Looped
  <2>. QED BY <1>2, <2>3, <2>4 DEF EndStopout, CopiesStep, Told, PeakMoved
<1>3. ASSUME NEW p \in Positions, StopoutClose(c, p) PROVE CopiesStep
  <2>1. PICK row : row = [stopout[c] EXCEPT !.todo = @ \ {p}]
    OBVIOUS
  <2>2. row \in LoopRow
    BY <1>t, <2>1 DEF LoopRow
  <2>3. stopout' = [stopout EXCEPT ![c] = row]
    BY <1>3, <1>t, <2>1 DEF StopoutClose
  <2>4. Looped
    BY <2>2, <2>3, Zenon DEF Looped
  <2>5. Told /\ PeakMoved
    BY <1>3, CloseTold DEF StopoutClose
  <2>. QED BY <1>3, <2>4, <2>5 DEF StopoutClose, CopiesStep, PanelRead
<1>4. ASSUME NEW p \in Positions, StopoutSkip(c, p) PROVE CopiesStep
  <2>1. PICK row : row = [stopout[c] EXCEPT !.todo = @ \ {p}, !.failed = @ \cup {p}]
    OBVIOUS
  <2>2. row \in LoopRow
    BY <1>t, <2>1 DEF LoopRow
  <2>3. stopout' = [stopout EXCEPT ![c] = row]
    BY <1>4, <1>t, <2>1 DEF StopoutSkip
  <2>4. Looped
    BY <2>2, <2>3, Zenon DEF Looped
  <2>. QED BY <1>4, <2>4 DEF StopoutSkip, account, CopiesStep, PanelRead, Told, PeakMoved
<1>. QED BY <1>1, <1>2, <1>3, <1>4

LEMMA PanelCopies ==
    ASSUME RowsAndStatus, RowsAndStatus', CopiesTyped, NEW c \in Conns, PanelNext(c)
    PROVE  CopiesStep
<1>t. panel[c] \in PanelRow /\ panel \in [Conns -> PanelRow] /\ inbox[c] \in SUBSET Statuses
  BY DEF CopiesTyped
<1>1. CASE \E s \in Symbols, q \in Lots : OrderNew(c, s, q)
  <2>1. PanelRead
    BY <1>1, PanelRereads DEF OrderNew
  <2>2. UNCHANGED <<inbox, stopout, peak>>
    BY <1>1, Zenon DEF OrderNew, OpenLots
  <2>. QED BY <2>1, <2>2 DEF CopiesStep, Told, Looped, PeakMoved
<1>2. CASE \E p \in Positions : CheckTpSl(c, p)
  <2>1. PanelRead /\ Told /\ PeakMoved
    BY <1>2, PanelRereads, CloseTold DEF CheckTpSl
  <2>. QED BY <1>2, <2>1 DEF CheckTpSl, CopiesStep, Looped
<1>3. CASE \E p \in Positions : ReadForEdit(c, p)
  BY <1>3, CopiesSame DEF ReadForEdit, account
<1>4. CASE SaveEdit(c)
  <2>1. PanelRead
    BY <1>4, PanelRereads DEF SaveEdit
  <2>. QED BY <1>4, <2>1 DEF SaveEdit, account, CopiesStep, Told, Looped, PeakMoved
<1>5. CASE \E s \in Statuses : PositionChanged(c, s)
  <2>1. PICK s \in Statuses : PositionChanged(c, s)
    BY <1>5
  <2>2. [known |-> qty, status |-> s] \in PanelRow
    BY DEF RowsAndStatus, PanelRow
  <2>3. PanelRead
    BY <2>1, <2>2, Zenon DEF PositionChanged, PanelRead
  <2>4. inbox' = [inbox EXCEPT ![c] = inbox[c] \ {s}]
    BY <2>1 DEF PositionChanged
  <2>5. Told
    <3>1. inbox[c] \ {s} \in SUBSET Statuses
      BY <1>t
    <3>. QED BY <2>4, <3>1, Zenon DEF Told
  <2>. QED BY <2>1, <2>3, <2>5 DEF PositionChanged, account, CopiesStep, Looped, PeakMoved
<1>6. CASE RefreshPositions(c)
  <2>1. PICK row : row = [panel[c] EXCEPT !.known = qty]
    OBVIOUS
  <2>2. row \in PanelRow
    BY <1>t, <2>1 DEF PanelRow, RowsAndStatus
  <2>3. panel' = [panel EXCEPT ![c] = row]
    BY <1>6, <1>t, <2>1 DEF RefreshPositions
  <2>4. PanelRead
    BY <2>2, <2>3, Zenon DEF PanelRead
  <2>. QED BY <1>6, <2>4 DEF RefreshPositions, account, CopiesStep, Told, Looped, PeakMoved
<1>7. CASE Reconnect(c)
  <2>1. [known |-> qty, status |-> status] \in PanelRow
    BY DEF RowsAndStatus, PanelRow
  <2>2. PanelRead
    BY <1>7, <2>1, Zenon DEF Reconnect, PanelRead
  <2>3. Told
    <3>1. {} \in SUBSET Statuses /\ inbox' = [inbox EXCEPT ![c] = {}]
      BY <1>7 DEF Reconnect
    <3>. QED BY <3>1, Zenon DEF Told
  <2>4. Looped
    BY <1>7, NoLoopIsOne, Zenon DEF Reconnect, Looped
  <2>. QED BY <1>7, <2>2, <2>3, <2>4 DEF Reconnect, account, CopiesStep, PeakMoved
<1>8. CASE \E p \in Positions, q \in Lots : OrderClose(c, p, q)
  BY <1>8, OrderCloseCopies
<1>9. CASE \/ BeginStopout(c) \/ EndStopout(c)
           \/ \E p \in Positions : StopoutClose(c, p) \/ StopoutSkip(c, p)
  BY <1>9, StopoutCopies
<1>10. CASE \E s \in Symbols : RefuseOrder(c, s)
  <2>1. PICK row : row = [panel[c] EXCEPT !.status = status']
    OBVIOUS
  <2>2. row \in PanelRow
    BY <1>t, <2>1 DEF PanelRow, RowsAndStatus
  <2>3. panel' = [panel EXCEPT ![c] = row]
    BY <1>10, <1>t, <2>1 DEF RefuseOrder
  <2>4. PanelRead
    BY <2>2, <2>3, Zenon DEF PanelRead
  <2>. QED BY <1>10, <2>4 DEF RefuseOrder, CopiesStep, Told, Looped, PeakMoved
<1>. QED BY <1>1, <1>2, <1>3, <1>4, <1>5, <1>6, <1>7, <1>8, <1>9, <1>10, Zenon DEF PanelNext

LEMMA DaemonCopies == ASSUME RowsAndStatus', DaemonNext PROVE CopiesStep
<1>1. CASE DaemonScan \/ DaemonStops \/ \E p \in Positions : DaemonSkip(p)
  <2>1. UNCHANGED <<account, panels>>
    BY <1>1, Zenon DEF DaemonScan, DaemonStops, DaemonSkip
  <2>. QED BY <2>1, CopiesSame DEF account, panels
<1>2. CASE DaemonEnd
  <2>1. UNCHANGED <<panel, stopout, peak>>
    BY <1>2, Zenon DEF DaemonEnd
  <2>2. Told
    BY <1>2 DEF DaemonEnd, Told, Statuses
  <2>. QED BY <2>1, <2>2 DEF CopiesStep, PanelRead, Looped, PeakMoved
<1>3. CASE \E p \in Positions : DaemonClose(p)
  <2>1. Told /\ PeakMoved
    BY <1>3, CloseTold DEF DaemonClose
  <2>. QED BY <1>3, <2>1 DEF DaemonClose, CopiesStep, PanelRead, Looped
<1>. QED BY <1>1, <1>2, <1>3, Zenon DEF DaemonNext

LEMMA NextCopies ==
    ASSUME RowsAndStatus, RowsAndStatus', CopiesTyped, [Next]_vars PROVE CopiesStep
<1>1. CASE \E s \in Symbols : Tick(s)
  BY <1>1, CopiesSame DEF Tick, account, panels
<1>2. CASE \E o \in Orders : OrderNext(o)
  <2>1. UNCHANGED <<panels, peak>>
    BY <1>2, Zenon DEF OrderNext, CreatePending, UpdatePending, CancelPending, Lapse,
                       ExpirePending, RejectPending, TriggerPending, OpenLots,
                       pendingUnchanged, account
  <2>. QED BY <2>1, CopiesSame DEF panels
<1>3. CASE \E ss \in SUBSET Symbols, m \in Marks \cup {0} : ForceClose(ss, m)
  <2>1. UNCHANGED <<panels, peak>>
    BY <1>3, Zenon DEF ForceClose
  <2>. QED BY <2>1, CopiesSame DEF panels
<1>4. CASE UNCHANGED vars
  BY <1>4, CopiesSame DEF vars, account, panels
<1>. QED BY <1>1, <1>2, <1>3, <1>4, PanelCopies, DaemonCopies, Zenon DEF Next

LEMMA CopiesInit == ASSUME Init, IInv, MInv PROVE CopiesTyped
<1>1. RowsAndStatus
  BY RowsAndStatusTyped
<1>2. [known |-> qty, status |-> status] \in PanelRow
  BY <1>1 DEF RowsAndStatus, PanelRow
<1>3. peak \in Int
  BY TradingAssumption DEF Init, TradingAssumption
<1>4. /\ panel = [c \in Conns |-> [known |-> qty, status |-> status]]
      /\ inbox = [c \in Conns |-> {}] /\ stopout = [c \in Conns |-> NoLoop]
  BY DEF Init
<1>. QED BY <1>2, <1>3, <1>4, NoLoopIsOne DEF CopiesTyped

(* Rows, quotes, the copies of panels and the scan keep to their values.    *)
THEOREM TypeCorrect == Spec => []TypeOK
<1>1. IInv /\ MInv => RowsAndStatus
  BY RowsAndStatusTyped
<1>2. RowsAndStatus /\ RowsAndStatus' /\ CopiesTyped /\ [Next]_vars => CopiesTyped'
  BY NextCopies, CopiesKept
<1>3. IInv /\ MInv /\ CopiesTyped => TypeOK
  <2>. SUFFICES ASSUME IInv, MInv, CopiesTyped PROVE TypeOK
    OBVIOUS
  <2>1. edit \in [Conns -> [pk : Positions \cup {0}, qty : Nat]]
    BY DEF IInv, EditsTyped, NoEdit, EditRow
  <2>. QED BY <2>1, Zenon DEF IInv, LotsTyped, OrdersTyped, OrderRow, MInv, LedgerTyped, QInv,
              QuotesTyped, Quotes, CopiesTyped, PanelRow, LoopRow, TypeOK
<1>4. Init /\ IInv /\ MInv => CopiesTyped
  BY CopiesInit
<1>. QED BY <1>1, <1>2, <1>3, <1>4, Invariant, MoneyInvariant, PTL DEF Spec
=============================================================================
