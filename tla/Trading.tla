------------------------------- MODULE Trading -------------------------------
(***************************************************************************)
(* One trading account: its positions and pending orders in the database,  *)
(* and everything that opens and closes them at the same time.             *)
(*                                                                         *)
(*   simulator/consumers.py   a browser panel (one WebSocket connection),  *)
(*                            with its own copy of positions and status    *)
(*   simulator/tasks.py       the daemons that act when no panel is open   *)
(*   simulator/admin.py       the dealing desk                             *)
(*   simulator/risk_engine.py the loss limits checked after every close    *)
(*                                                                         *)
(* Money is in whole units; the price of a symbol is what one lot of it    *)
(* would earn if it were closed now.                                       *)
(***************************************************************************)
EXTENDS Integers, FiniteSets, FiniteSetsExt, Functions

CONSTANTS
    Positions,        \* primary keys of Position, 1..n
    Symbols,
    Orders,           \* PendingOrder rows
    Conns,            \* panels connected to the account
    Marks,            \* what one lot of a symbol may earn
    Unpriced,         \* no fresh price
    InitialBalance,
    Commission,       \* of an opening
    MarginPerLot,
    MaxMarginPct,     \* max_total_margin_pct
    MaxOpenPositions,
    MaxDrawdownPct, MaxDailyLossPct,
    Netting,          \* netting_mode of the account
    MaxLots           \* bound: lots a position ever receives (a stale save may add as many)

ASSUME TradingAssumption ==
    /\ Positions \subseteq Nat /\ IsFiniteSet(Positions) /\ Symbols # {}
    /\ Marks \subseteq Int /\ Unpriced \notin Int
    /\ InitialBalance \in Nat /\ Commission \in Nat /\ MarginPerLot \in Nat
    /\ MaxMarginPct \in Nat /\ MaxOpenPositions \in Nat
    /\ MaxDrawdownPct \in Nat /\ MaxDailyLossPct \in Nat
    /\ Netting \in BOOLEAN /\ MaxLots \in Nat

VARIABLES
    status,     \* TradingAccount.status
    balance,    \* TradingAccount.balance
    peak,       \* TradingAccount.peak_balance
    ledger,     \* [realized, charged, shortfall]: sums of its LedgerEntry rows
    symbolOf,   \* Position.symbol
    qty,        \* Position.qty, 0 when there is no row
    opened,     \* lots in the LotExecutionEvent rows of a position
    traded,     \* lots in the Trade rows of a position
    revived,    \* lots a stale save has put back, less those it has wiped out
    order,      \* PendingOrder.status, [status, qty, symbol, lapsed, fills]
    mark,       \* the feed: a price per symbol
    panel,      \* [known, status]: the copies a connection keeps
    inbox,      \* statuses carried by position_changed events not yet handled
    stopout,    \* [todo, failed] of the liquidation loop of a connection
    edit,       \* the Position row a SL/TP edit has read and not yet saved
    daemon      \* [mode, todo, px] of the scan under way

account   == <<status, balance, peak, ledger>>
positions == <<symbolOf, qty, opened, traded, revived>>
panels    == <<panel, inbox, stopout, edit>>
vars == <<account, positions, order, mark, panels, daemon>>

Statuses == {"Activo", "Suspendido", "Violado"}
OrderStatus == {"none", "PENDING", "TRIGGERED", "REJECTED", "EXPIRED", "CANCELLED"}

Idle == [mode |-> "idle", todo |-> {}, px |-> [s \in Symbols |-> Unpriced]]
NoLoop == [todo |-> {}, failed |-> {}, on |-> FALSE]
NoEdit == [pk |-> 0, qty |-> 0]

TypeOK ==
    /\ status \in Statuses
    /\ balance \in Int /\ peak \in Int
    /\ ledger \in [realized : Int, charged : Nat, shortfall : Nat]
    /\ symbolOf \in [Positions -> Symbols]
    /\ qty \in [Positions -> Nat]
    /\ opened \in [Positions -> Nat]
    /\ traded \in [Positions -> Nat]
    /\ revived \in [Positions -> Int]
    /\ order \in [Orders -> [status : OrderStatus, qty : Nat, symbol : Symbols,
                             lapsed : BOOLEAN, fills : Nat]]
    /\ mark \in [Symbols -> Marks \cup {Unpriced}]
    /\ panel \in [Conns -> [known : [Positions -> Nat], status : Statuses]]
    /\ inbox \in [Conns -> SUBSET Statuses]
    /\ stopout \in [Conns -> [todo : SUBSET Positions, failed : SUBSET Positions, on : BOOLEAN]]
    /\ edit \in [Conns -> [pk : Positions \cup {0}, qty : Nat]]
    /\ daemon \in [mode : {"idle", "stopout", "tpsl"}, todo : SUBSET Positions,
                   px : [Symbols -> Marks \cup {Unpriced}]]

-----------------------------------------------------------------------------
Rows == {p \in Positions : qty[p] > 0}

Priced(px, ps) == \A p \in ps : px[symbolOf[p]] # Unpriced

(* Equity and margin of the lots in `lots', at the prices px.               *)
Floating(lots, px) == MapThenSumSet(LAMBDA p : lots[p] * px[symbolOf[p]],
                                    {p \in Positions : lots[p] > 0})
Equity(lots, px) == balance + Floating(lots, px)
TotalLots(lots) == MapThenSumSet(LAMBDA p : lots[p], Positions)

(* check_equity_stopout of a challenge account.                             *)
Underwater(lots, px) ==
    /\ \E p \in Positions : lots[p] > 0
    /\ 100 * Equity(lots, px) <= peak * (100 - MaxDrawdownPct)

(* _pct rounds half up, to the hundredth of a percent.                      *)
PctHalfUp(part, whole) == (20000 * part + whole) \div (2 * whole)

LossLimitBroken(top, bal, pnl) ==
    /\ top > 0
    /\ \/ PctHalfUp(top - bal, top) >= 100 * MaxDrawdownPct
       \/ pnl < 0 /\ PctHalfUp(-pnl, top) >= 100 * MaxDailyLossPct

(* What every connection of the account gets to hear of a commit.           *)
Publish(s) == inbox' = [c \in Conns |-> inbox[c] \cup {s}]

-----------------------------------------------------------------------------
Init ==
    /\ status = "Activo"
    /\ balance = InitialBalance /\ peak = InitialBalance
    /\ ledger = [realized |-> 0, charged |-> 0, shortfall |-> 0]
    /\ symbolOf = [p \in Positions |-> CHOOSE s \in Symbols : TRUE]
    /\ qty = [p \in Positions |-> 0]
    /\ opened = [p \in Positions |-> 0]
    /\ traded = [p \in Positions |-> 0]
    /\ revived = [p \in Positions |-> 0]
    /\ order = [o \in Orders |-> [status |-> "none", qty |-> 0, lapsed |-> FALSE, fills |-> 0,
                                  symbol |-> CHOOSE s \in Symbols : TRUE]]
    /\ mark = [s \in Symbols |-> Unpriced]
    /\ panel = [c \in Conns |-> [known |-> qty, status |-> status]]
    /\ inbox = [c \in Conns |-> {}]
    /\ stopout = [c \in Conns |-> NoLoop]
    /\ edit = [c \in Conns |-> NoEdit]
    /\ daemon = Idle

Tick(s) ==
    /\ mark' \in {[mark EXCEPT ![s] = m] : m \in Marks \cup {Unpriced}}
    /\ UNCHANGED <<account, positions, order, panels, daemon>>

-----------------------------------------------------------------------------
(* Opening: one transaction under the broker-wide lock, the account's lock  *)
(* and the locks of all its positions.                                      *)

IsNextKey(p) == opened[p] = 0 /\ \A o \in Positions : o < p => opened[o] > 0

Existing(s) == {p \in Rows : Netting /\ symbolOf[p] = s}

(* The row that lots of a symbol go to: the oldest of the symbol when the   *)
(* account nets, a new one otherwise.                                       *)
GoesTo(s, p) ==
    IF Existing(s) = {} THEN IsNextKey(p)
    ELSE p \in Existing(s) /\ \A o \in Existing(s) : p <= o

MarginFits(q) ==
    100 * MarginPerLot * (TotalLots(qty) + q) <= MaxMarginPct * Equity(qty, mark)

(* _compute_atomic_open_guard, all of it on rows read under the locks.      *)
MayOpen(s, q) ==
    /\ status = "Activo"
    /\ Priced(mark, Rows)
    /\ Existing(s) = {} => Cardinality(Rows) + 1 <= MaxOpenPositions
    /\ MarginFits(q)

(* Opening charges go straight to the balance.                              *)
OpenLots(p, s, q) ==
    /\ GoesTo(s, p)
    /\ opened[p] + q <= MaxLots
    /\ symbolOf' = [symbolOf EXCEPT ![p] = s]
    /\ qty' = [qty EXCEPT ![p] = @ + q]
    /\ opened' = [opened EXCEPT ![p] = @ + q]
    /\ balance' = balance - Commission
    /\ ledger' = [ledger EXCEPT !.charged = @ + Commission]
    /\ UNCHANGED <<status, peak, traded, revived>>

(* What a panel knows after it has re-read the rows.                        *)
Refreshed(c, st) == panel' = [panel EXCEPT ![c] = [known |-> qty', status |-> st]]

M_OrderNew_TrustsThePanel(c, s, q) ==
    /\ panel[c].status = "Activo"
    /\ mark[s] # Unpriced
    /\ Priced(mark, Rows) /\ MarginFits(q)
    /\ Existing(s) = {} => Cardinality(Rows) + 1 <= MaxOpenPositions
    /\ \E p \in Positions : OpenLots(p, s, q)
    /\ Refreshed(c, panel[c].status)
    /\ UNCHANGED <<order, mark, inbox, stopout, edit, daemon>>

(* A market order.                                                          *)
OrderNew(c, s, q) ==
    /\ panel[c].status = "Activo"
    /\ mark[s] # Unpriced
    /\ MayOpen(s, q)
    /\ \E p \in Positions : OpenLots(p, s, q)
    /\ Refreshed(c, panel[c].status)
    /\ UNCHANGED <<order, mark, inbox, stopout, edit, daemon>>

(* validate_order_risk, in a transaction of its own before the order: the   *)
(* account is blocked already, or a limit turns out to be broken (charges   *)
(* and the desk's closes do not check them) and blocks it.                  *)
RefuseOrder(c, s) ==
    /\ panel[c].status = "Activo"
    /\ mark[s] # Unpriced
    /\ \/ status # "Activo" /\ UNCHANGED status
       \/ /\ status = "Activo"
          /\ LossLimitBroken(peak, balance, ledger.realized)
          /\ status' = "Violado"
    /\ panel' = [panel EXCEPT ![c].status = status']
    /\ UNCHANGED <<balance, peak, ledger, positions, order, mark, inbox, stopout, edit, daemon>>

-----------------------------------------------------------------------------
(* Pending orders. Creating one does not look at the account's status.      *)

pendingUnchanged == UNCHANGED <<mark, panels, daemon>>

CreatePending(o, s, q) ==
    /\ order[o].status = "none"
    /\ mark[s] # Unpriced
    /\ order' = [order EXCEPT ![o] = [@ EXCEPT !.status = "PENDING", !.symbol = s, !.qty = q]]
    /\ UNCHANGED <<account, positions>> /\ pendingUnchanged

UpdatePending(o, q) ==
    /\ order[o].status = "PENDING"
    /\ order' = [order EXCEPT ![o].qty = q]
    /\ UNCHANGED <<account, positions>> /\ pendingUnchanged

CancelPending(o) ==
    /\ order[o].status = "PENDING"
    /\ order' = [order EXCEPT ![o].status = "CANCELLED"]
    /\ UNCHANGED <<account, positions>> /\ pendingUnchanged

(* expires_at passes.                                                       *)
Lapse(o) ==
    /\ order[o].status = "PENDING" /\ ~order[o].lapsed
    /\ order' = [order EXCEPT ![o].lapsed = TRUE]
    /\ UNCHANGED <<account, positions>> /\ pendingUnchanged

(* _trigger_pending_order_core, called by panels and by the daemon for any  *)
(* order that was PENDING when they last looked. Expiry goes first.         *)
ExpirePending(o) ==
    /\ order[o].status = "PENDING" /\ order[o].lapsed
    /\ order' = [order EXCEPT ![o].status = "EXPIRED"]
    /\ UNCHANGED <<account, positions>> /\ pendingUnchanged

(* An invalid SL/TP, a price, the account's guard or the broker's limits.   *)
RejectPending(o) ==
    /\ order[o].status = "PENDING" /\ ~order[o].lapsed
    /\ order' = [order EXCEPT ![o].status = "REJECTED"]
    /\ UNCHANGED <<account, positions>> /\ pendingUnchanged

M_TriggerPending_NoRecheck(o) ==
    /\ order[o].status \in {"PENDING", "TRIGGERED"} /\ ~order[o].lapsed
    /\ MayOpen(order[o].symbol, order[o].qty)
    /\ \E p \in Positions : OpenLots(p, order[o].symbol, order[o].qty)
    /\ order' = [order EXCEPT ![o].status = "TRIGGERED", ![o].fills = @ + 1]
    /\ pendingUnchanged

TriggerPending(o) ==
    /\ order[o].status = "PENDING" /\ ~order[o].lapsed
    /\ MayOpen(order[o].symbol, order[o].qty)
    /\ \E p \in Positions : OpenLots(p, order[o].symbol, order[o].qty)
    /\ order' = [order EXCEPT ![o].status = "TRIGGERED", ![o].fills = @ + 1]
    /\ pendingUnchanged

-----------------------------------------------------------------------------
(* Closing: _db_close_position_atomic and _close_position_sync lock the     *)
(* account and the position and take the quantity from the locked row.      *)

M_Settle_SilentClamp(pnl) ==
    /\ balance' = Max({balance + pnl, 0})
    /\ ledger' = [ledger EXCEPT !.realized = @ + pnl]
    /\ peak' = Max({peak, balance'})
    /\ status' = IF LossLimitBroken(peak', balance', ledger'.realized) THEN "Suspendido" ELSE status

(* The balance is never written below zero: the ledger keeps the shortfall. *)
(* check_and_enforce_risk follows in the same transaction.                  *)
Settle(pnl) ==
    /\ balance' = Max({balance + pnl, 0})
    /\ ledger' = [ledger EXCEPT !.realized = @ + pnl,
                                !.shortfall = @ + Max({-(balance + pnl), 0})]
    /\ peak' = Max({peak, balance'})
    /\ status' = IF LossLimitBroken(peak', balance', ledger'.realized) THEN "Suspendido" ELSE status

CloseLots(p, q, px) ==
    /\ 0 < q /\ q <= qty[p]
    /\ qty' = [qty EXCEPT ![p] = @ - q]
    /\ traded' = [traded EXCEPT ![p] = @ + q]
    /\ Settle(q * px[symbolOf[p]])
    /\ UNCHANGED <<symbolOf, opened, revived>>

(* A full close of a row that may be gone already, told to every panel.     *)
CloseWhole(p, px) ==
    \/ CloseLots(p, qty[p], px) /\ Publish(status')
    \/ qty[p] = 0 /\ UNCHANGED <<account, positions, inbox>>

(* A panel closes q lots of a position it knows of.                         *)
OrderClose(c, p, q) ==
    /\ panel[c].known[p] > 0
    /\ mark[symbolOf[p]] # Unpriced
    /\ \/ /\ CloseLots(p, q, mark) /\ Publish(status')
          /\ panel' = [panel EXCEPT ![c].known[p] = qty'[p], ![c].status = status']
       \/ /\ qty[p] = 0
          /\ panel' = [panel EXCEPT ![c].known[p] = 0]
          /\ UNCHANGED <<account, positions, inbox>>
    /\ UNCHANGED <<order, mark, stopout, edit, daemon>>

M_CheckTpSl_MemoryQty(c, p) ==
    /\ panel[c].known[p] > 0
    /\ mark[symbolOf[p]] # Unpriced
    /\ \/ /\ qty[p] > 0
          /\ qty' = [qty EXCEPT ![p] = 0]
          /\ traded' = [traded EXCEPT ![p] = @ + panel[c].known[p]]
          /\ Settle(panel[c].known[p] * mark[symbolOf[p]])
          /\ Publish(status')
          /\ UNCHANGED <<symbolOf, opened, revived>>
       \/ qty[p] = 0 /\ UNCHANGED <<account, positions, inbox>>
    /\ Refreshed(c, panel[c].status)
    /\ UNCHANGED <<order, mark, stopout, edit, daemon>>

(* Its take profit or stop loss is hit by a tick.                           *)
CheckTpSl(c, p) ==
    /\ panel[c].known[p] > 0
    /\ mark[symbolOf[p]] # Unpriced
    /\ CloseWhole(p, mark)
    /\ Refreshed(c, panel[c].status)
    /\ UNCHANGED <<order, mark, stopout, edit, daemon>>

-----------------------------------------------------------------------------
(* Liquidation by a panel: decided on what it knows, one transaction per    *)
(* position, and suspension only when nothing was left behind.              *)

Known(c) == {p \in Positions : panel[c].known[p] > 0}

First(p, ps) == p \in ps /\ \A o \in ps : p <= o

BeginStopout(c) ==
    /\ ~stopout[c].on
    /\ panel[c].status = "Activo"
    /\ Priced(mark, Known(c))
    /\ Underwater(panel[c].known, mark)
    /\ stopout' = [stopout EXCEPT ![c] = [todo |-> Known(c), failed |-> {}, on |-> TRUE]]
    /\ UNCHANGED <<account, positions, order, mark, panel, inbox, edit, daemon>>

StopoutClose(c, p) ==
    /\ First(p, stopout[c].todo)
    /\ mark[symbolOf[p]] # Unpriced
    /\ CloseWhole(p, mark)
    /\ stopout' = [stopout EXCEPT ![c].todo = @ \ {p}]
    /\ UNCHANGED <<order, mark, panel, edit, daemon>>

(* The price has gone since, or the transaction fails.                      *)
StopoutSkip(c, p) ==
    /\ First(p, stopout[c].todo)
    /\ stopout' = [stopout EXCEPT ![c].todo = @ \ {p}, ![c].failed = @ \cup {p}]
    /\ UNCHANGED <<account, positions, order, mark, panel, inbox, edit, daemon>>

(* A failed write of the suspension is swallowed; the panel shows it anyway.*)
EndStopout(c) ==
    /\ stopout[c].on /\ stopout[c].todo = {}
    /\ status' \in IF stopout[c].failed = {} THEN {"Suspendido", status} ELSE {status}
    /\ stopout' = [stopout EXCEPT ![c] = NoLoop]
    /\ panel' = [panel EXCEPT ![c] =
                    [known |-> qty, status |-> IF stopout[c].failed = {} THEN "Suspendido" ELSE @.status]]
    /\ UNCHANGED <<balance, peak, ledger, positions, order, mark, inbox, edit, daemon>>

-----------------------------------------------------------------------------
(* What a panel hears of the others.                                        *)

PositionChanged(c, s) ==
    /\ s \in inbox[c]
    /\ inbox' = [inbox EXCEPT ![c] = @ \ {s}]
    /\ panel' = [panel EXCEPT ![c] = [known |-> qty, status |-> s]]
    /\ UNCHANGED <<account, positions, order, mark, stopout, edit, daemon>>

(* Openings are announced too, but their events carry no status.            *)
RefreshPositions(c) ==
    /\ panel[c].known # qty
    /\ panel' = [panel EXCEPT ![c].known = qty]
    /\ UNCHANGED <<account, positions, order, mark, inbox, stopout, edit, daemon>>

(* The connection drops, with whatever it was doing, and hydrates again.    *)
Reconnect(c) ==
    /\ panel' = [panel EXCEPT ![c] = [known |-> qty, status |-> status]]
    /\ inbox' = [inbox EXCEPT ![c] = {}]
    /\ stopout' = [stopout EXCEPT ![c] = NoLoop]
    /\ edit' = [edit EXCEPT ![c] = NoEdit]
    /\ UNCHANGED <<account, positions, order, mark, daemon>>

-----------------------------------------------------------------------------
(* A SL/TP edit reads the row without a lock and saves every column of it:  *)
(* the quantity it has read comes back, and with it a row deleted since.    *)

ReadForEdit(c, p) ==
    /\ edit[c] = NoEdit
    /\ panel[c].known[p] > 0 /\ qty[p] > 0
    /\ opened[p] + revived[p] <= MaxLots
    /\ mark[symbolOf[p]] # Unpriced
    /\ edit' = [edit EXCEPT ![c] = [pk |-> p, qty |-> qty[p]]]
    /\ UNCHANGED <<account, positions, order, mark, panel, inbox, stopout, daemon>>

SaveEdit(c) ==
    /\ edit[c] # NoEdit
    /\ LET p == edit[c].pk IN
       /\ qty' = [qty EXCEPT ![p] = edit[c].qty]
       /\ revived' = [revived EXCEPT ![p] = @ + edit[c].qty - qty[p]]
    /\ edit' = [edit EXCEPT ![c] = NoEdit]
    /\ Refreshed(c, panel[c].status)
    /\ UNCHANGED <<account, symbolOf, opened, traded, order, mark, inbox, stopout, daemon>>

-----------------------------------------------------------------------------
(* scan_positions_task: rows and prices are read once, then each position   *)
(* is closed in a transaction of its own.                                   *)

DaemonScan ==
    /\ daemon = Idle
    /\ status = "Activo" /\ Rows # {}
    /\ IF Priced(mark, Rows) /\ Underwater(qty, mark)
       THEN daemon' = [mode |-> "stopout", todo |-> Rows, px |-> mark]
       ELSE \E hit \in SUBSET {p \in Rows : mark[symbolOf[p]] # Unpriced} :
               daemon' = [mode |-> "tpsl", todo |-> hit, px |-> mark]
    /\ UNCHANGED <<account, positions, order, mark, panels>>

DaemonClose(p) ==
    /\ First(p, daemon.todo)
    /\ CloseWhole(p, daemon.px)
    /\ daemon' = [daemon EXCEPT !.todo = @ \ {p}]
    /\ UNCHANGED <<order, mark, panel, stopout, edit>>

(* The transaction fails; the scan goes on.                                 *)
DaemonSkip(p) ==
    /\ First(p, daemon.todo)
    /\ daemon' = [daemon EXCEPT !.todo = @ \ {p}]
    /\ UNCHANGED <<account, positions, order, mark, panels>>

M_DaemonEnd_NeverSuspends ==
    /\ daemon # Idle /\ daemon.todo = {}
    /\ daemon' = Idle
    /\ UNCHANGED <<account, positions, order, mark, panels>>

(* After a stop-out the account is suspended, whatever has failed; when the *)
(* suspension itself fails, the error is swallowed and it is DaemonStops.   *)
DaemonEnd ==
    /\ daemon # Idle /\ daemon.todo = {}
    /\ IF daemon.mode = "stopout" THEN status' = "Suspendido" /\ Publish("Suspendido")
       ELSE UNCHANGED <<status, inbox>>
    /\ daemon' = Idle
    /\ UNCHANGED <<balance, peak, ledger, positions, order, mark, panel, stopout, edit>>

(* The time limit of the task, or a restart of its worker.                  *)
DaemonStops ==
    /\ daemon # Idle
    /\ daemon' = Idle
    /\ UNCHANGED <<account, positions, order, mark, panels>>

(* The dealing desk closes every position of some symbols at a price of its *)
(* choice: no floor, no check of the loss limits, nothing is published.     *)
ForceClose(ss, m) ==
    LET gone == {p \in Rows : symbolOf[p] \in ss}
        pnl == SumFunctionOnSet([p \in Positions |-> qty[p] * m], gone) IN
    /\ gone # {}
    /\ qty' = [p \in Positions |-> IF p \in gone THEN 0 ELSE qty[p]]
    /\ traded' = [p \in Positions |-> IF p \in gone THEN traded[p] + qty[p] ELSE traded[p]]
    /\ balance' = balance + pnl
    /\ ledger' = [ledger EXCEPT !.realized = @ + pnl]
    /\ UNCHANGED <<status, peak, symbolOf, opened, revived, order, mark, panels, daemon>>

-----------------------------------------------------------------------------
Lots == 1..MaxLots

PanelNext(c) ==
    \/ \E s \in Symbols, q \in Lots : OrderNew(c, s, q)
    \/ \E s \in Symbols : RefuseOrder(c, s)
    \/ \E p \in Positions, q \in Lots : OrderClose(c, p, q)
    \/ \E p \in Positions : CheckTpSl(c, p) \/ StopoutClose(c, p) \/ StopoutSkip(c, p)
                            \/ ReadForEdit(c, p)
    \/ BeginStopout(c) \/ EndStopout(c)
    \/ \E s \in Statuses : PositionChanged(c, s)
    \/ RefreshPositions(c) \/ Reconnect(c) \/ SaveEdit(c)

OrderNext(o) ==
    \/ \E s \in Symbols, q \in Lots : CreatePending(o, s, q)
    \/ \E q \in Lots : UpdatePending(o, q)
    \/ CancelPending(o) \/ Lapse(o) \/ ExpirePending(o) \/ RejectPending(o) \/ TriggerPending(o)

DaemonNext ==
    \/ DaemonScan \/ DaemonEnd \/ DaemonStops
    \/ \E p \in Positions : DaemonClose(p) \/ DaemonSkip(p)

Next ==
    \/ \E s \in Symbols : Tick(s)
    \/ \E c \in Conns : PanelNext(c)
    \/ \E o \in Orders : OrderNext(o)
    \/ DaemonNext
    \/ \E ss \in SUBSET Symbols, m \in Marks \cup {0} : ForceClose(ss, m)

Spec == Init /\ [][Next]_vars

(* Celery beat keeps starting scans, and a scan that is killed is not       *)
(* killed every time at the same place. Nothing is asked of the panels.     *)
Fairness ==
    /\ WF_vars(DaemonScan) /\ SF_vars(DaemonEnd)
    /\ \A p \in Positions : SF_vars(DaemonClose(p) \/ DaemonSkip(p))

FairSpec == Spec /\ Fairness

-----------------------------------------------------------------------------
(* Every lot that was ever opened in a position is still open or has been   *)
(* realised in a Trade, exactly once, however a panel, the daemon and the   *)
(* dealing desk race to close it; lots that a stale save of a SL/TP edit    *)
(* has put back are accounted for in `revived'.                             *)
LotsConserved ==
    \A p \in Positions : opened[p] + revived[p] = traded[p] + qty[p]

(* The balance is the initial one plus everything in the ledger: no close   *)
(* or opening is lost under another, and no loss beyond zero is forgiven    *)
(* without a record.                                                        *)
BalanceIsLedger ==
    balance = InitialBalance + ledger.realized - ledger.charged + ledger.shortfall

(* A pending order opens lots once if it is TRIGGERED and never otherwise,  *)
(* although panels and the daemon attempt it at the same time.              *)
OrderFillsOnce ==
    \A o \in Orders : order[o].fills = IF order[o].status = "TRIGGERED" THEN 1 ELSE 0

(* A suspended account opens nothing, even from a panel that still shows it *)
(* as active, and only staff could activate it again.                       *)
SuspendedOpensNothing ==
    [][status = "Suspendido" => opened' = opened /\ status' = status]_vars

(* An active account whose equity stays at or below its stop-out line, with *)
(* prices to tell, is liquidated or suspended by the daemon without any     *)
(* panel.                                                                   *)
ActiveUnderwaterIsLiquidated ==
    []<>~(status = "Activo" /\ Priced(mark, Rows) /\ Underwater(qty, mark))

(* What the edit of a stop would have to respect: no lot is realised twice. *)
NeverRealizedTwice == \A p \in Positions : traded[p] <= opened[p]
=============================================================================
