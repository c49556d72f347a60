----------------------------- MODULE IBAccrual -----------------------------
(***************************************************************************)
(* How introducing brokers (IBs) come to be owed a commission: lots that   *)
(* clients of an IB open are recorded as execution events, and periodic    *)
(* sweeps turn the events into obligations, for the IB and, through the    *)
(* network of IBs above it, for its ancestors.  Rates may change, IBs may  *)
(* be frozen and links may be added between an event and its sweep.        *)
(*                                                                         *)
(*   simulator/ib_commission.py           rule resolution, generators      *)
(*   simulator/ib_commission_triggers.py  the sweep of the last minutes    *)
(*   simulator/ib_network.py              ancestors, budget, sub-cents     *)
(*   simulator/ib_admin_ops.py            change_commission_rate           *)
(*   simulator/ib_risk_holds.py           freeze and unfreeze              *)
(*                                                                         *)
(* Money is counted in equal fractions of a cent, Cent of them to a cent,  *)
(* fine enough for the halvings of the deepest level to be exact.          *)
(***************************************************************************)
EXTENDS Integers, Sequences, FiniteSets, Functions

CONSTANTS
    Events,       \* primary keys of LotExecutionEvent, 1..n
    IBs,          \* Referral rows
    NoIB,
    ReferredBy,   \* the IB of the client whose lot each event is
    Quantities,   \* lots
    GlobalRate,   \* fixed_amount of the global rule of each type, 0 when there is none
    RateChanges,  \* the changes <<IB, rule type, rate>> an administrator may ask for
    Cent,
    MaxClock,     \* bound: timestamps handed out
    MaxFrozen,    \* bound: IBs frozen at one time
    Lookback,     \* minutes_back of the sweep
    BatchSize     \* rows one sweep reads

RuleTypes == {"PER_LOT", "SUB_IB_BUDGET", "SUB_IB_PER_LOT"}

ASSUME AccrualAssumption ==
    /\ Events \subseteq Nat /\ IsFiniteSet(Events) /\ IsFiniteSet(IBs)
    /\ Cent \in Nat \ {0} /\ MaxClock \in Nat /\ MaxFrozen \in Nat
    /\ Lookback \in Nat /\ BatchSize \in Nat
    /\ Quantities \subseteq Nat \ {0}
    /\ NoIB \notin IBs /\ ReferredBy \in [Events -> IBs]
    /\ GlobalRate \in [RuleTypes -> Nat]
    /\ RateChanges \subseteq IBs \X RuleTypes \X Nat

VARIABLES
    clock,      \* every row that is compared by time gets a timestamp of its own
    event,      \* LotExecutionEvent rows: when, how much, and the rate then in force
    own,        \* rules of an IB's own: the rates it has had and from when until when
    frozen,     \* Referral.risk_status is FROZEN
    parent, linkedAt,   \* IBNetworkLink
    direct,     \* cents of the obligation of the client's own IB
    done,       \* IBNetworkExecution: the network has processed the event
    share,      \* IBNetworkAccrual.exact_amount of each ancestor
    cents,      \* cents of the obligation that accrual gave rise to
    carry       \* IBNetworkCarry.remainder

vars == <<clock, event, own, frozen, parent, linkedAt, direct, done, share, cents, carry>>

NotYet == -1     \* no such row
Open == MaxClock + 1   \* effective_until IS NULL
Times == 0..MaxClock

Rules == [rate : Nat, from : Times, until : Times \cup {Open}]

TypeOK ==
    /\ clock \in Times
    /\ event \in [Events -> [at : Times \cup {NotYet}, qty : Quantities \cup {0}, rate : Nat]]
    /\ own \in [IBs \X RuleTypes -> SUBSET Rules]
    /\ frozen \subseteq IBs
    /\ parent \in [IBs -> IBs \cup {NoIB}]
    /\ linkedAt \in [IBs -> Times \cup {NotYet}]
    /\ direct \in [Events -> Nat \cup {NotYet}]
    /\ done \in [Events -> BOOLEAN]
    /\ share \in [Events -> [IBs -> Nat]]
    /\ cents \in [Events -> [IBs -> Nat]]
    /\ carry \in [IBs -> 0 .. Cent - 1]

Init ==
    /\ clock = 0
    /\ event = [e \in Events |-> [at |-> NotYet, qty |-> 0, rate |-> 0]]
    /\ own = [k \in IBs \X RuleTypes |-> {}]
    /\ frozen = {}
    /\ parent = [i \in IBs |-> NoIB]
    /\ linkedAt = [i \in IBs |-> NotYet]
    /\ direct = [e \in Events |-> NotYet]
    /\ done = [e \in Events |-> FALSE]
    /\ share = [e \in Events |-> [i \in IBs |-> 0]]
    /\ cents = [e \in Events |-> [i \in IBs |-> 0]]
    /\ carry = [i \in IBs |-> 0]

-----------------------------------------------------------------------------
(* Rates.                                                                   *)

(* Rules in force at a time: their interval is closed below, open above.    *)
InForce(rules, t) == {r \in rules : r.from <= t /\ t < r.until}

(* resolve_applicable_rule: an IB's own rule before the global one, and no  *)
(* rule at all (0) when two of the same scope apply.                        *)
RateAt(ib, type, t) ==
    LET mine == InForce(own[<<ib, type>>], t)
    IN  IF mine = {} THEN GlobalRate[type]
        ELSE IF Cardinality(mine) = 1 THEN (CHOOSE r \in mine : TRUE).rate
        ELSE 0

ClosedAt(r, now) == [r EXCEPT !.until = IF @ = Open THEN now ELSE @]

Continued(rules, now, rate) ==
    {ClosedAt(r, now) : r \in rules} \cup {[rate |-> rate, from |-> now, until |-> Open]}

(* change_commission_rate closes the open rule and opens the new one at one *)
(* instant, so that the history has neither a gap nor an overlap.           *)
ChangeRate(ib, type, rate) ==
    /\ <<ib, type, rate>> \in RateChanges
    /\ clock < MaxClock
    /\ \A r \in own[<<ib, type>>] : r.until = Open => r.rate # rate
    /\ clock' = clock + 1
    /\ own' = [own EXCEPT ![<<ib, type>>] = Continued(@, clock', rate)]
    /\ UNCHANGED <<event, frozen, parent, linkedAt, direct, done, share, cents, carry>>

Freeze(ib) ==
    /\ ib \notin frozen /\ Cardinality(frozen) < MaxFrozen
    /\ frozen' = frozen \cup {ib}
    /\ UNCHANGED <<clock, event, own, parent, linkedAt, direct, done, share, cents, carry>>

Unfreeze(ib) ==
    /\ ib \in frozen
    /\ frozen' = frozen \ {ib}
    /\ UNCHANGED <<clock, event, own, parent, linkedAt, direct, done, share, cents, carry>>

-----------------------------------------------------------------------------
(* The network.                                                             *)

ParentAt(ib, t) == IF linkedAt[ib] <= t THEN parent[ib] ELSE NoIB

(* Up from an IB by the links `above', the nearest first.                   *)
Chain(above, ib) ==
    LET up[n \in 0 .. Cardinality(IBs)] ==
            [i \in IBs |-> IF n = 0 \/ above[i] = NoIB THEN <<>>
                           ELSE <<above[i]>> \o up[n - 1][above[i]]]
    IN  up[Cardinality(IBs)][ib]

M_Ancestors_AnyTime(ib, t) == Chain(parent, ib)

(* The ancestors of an IB through the links that existed at time t.         *)
Ancestors(ib, t) == Chain([i \in IBs |-> ParentAt(i, t)], ib)

IsAncestor(a, ib) == a \in Range(Ancestors(ib, clock))

M_LinkSubIB_ChecksParentOnly(child, p) ==
    /\ clock < MaxClock
    /\ parent[child] = NoIB
    /\ child # p
    /\ parent[p] # child
    /\ clock' = clock + 1
    /\ parent' = [parent EXCEPT ![child] = p]
    /\ linkedAt' = [linkedAt EXCEPT ![child] = clock']
    /\ UNCHANGED <<event, own, frozen, direct, done, share, cents, carry>>

(* link_sub_ib, under the one lock of the whole network: a link is never    *)
(* replaced and never closes a cycle.                                       *)
LinkSubIB(child, p) ==
    /\ clock < MaxClock
    /\ parent[child] = NoIB
    /\ child # p
    /\ ~IsAncestor(child, p)
    /\ clock' = clock + 1
    /\ parent' = [parent EXCEPT ![child] = p]
    /\ linkedAt' = [linkedAt EXCEPT ![child] = clock']
    /\ UNCHANGED <<event, own, frozen, direct, done, share, cents, carry>>

-----------------------------------------------------------------------------
(* Events and the obligations they give rise to.                            *)

Happened(e) == event[e].at # NotYet

(* A lot is opened; primary keys are handed out in order.                   *)
Execute(e, qty) ==
    /\ clock < MaxClock
    /\ ~Happened(e)
    /\ \A f \in Events : f < e => Happened(f)
    /\ clock' = clock + 1
    /\ event' = [event EXCEPT ![e] =
                    [at |-> clock', qty |-> qty, rate |-> RateAt(ReferredBy[e], "PER_LOT", clock')]]
    /\ UNCHANGED <<own, frozen, parent, linkedAt, direct, done, share, cents, carry>>

(* _money_round: to the cent, halves to the even one.                       *)
MoneyRound(x) ==
    LET q == x \div Cent
        rest == x % Cent
    IN  IF 2 * rest > Cent \/ (2 * rest = Cent /\ q % 2 = 1) THEN q + 1 ELSE q

M_DirectAmount_RateOfTheSweep(e) ==
    LET rate == RateAt(ReferredBy[e], "PER_LOT", clock)
    IN  IF ReferredBy[e] \in frozen \/ rate = 0 THEN NotYet
        ELSE MoneyRound(event[e].qty * rate)

(* generate_per_lot_obligation: the amount, or NotYet when there is none to *)
(* generate.  The rate is the one of the event, whenever it is swept.       *)
DirectAmount(e) ==
    LET rate == RateAt(ReferredBy[e], "PER_LOT", event[e].at)
    IN  IF ReferredBy[e] \in frozen \/ rate = 0 THEN NotYet
        ELSE MoneyRound(event[e].qty * rate)

FirstRows(rows) == {e \in rows : Cardinality({f \in rows : f < e}) < BatchSize}

(* sweep_per_lot.  The batch is read without regard to what has already     *)
(* given rise to an obligation; each of its rows is a transaction.          *)
Recent == {e \in Events : Happened(e) /\ event[e].at >= clock - Lookback}

SweepPerLot(e) ==
    /\ e \in FirstRows(Recent)
    /\ direct[e] = NotYet
    /\ direct' = [direct EXCEPT ![e] = DirectAmount(e)]
    /\ direct' # direct
    /\ UNCHANGED <<clock, event, own, frozen, parent, linkedAt, done, share, cents, carry>>

Lesser(a, b) == IF a < b THEN a ELSE b

Divisor[n \in 0 .. Cardinality(IBs)] == IF n = 0 THEN 1 ELSE 2 * Divisor[n - 1]

(* What the ancestor at a level asks for: half of what the level below it   *)
(* would at the same rate, nothing while he is frozen.                      *)
Asked(e, up, n) ==
    IF up[n] \in frozen THEN 0
    ELSE (RateAt(up[n], "SUB_IB_PER_LOT", event[e].at) * event[e].qty) \div Divisor[n - 1]

(* ... and what he gets: at most what the levels below have left of the     *)
(* budget of the client's IB.                                               *)
Share(e, up, n) ==
    LET budget == RateAt(ReferredBy[e], "SUB_IB_BUDGET", event[e].at) * event[e].qty
        below == SumFunctionOnSet([m \in DOMAIN up |-> Asked(e, up, m)], 1 .. n - 1)
    IN  IF below >= budget THEN 0 ELSE Lesser(Asked(e, up, n), budget - below)

(* What each IB is accrued for an event: nothing to the ancestors of an IB  *)
(* who gets nothing himself.                                                *)
Accruals(e) ==
    LET up == Ancestors(ReferredBy[e], event[e].at)
        shares == [n \in DOMAIN up |-> Share(e, up, n)]
    IN  IF DirectAmount(e) = NotYet THEN [ib \in IBs |-> 0]
        ELSE [ib \in IBs |-> SumFunctionOnSet(shares, {n \in DOMAIN up : up[n] = ib})]

M_Unprocessed_RecentOnly == {e \in Recent : ~done[e]}

(* sweep_network reads the oldest unprocessed events, however old, from the *)
(* day the first rule for a network's budget came into force.               *)
Unprocessed ==
    {e \in Events : /\ Happened(e) /\ ~done[e]
                    /\ \/ GlobalRate["SUB_IB_BUDGET"] > 0
                       \/ \E ib \in IBs : \E r \in own[<<ib, "SUB_IB_BUDGET">>] :
                              r.from <= event[e].at}

M_ProcessExecution_DropsCarry(e) ==
    LET amount == Accruals(e)
    IN  /\ e \in FirstRows(Unprocessed)
        /\ done' = [done EXCEPT ![e] = TRUE]
        /\ direct' = [direct EXCEPT ![e] = IF @ = NotYet THEN DirectAmount(e) ELSE @]
        /\ share' = [share EXCEPT ![e] = amount]
        /\ cents' = [cents EXCEPT ![e] = [ib \in IBs |-> (carry[ib] + amount[ib]) \div Cent]]
        /\ carry' = [ib \in IBs |-> amount[ib] % Cent]
        /\ UNCHANGED <<clock, event, own, frozen, parent, linkedAt>>

(* process_execution: one transaction under the network's lock.  An event   *)
(* nobody is paid for is marked done all the same.                          *)
ProcessExecution(e) ==
    LET amount == Accruals(e)
    IN  /\ e \in FirstRows(Unprocessed)
        /\ done' = [done EXCEPT ![e] = TRUE]
        /\ direct' = [direct EXCEPT ![e] = IF @ = NotYet THEN DirectAmount(e) ELSE @]
        /\ share' = [share EXCEPT ![e] = amount]
        /\ cents' = [cents EXCEPT ![e] = [ib \in IBs |-> (carry[ib] + amount[ib]) \div Cent]]
        /\ carry' = [ib \in IBs |-> (carry[ib] + amount[ib]) % Cent]
        /\ UNCHANGED <<clock, event, own, frozen, parent, linkedAt>>

Next ==
    \/ \E ib \in IBs : \/ Freeze(ib) \/ Unfreeze(ib)
                       \/ \E p \in IBs : LinkSubIB(ib, p)
                       \/ \E type \in RuleTypes, rate \in {c[3] : c \in RateChanges} :
                              ChangeRate(ib, type, rate)
    \/ \E e \in Events : \/ \E qty \in Quantities : Execute(e, qty)
                         \/ SweepPerLot(e)
                         \/ ProcessExecution(e)

(* Both sweeps run every five minutes, from Celery's beat.                  *)
Fairness == \A e \in Events : WF_vars(SweepPerLot(e)) /\ WF_vars(ProcessExecution(e))

Spec == Init /\ [][Next]_vars /\ Fairness

-----------------------------------------------------------------------------
(* Whenever an event is swept, its IB is owed the rate that was in force    *)
(* when the lot was opened, to within half a cent: a change of the rate     *)
(* between the two moves nothing.                                           *)
AmountAtEventRate ==
    \A e \in Events : direct[e] # NotYet =>
        LET due == event[e].qty * event[e].rate
        IN  2 * (direct[e] * Cent - due) \in -Cent .. Cent

(* The budget of the client's IB covers all levels together.                *)
NetworkWithinBudget ==
    \A e \in Events :
        SumFunctionOnSet(share[e], IBs)
            <= event[e].qty * RateAt(ReferredBy[e], "SUB_IB_BUDGET", event[e].at)

(* No fraction of a cent is lost or paid twice, however many events it      *)
(* takes to make a cent of it.                                              *)
SubCentsConserved ==
    \A ib \in IBs :
        SumFunctionOnSet([e \in Events |-> share[e][ib]], Events)
            = Cent * SumFunctionOnSet([e \in Events |-> cents[e][ib]], Events) + carry[ib]

(* Both: what a network costs is bounded, and all of it is paid out.        *)
NetworkSharesAddUp == NetworkWithinBudget /\ SubCentsConserved

(* Nobody is an ancestor of his own, in whatever order the links were made. *)
NoCycles == \A ib \in IBs : ~IsAncestor(ib, ib)

(* A link made after a lot was opened gives nobody a share of it.           *)
NoRetroactiveShare ==
    [][\A e \in Events : Happened(e) =>
          Ancestors(ReferredBy[e], event[e].at)' = Ancestors(ReferredBy[e], event[e].at)]_vars

(* An event is never left out by the network, however old it is by the time *)
(* its turn comes.                                                          *)
EveryEventProcessed ==
    \A e \in Events : e \in Unprocessed ~> done[e]

=============================================================================
