----------------------------- MODULE PayoutInbox -----------------------------
(***************************************************************************)
(* The durable inbox of payout webhooks: PayoutWebhookEvent rows, the live *)
(* callback (views.py withdraw_payout_callback), the pipeline              *)
(* process_webhook_event() with its three transactions, and the periodic   *)
(* replay task.  It refines Payout: what Payout shows as one atomic        *)
(* WebhookApplied step is here a row that is stored, correlated, applied   *)
(* and marked by different transactions, with crashes in between.          *)
(***************************************************************************)
EXTENDS Payout, Sequences

CONSTANTS
    Handlers,         \* threads serving the webhook endpoint
    Replayers,        \* workers that may run replay_payout_webhook_events_task
    Kinds,            \* normalized statuses the provider's notices carry
    MaxAutoRetries,   \* PAYOUT_WEBHOOK_MAX_AUTO_RETRIES
    BatchSize         \* rows one replay run takes

ASSUME InboxConstants ==
    /\ Handlers \cap Replayers = {}
    /\ Kinds \subseteq {"processing", "completed", "failed", "unrecognized"}
    /\ MaxAutoRetries \in Nat \ {0}
    /\ BatchSize \in Nat \ {0}
    /\ NoOne \notin Attempts \X Kinds

(* A row is identified by event_fingerprint: redelivery finds the same row. *)
Events == Attempts \X Kinds
Processes == Handlers \cup Replayers

VARIABLES
    event,     \* PayoutWebhookEvent.correlation_status and retry_count
    arrival,   \* the rows in the order of received_at
    proc       \* program counter of each handler and replay run

inboxVars == <<event, arrival, proc>>
allVars == <<vars, inboxVars>>

IdleProc == [pc |-> "idle", ev |-> NoOne, todo |-> {}]

InboxInit ==
    /\ Init
    /\ event = [e \in Events |-> [st |-> "none", retries |-> 0]]
    /\ arrival = <<>>
    /\ proc = [p \in Processes |-> IdleProc]

Goto(p, pc) == proc' = [proc EXCEPT ![p] = [pc |-> pc, ev |-> @.ev, todo |-> @.todo]]

(* The handler answers, the replay run goes on with its batch.              *)
DoneWith(p) ==
    proc' = [proc EXCEPT ![p] =
               IF p \in Handlers THEN IdleProc
               ELSE [pc |-> "next", ev |-> NoOne, todo |-> @.todo]]

-----------------------------------------------------------------------------
(* A signed notice: persisted before it is correlated.                      *)

(* Notices say what is or was true; a status the code does not map is       *)
(* "unrecognized" and may come at any time after acceptance.                *)
Truthful(e) ==
    IF e[2] = "unrecognized" THEN Accepted(e[1]) ELSE Evidence(e[1], e[2])

get_or_create_webhook_event(e) ==
    IF event[e].st = "none"
    THEN /\ event' = [event EXCEPT ![e] = [st |-> "pending", retries |-> 0]]
         /\ arrival' = Append(arrival, e)
    ELSE UNCHANGED <<event, arrival>>

Deliver(p, e) ==
    /\ p \in Handlers
    /\ proc[p].pc = "idle"
    /\ Truthful(e)
    /\ get_or_create_webhook_event(e)
    /\ proc' = [proc EXCEPT ![p] = [pc |-> "txn0", ev |-> e, todo |-> {}]]
    /\ UNCHANGED vars

-----------------------------------------------------------------------------
(* process_webhook_event().                                                 *)

(* Operators named M_... are mutants, as in Payout.                         *)
M_Correlate_OrphanResolved(p) ==
    LET e == proc[p].ev IN
    /\ proc[p].pc = "txn0"
    /\ \/ event[e].st = "resolved" /\ DoneWith(p)
       \/ event[e].st # "resolved" /\ Goto(p, IF ref[e[1]] THEN "txn1" ELSE "txn2")
    /\ UNCHANGED <<vars, event, arrival>>

(* TXN0: already resolved, nothing to do; otherwise correlate by reference. *)
Correlate(p) ==
    LET e == proc[p].ev IN
    /\ proc[p].pc = "txn0"
    /\ \/ event[e].st = "resolved" /\ DoneWith(p)
       \/ event[e].st # "resolved" /\ ~ref[e[1]] /\ Goto(p, "orphan")
       \/ event[e].st # "resolved" /\ ref[e[1]]
          /\ Goto(p, IF e[2] = "unrecognized" THEN "review" ELSE "txn1")
    /\ UNCHANGED <<vars, event, arrival>>

M_Apply_NoTerminalGuard(p) ==
    LET e == proc[p].ev IN
    /\ proc[p].pc = "txn1"
    /\ \/ e[2] # "failed" /\ ApplyAttemptWebhook(e[1], e[2])
       \/ /\ e[2] = "failed" /\ refunds[e[1][1]] < 2
          /\ TransitionAndSync(e[1], "failed")
          /\ Refund(e[1][1])
          /\ UNCHANGED <<approvals, ref, provider, feeRevenue>>
    /\ Goto(p, "txn2")
    /\ UNCHANGED <<sub, rec, event, arrival>>

(* TXN1: the appliers shared with submission and reconciliation.            *)
Apply(p) ==
    LET e == proc[p].ev IN
    /\ proc[p].pc = "txn1"
    /\ ApplyAttemptWebhook(e[1], e[2])
    /\ Goto(p, "txn2")
    /\ UNCHANGED <<sub, rec, event, arrival>>

(* TXN1 raised: the callback swallows it, a replay run ends with it; the    *)
(* row is left as it was, with no retry counted.                            *)
ApplyRaises(p) ==
    LET e == proc[p].ev IN
    /\ proc[p].pc = "txn1"
    /\ Raises(e[1], e[2], FALSE)
    /\ proc' = [proc EXCEPT ![p] = IdleProc]
    /\ UNCHANGED <<vars, event, arrival>>

(* TXN2: the guarded UPDATE to RESOLVED.                                    *)
MarkResolved(p) ==
    /\ proc[p].pc = "txn2"
    /\ event' = [event EXCEPT ![proc[p].ev] = [st |-> "resolved", retries |-> @.retries]]
    /\ DoneWith(p)
    /\ UNCHANGED <<vars, arrival>>

(* The counter saturates: past the limit it makes no difference.            *)
Bumped(e) == LET n == event[e].retries IN IF n < MaxAutoRetries THEN n + 1 ELSE n

(* _mark_webhook_event_unresolved().                                        *)
MarkedUnresolved(e, bump_retry) ==
    IF event[e].st = "resolved" THEN event[e]
    ELSE IF ~bump_retry THEN [st |-> "manual_review", retries |-> event[e].retries]
    ELSE [st |-> IF Bumped(e) >= MaxAutoRetries THEN "manual_review" ELSE event[e].st,
          retries |-> Bumped(e)]

MarkUnresolved(p) ==
    LET e == proc[p].ev IN
    /\ proc[p].pc \in {"orphan", "review"}
    /\ event' = [event EXCEPT ![e] = MarkedUnresolved(e, proc[p].pc = "orphan")]
    /\ DoneWith(p)
    /\ UNCHANGED <<vars, arrival>>

ProcessCrash(p) ==
    /\ proc[p].pc \notin {"idle", "crashed"}
    /\ proc' = [proc EXCEPT ![p] = [pc |-> IF p \in Handlers THEN "idle" ELSE "crashed",
                                    ev |-> NoOne, todo |-> {}]]
    /\ UNCHANGED <<vars, event, arrival>>

-----------------------------------------------------------------------------
(* replay_payout_webhook_events_task: PENDING rows that are due, the newest *)
(* first.  A row never bumped has no next_retry_at and is always due.       *)

Pending == {e \in Events : event[e].st = "pending"}
Newer(e, f) ==
    \E i, j \in DOMAIN arrival : i > j /\ arrival[i] = e /\ arrival[j] = f

M_ReplayStart_NullNotDue(p) ==
    /\ p \in Replayers
    /\ proc[p].pc \in {"idle", "crashed"}
    /\ \E due \in SUBSET {e \in Pending : event[e].retries > 0} :
          proc' = [proc EXCEPT ![p] = [pc |-> "next", ev |-> NoOne, todo |-> due]]
    /\ UNCHANGED <<vars, event, arrival>>

ReplayStart(p) ==
    /\ p \in Replayers
    /\ proc[p].pc \in {"idle", "crashed"}
    /\ \E due \in SUBSET Pending :
          /\ {e \in Pending : event[e].retries = 0} \subseteq due
          /\ proc' = [proc EXCEPT ![p] =
                [pc |-> "next", ev |-> NoOne,
                 todo |-> {e \in due : Cardinality({f \in due : Newer(f, e)}) < BatchSize}]]
    /\ UNCHANGED <<vars, event, arrival>>

ReplayNext(p) ==
    /\ proc[p].pc = "next"
    /\ \E e \in proc[p].todo :
          /\ \A f \in proc[p].todo : ~Newer(f, e)
          /\ proc' = [proc EXCEPT ![p] = [pc |-> "txn0", ev |-> e, todo |-> @.todo \ {e}]]
    /\ UNCHANGED <<vars, event, arrival>>

ReplayEnd(p) ==
    /\ proc[p].pc = "next"
    /\ proc[p].todo = {}
    /\ proc' = [proc EXCEPT ![p] = IdleProc]
    /\ UNCHANGED <<vars, event, arrival>>

-----------------------------------------------------------------------------
Pipeline(p) ==
    \/ Correlate(p) \/ Apply(p) \/ ApplyRaises(p) \/ MarkResolved(p) \/ MarkUnresolved(p)

Inbox ==
    \E p \in Processes :
       \/ \E e \in Events : Deliver(p, e)
       \/ Pipeline(p) \/ ProcessCrash(p)
       \/ ReplayStart(p) \/ ReplayNext(p) \/ ReplayEnd(p)

InboxNext ==
    \/ (Request \/ Submit \/ Provider \/ Reconcile) /\ UNCHANGED inboxVars
    \/ Inbox

InboxSpec == InboxInit /\ [][InboxNext]_allVars

(* Celery beat starts the replay task every 5 minutes and a run goes on     *)
(* until it ends or raises; workers do not crash for ever; next_retry_at    *)
(* comes.  Nothing is assumed of the provider, nor that it redelivers.      *)
ReplayFairness ==
    /\ <>[][\A p \in Replayers : ~ProcessCrash(p)]_allVars
    /\ \A p \in Replayers :
          /\ WF_allVars(ReplayStart(p) \/ ReplayNext(p) \/ ReplayEnd(p) \/ Pipeline(p))
          /\ \A e \in Events : SF_allVars(ReplayStart(p) /\ e \in proc'[p].todo)

(* Both tasks run, beside each other and beside the webhooks.               *)
FairInboxSpec == InboxSpec /\ ReplayFairness /\ ReconcileFairness

-----------------------------------------------------------------------------
(* Properties.                                                              *)

(* Rows and program counters keep to the values the code gives them.        *)
InboxTypeOK ==
    /\ event \in [Events -> [st : {"none", "pending", "resolved", "manual_review"},
                             retries : 0..MaxAutoRetries]]
    /\ arrival \in Seq(Events)
    /\ proc \in [Processes -> [pc : {"idle", "crashed", "txn0", "txn1", "txn2", "orphan", "review", "next"},
                               ev : Events \cup {NoOne},
                               todo : SUBSET Events]]

(* RESOLVED means the transition has been applied: whatever crashed or was  *)
(* delivered twice, a resolved FINISHED or FAILED row has its attempt in    *)
(* that status, and a resolved progress notice an attempt past submission.  *)
ResolvedMeansApplied ==
    \A e \in Events :
       event[e].st = "resolved" =>
          IF e[2] = "processing" THEN status[e[1]] \notin {"none", "submitted", "unknown"}
          ELSE status[e[1]] = e[2]

(* _mark_webhook_event_unresolved() never downgrades a row that another     *)
(* process resolved meanwhile, and no row is ever lost or re-opened.        *)
RowsOnlyAdvance ==
    [][\A e \in Events :
          /\ event[e].st = "resolved" => event'[e].st = "resolved"
          /\ event[e].st = "manual_review" => event'[e].st \in {"manual_review", "resolved"}
          /\ event[e].st # "none" => event'[e].st # "none"]_allVars

(* A status the code does not know never moves money nor the attempt: its   *)
(* row can only end in manual review.                                       *)
UnrecognizedNeverResolved ==
    \A e \in Events : e[2] = "unrecognized" => event[e].st # "resolved"

(* The durable inbox changes nothing of what the withdrawal pipeline may    *)
(* do: every behaviour is one of Payout, with WebhookApplied atomic.        *)
RefinesPayout == Spec

(* A stored FINISHED or FAILED notice does not stay PENDING for ever: the   *)
(* replay task resolves it or hands it to an operator.  It takes both beat  *)
(* tasks: a newer row whose transition raises ends every replay run, until  *)
(* reconciliation ends its attempt and the row becomes a no-op.             *)
TerminalNoticesAreReplayed ==
    \A e \in Events :
       e[2] \in {"completed", "failed"} =>
          (event[e].st = "pending" ~> event[e].st \in {"resolved", "manual_review"})

(* "Picks only PENDING rows ... re-runs correlation": a replay run that is  *)
(* not killed goes through every row it has picked.  It does not: one row   *)
(* whose transition raises ends the run with older rows still to do, which  *)
(* the loop of the live callback is written to prevent.                     *)
OneFailureSparesTheBatch ==
    [][\A p \in Replayers :
          proc[p].pc \notin {"idle", "crashed"} /\ proc'[p].pc = "idle" =>
             proc[p].todo = {}]_allVars
=============================================================================
